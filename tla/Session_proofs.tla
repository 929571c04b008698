--------------------------- MODULE Session_proofs ---------------------------
(* What the operators of Session return and preserve, for every survey. *)
EXTENDS Session, TLAPS, FiniteSetTheorems, WellFoundedInduction

(***************************************************************************)
(* The given slots and the last of them.                                   *)
(***************************************************************************)

\* The given slots of a session are finitely many: they can be counted.
LEMMA GivenSlotsFinite ==
    ASSUME NEW answers \in Seq(Answer)
    PROVE  /\ GivenSlots(answers) \subseteq 1..Len(answers)
           /\ IsFiniteSet(GivenSlots(answers))
           /\ Cardinality(GivenSlots(answers)) \in Nat
<1>1. GivenSlots(answers) \subseteq 1..Len(answers)
  BY DEF GivenSlots
<1>2. Len(answers) \in Nat
  OBVIOUS
<1>3. IsFiniteSet(1..Len(answers))
  BY <1>2, FS_Interval
<1>4. IsFiniteSet(GivenSlots(answers))
  BY <1>1, <1>3, FS_Subset
<1> QED
  BY <1>1, <1>4, FS_CardinalityType

\* LastSlot is well defined as soon as an answer is given: the maximum of the
\* given slots, found as the minimum of their distances from the end.
LEMMA LastSlotIsMaximum ==
    ASSUME NEW answers \in Seq(Answer), GivenSlots(answers) # {}
    PROVE  /\ LastSlot(answers) \in GivenSlots(answers)
           /\ \A j \in GivenSlots(answers) : j <= LastSlot(answers)
<1> DEFINE n == Len(answers)
           G == GivenSlots(answers)
           T == {d \in Nat : n - d \in G}
<1>1. n \in Nat /\ G \subseteq 1..n
  BY DEF GivenSlots
<1>2. T # {}
  <2>1. PICK i \in G : TRUE
    OBVIOUS
  <2>2. n - i \in Nat /\ n - (n - i) = i
    BY <1>1, <2>1
  <2> QED
    BY <2>1, <2>2
<1>3. PICK d \in T : \A e \in T : ~ (<<e, d>> \in OpToRel(<, Nat))
  BY <1>2, WFMin, NatLessThanWellFounded DEF OpToRel
<1>4. \A e \in T : ~ (e < d)
  BY <1>3 DEF OpToRel
<1>5. n - d \in G
  OBVIOUS
<1>6. \A j \in G : j <= n - d
  <2> SUFFICES ASSUME NEW j \in G
               PROVE  j <= n - d
    OBVIOUS
  <2>1. n - j \in T
    BY <1>1
  <2>2. ~ (n - j < d)
    BY <1>4, <2>1
  <2> QED
    BY <1>1, <2>2
<1> QED
  BY <1>5, <1>6 DEF LastSlot

(***************************************************************************)
(* Types.                                                                  *)
(***************************************************************************)

\* The consistency hash covers no answer or one answer.
LEMMA ConsistencyHashType ==
    ASSUME NEW answers \in Seq(Answer)
    PROVE  LastGiven(answers) \in Seq(Answer)
<1>1. CASE GivenSlots(answers) = {}
  BY <1>1 DEF LastGiven
<1>2. CASE GivenSlots(answers) # {}
  <2>1. LastSlot(answers) \in 1..Len(answers)
    BY <1>2, LastSlotIsMaximum, GivenSlotsFinite
  <2>2. answers[LastSlot(answers)] \in Answer
    BY <2>1
  <2> QED
    BY <1>2, <2>2 DEF LastGiven
<1> QED
  BY <1>1, <1>2

\* A session file gives a loaded session, and that gives a file again.
LEMMA LoadSaveType ==
    /\ \A f \in File : /\ Load(f) \in Memory
                       /\ Load(f).state = f.state
                       /\ Load(f).answers = f.answers
                       /\ Load(f).next = f.next
    /\ \A m \in Memory : Save(m) \in File
    /\ NoFile \in File
<1>1. ASSUME NEW f \in File
      PROVE  /\ Load(f) \in Memory
             /\ Load(f).state = f.state
             /\ Load(f).answers = f.answers
             /\ Load(f).next = f.next
  <2>1. f.answers \in Seq(Answer)
    BY DEF File
  <2>2. Cardinality(GivenSlots(f.answers)) \in Nat
    BY <2>1, GivenSlotsFinite
  <2> QED
    BY <2>1, <2>2 DEF File, Memory, Load
<1>2. \A m \in Memory : Save(m) \in File
  BY DEF Save, Memory, File
<1>3. NoFile \in File
  BY DEF NoFile, File, SessionState, SESSION_NULL, SESSION_CLOSED
<1> QED
  BY <1>1, <1>2, <1>3

\* Storing an answer keeps the list a list of answers; every slot keeps its
\* question, and a slot that is appended holds a question that had none.
LEMMA StoredType ==
    ASSUME NEW answers \in Seq(Answer), NEW a \in Answer
    PROVE  /\ Stored(answers, a) \in Seq(Answer)
           /\ Len(answers) <= Len(Stored(answers, a))
           /\ Len(Stored(answers, a)) <= Len(answers) + 1
           /\ \A i \in 1..Len(answers) :
                  Stored(answers, a)[i] = IF answers[i].uid = a.uid THEN a ELSE answers[i]
           /\ Len(Stored(answers, a)) = Len(answers) + 1 =>
                  /\ Stored(answers, a)[Len(answers) + 1] = a
                  /\ \A i \in 1..Len(answers) : answers[i].uid # a.uid
<1>1. CASE SlotsOf(answers, a.uid) = {}
  <2>1. Stored(answers, a) = Append(answers, a)
    BY <1>1 DEF Stored
  <2>2. \A i \in 1..Len(answers) : answers[i].uid # a.uid
    BY <1>1 DEF SlotsOf
  <2> QED
    BY <2>1, <2>2
<1>2. CASE SlotsOf(answers, a.uid) # {}
  <2> DEFINE S == [i \in 1..Len(answers) |-> IF answers[i].uid = a.uid THEN a ELSE answers[i]]
  <2>1. Stored(answers, a) = S
    BY <1>2 DEF Stored
  <2>2. Len(answers) \in Nat /\ \A i \in 1..Len(answers) : S[i] \in Answer
    OBVIOUS
  <2>3. S \in Seq(Answer) /\ Len(S) = Len(answers)
    BY <2>2
  <2>4. \A i \in 1..Len(answers) : S[i] = IF answers[i].uid = a.uid THEN a ELSE answers[i]
    OBVIOUS
  <2> HIDE DEF S
  <2> QED
    BY <2>1, <2>2, <2>3, <2>4
<1> QED
  BY <1>1, <1>2

\* Deletion keeps every slot, its question and its value.
LEMMA CutType ==
    ASSUME NEW answers \in Seq(Answer), NEW us
    PROVE  /\ Cut(answers, us) \in Seq(Answer)
           /\ Len(Cut(answers, us)) = Len(answers)
           /\ \A j \in 1..Len(answers) :
                  Cut(answers, us)[j] = IF \E i \in GivenSlots(answers) : i <= j /\ answers[i].uid \in us
                                        THEN [answers[j] EXCEPT !.deleted = TRUE]
                                        ELSE answers[j]
<1> DEFINE Slot(j) == IF \E i \in GivenSlots(answers) : i <= j /\ answers[i].uid \in us
                      THEN [answers[j] EXCEPT !.deleted = TRUE]
                      ELSE answers[j]
<1>1. Len(answers) \in Nat
  OBVIOUS
<1>2. \A j \in 1..Len(answers) : Slot(j) \in Answer
  <2> SUFFICES ASSUME NEW j \in 1..Len(answers)
               PROVE  Slot(j) \in Answer
    OBVIOUS
  <2>1. answers[j] \in Answer
    OBVIOUS
  <2>2. [answers[j] EXCEPT !.deleted = TRUE] \in Answer
    BY <2>1 DEF Answer
  <2> QED
    BY <2>1, <2>2
<1>3. Cut(answers, us) = [j \in 1..Len(answers) |-> Slot(j)]
  BY DEF Cut
<1> HIDE DEF Slot
<1>4. Cut(answers, us) \in Seq(Answer) /\ Len(Cut(answers, us)) = Len(answers)
  BY <1>1, <1>2, <1>3
<1>5. \A j \in 1..Len(answers) : Cut(answers, us)[j] = Slot(j)
  BY <1>3
<1> QED
  BY <1>4, <1>5 DEF Slot

\* session_add_answer on a loaded session.
LEMMA AddAnswerType ==
    ASSUME NEW m \in Memory, NEW u \in Question, NEW v \in Value
    PROVE  /\ [uid |-> u, val |-> v, deleted |-> FALSE] \in Answer
           /\ AddAnswer(m, u, v) \in Memory
           /\ AddAnswer(m, u, v).answers = Stored(m.answers, [uid |-> u, val |-> v, deleted |-> FALSE])
           /\ AddAnswer(m, u, v).next = m.next
           /\ AddAnswer(m, u, v).count = m.count + 1
           /\ AddAnswer(m, u, v).state = SESSION_OPEN
<1> DEFINE a == [uid |-> u, val |-> v, deleted |-> FALSE]
<1>1. a \in Answer
  BY DEF Answer
<1>2. m.answers \in Seq(Answer)
  BY DEF Memory
<1>3. Stored(m.answers, a) \in Seq(Answer)
  BY <1>1, <1>2, StoredType
<1>4. SESSION_OPEN \in SessionState
  BY DEF SESSION_OPEN, SessionState, SESSION_NULL, SESSION_CLOSED
<1> DEFINE ans == Stored(m.answers, a)
<1>5. AddAnswer(m, u, v) = [m EXCEPT !.answers = ans, !.count = m.count + 1, !.state = SESSION_OPEN]
  BY DEF AddAnswer
<1>6. m.count + 1 \in Int
  BY DEF Memory
<1> HIDE DEF a, ans
<1>7. /\ AddAnswer(m, u, v) \in Memory
      /\ AddAnswer(m, u, v).answers = ans
      /\ AddAnswer(m, u, v).next = m.next
      /\ AddAnswer(m, u, v).count = m.count + 1
      /\ AddAnswer(m, u, v).state = SESSION_OPEN
  <2>1. ans \in Seq(Answer)
    BY <1>3 DEF ans
  <2> HIDE DEF SESSION_OPEN
  <2> QED
    BY <2>1, <1>4, <1>5, <1>6 DEF Memory
<1> QED
  BY <1>1, <1>7 DEF a, ans

\* session_delete_answer on a loaded session.
LEMMA DeleteAnswersType ==
    ASSUME NEW m \in Memory, NEW us
    PROVE  /\ DeleteAnswers(m, us) \in Memory
           /\ DeleteAnswers(m, us).answers = Cut(m.answers, us)
           /\ DeleteAnswers(m, us).next = m.next
           /\ DeleteAnswers(m, us).state = m.state
           /\ DeleteAnswers(m, us).count = m.count - Cardinality(GivenSlots(m.answers) \ GivenSlots(Cut(m.answers, us)))
           /\ Cardinality(GivenSlots(m.answers) \ GivenSlots(Cut(m.answers, us))) \in Nat
<1> DEFINE D == GivenSlots(m.answers) \ GivenSlots(Cut(m.answers, us))
<1>1. m.answers \in Seq(Answer)
  BY DEF Memory
<1>2. Cut(m.answers, us) \in Seq(Answer)
  BY <1>1, CutType
<1>3. IsFiniteSet(D)
  BY <1>1, GivenSlotsFinite, FS_Subset
<1>4. Cardinality(D) \in Nat
  BY <1>3, FS_CardinalityType
<1> HIDE DEF D
<1>5. DeleteAnswers(m, us) = [m EXCEPT !.answers = Cut(m.answers, us), !.count = m.count - Cardinality(D)]
  BY DEF DeleteAnswers, D
<1> DEFINE cut == Cut(m.answers, us)
           c   == m.count - Cardinality(D)
<1>6. cut \in Seq(Answer) /\ c \in Int
  BY <1>2, <1>4 DEF Memory
<1>7. DeleteAnswers(m, us) = [m EXCEPT !.answers = cut, !.count = c]
  BY <1>5
<1> HIDE DEF cut, c
<1>8. /\ DeleteAnswers(m, us) \in Memory
      /\ DeleteAnswers(m, us).answers = cut
      /\ DeleteAnswers(m, us).next = m.next
      /\ DeleteAnswers(m, us).state = m.state
      /\ DeleteAnswers(m, us).count = c
  BY <1>6, <1>7 DEF Memory
<1> QED
  BY <1>4, <1>8 DEF cut, c, D

\* The generic controller returns no question or one of the survey.
LEMMA GenericNextType ==
    ASSUME NEW m \in Memory
    PROVE  GenericNext(m) \in Seq(Question)
<1>1. Survey[1] \in Question /\ N \in Nat
  BY SurveyAssumption DEF Question, N
<1>2. CASE GivenSlots(m.answers) = {}
  BY <1>1, <1>2 DEF GenericNext
<1>3. CASE GivenSlots(m.answers) # {}
  <2> DEFINE u == m.answers[LastSlot(m.answers)].uid
  <2>1. m.answers \in Seq(Answer)
    BY DEF Memory
  <2>2. LastSlot(m.answers) \in 1..Len(m.answers)
    BY <1>3, <2>1, LastSlotIsMaximum, GivenSlotsFinite
  <2>3. m.answers[LastSlot(m.answers)] \in Answer
    BY <2>1, <2>2
  <2>4. u \in Question
    BY <2>3 DEF Answer
  <2>5. IndexOf(u) \in 1..N
    <3> HIDE DEF u
    <3> QED
      BY <2>4 DEF Question, IndexOf
  <2>6. IndexOf(u) < N => Survey[IndexOf(u) + 1] \in Question
    BY <1>1, <2>5 DEF Question
  <2> QED
    BY <1>1, <1>3, <2>5, <2>6 DEF GenericNext
<1> QED
  BY <1>2, <1>3

\* get_next_questions on a session, whatever list the controller returned: only a
\* DELETE touches the answers, and the state is never set back below "open".
LEMMA ServeType ==
    ASSUME NEW m \in Memory, NEW op, NEW list \in Seq(Question)
    PROVE  /\ Serve(m, op, list) \in Memory
           /\ op = "DELETEANSWER" => Serve(m, op, list).answers = Cut(m.answers, Listed(list))
           /\ op # "DELETEANSWER" => Serve(m, op, list).answers = m.answers
           /\ Serve(m, op, list).next = list
           /\ m.state = SESSION_CLOSED => Serve(m, op, list).state = SESSION_CLOSED
           /\ list = <<>> => Serve(m, op, list).state >= SESSION_FINISHED
           /\ list # <<>> => Serve(m, op, list).state # SESSION_FINISHED
           /\ m.state # SESSION_NULL => Serve(m, op, list).state # SESSION_NULL
<1> DEFINE us   == Listed(list)
           kept == IF op = "DELETEANSWER" THEN DeleteAnswers(m, us) ELSE m
           st   == IF list = <<>>
                   THEN IF m.state < SESSION_FINISHED THEN SESSION_FINISHED ELSE m.state
                   ELSE IF m.state = SESSION_FINISHED THEN SESSION_OPEN ELSE m.state
<1>1. /\ kept \in Memory
      /\ op = "DELETEANSWER" => kept.answers = Cut(m.answers, us)
      /\ op # "DELETEANSWER" => kept.answers = m.answers
  BY DeleteAnswersType
<1>2. m.state \in SessionState
  BY DEF Memory
<1>3. /\ st \in SessionState
      /\ m.state = SESSION_CLOSED => st = SESSION_CLOSED
      /\ list = <<>> => st >= SESSION_FINISHED
      /\ list # <<>> => st # SESSION_FINISHED
      /\ m.state # SESSION_NULL => st # SESSION_NULL
  BY <1>2 DEF SessionState, SESSION_NULL, SESSION_OPEN, SESSION_FINISHED, SESSION_CLOSED
<1>4. Serve(m, op, list) = [kept EXCEPT !.next = list, !.state = st]
  BY DEF Serve
<1> HIDE DEF kept, st
<1>5. /\ Serve(m, op, list) \in Memory
      /\ Serve(m, op, list).answers = kept.answers
      /\ Serve(m, op, list).next = list
      /\ Serve(m, op, list).state = st
  BY <1>1, <1>3, <1>4 DEF Memory
<1> QED
  BY <1>1, <1>3, <1>5

(***************************************************************************)
(* Slots.                                                                  *)
(***************************************************************************)

\* No question has two slots.
UniqueSlots(answers) ==
    \A i, j \in 1..Len(answers) : answers[i].uid = answers[j].uid => i = j

\* Storing an answer gives no question a second slot: it takes over the slot of
\* its question, or appends one to a list that has none.
LEMMA StoredUnique ==
    ASSUME NEW answers \in Seq(Answer), NEW a \in Answer, UniqueSlots(answers)
    PROVE  UniqueSlots(Stored(answers, a))
<1> DEFINE n == Len(answers)
           S == Stored(answers, a)
<1>1. S \in Seq(Answer)
  BY StoredType, Zenon
<1>2. n <= Len(S) /\ Len(S) <= n + 1
  BY StoredType, Zenon
<1>3. \A i \in 1..n : S[i] = IF answers[i].uid = a.uid THEN a ELSE answers[i]
  BY StoredType, Zenon
<1>4. Len(S) = n + 1 => S[n + 1] = a /\ \A i \in 1..n : answers[i].uid # a.uid
  BY StoredType, Zenon
<1> HIDE DEF S
<1>5. Len(S) \in Nat /\ n \in Nat
  BY <1>1
<1>6. /\ Len(S) \in Nat /\ n \in Nat
      /\ n <= Len(S) /\ Len(S) <= n + 1
      /\ \A i \in 1..n : S[i] = IF answers[i].uid = a.uid THEN a ELSE answers[i]
      /\ Len(S) = n + 1 => S[n + 1] = a /\ \A i \in 1..n : answers[i].uid # a.uid
  BY <1>2, <1>3, <1>4, <1>5
<1>7. \A i \in 1..n : S[i].uid = answers[i].uid
  BY <1>6
<1> HIDE DEF n, S
<1> SUFFICES ASSUME NEW i \in 1..Len(S), NEW j \in 1..Len(S), S[i].uid = S[j].uid
             PROVE  i = j
  BY DEF UniqueSlots, S
<1>8. CASE i \in 1..n /\ j \in 1..n
  BY <1>7, <1>8 DEF UniqueSlots, n
<1>9. CASE i \notin 1..n \/ j \notin 1..n
  <2>1. Len(S) = n + 1
    BY <1>6, <1>9
  <2>2. (i \notin 1..n => i = n + 1) /\ (j \notin 1..n => j = n + 1)
    BY <1>6, <2>1
  <2> QED
    BY <1>6, <1>7, <1>9, <2>1, <2>2
<1> QED
  BY <1>8, <1>9

\* Deletion keeps slots and questions, so it gives no question a second slot.
LEMMA CutUnique ==
    ASSUME NEW answers \in Seq(Answer), NEW us, UniqueSlots(answers)
    PROVE  UniqueSlots(Cut(answers, us))
<1>1. \A j \in 1..Len(answers) : Cut(answers, us)[j].uid = answers[j].uid
  <2> SUFFICES ASSUME NEW j \in 1..Len(answers)
               PROVE  Cut(answers, us)[j].uid = answers[j].uid
    OBVIOUS
  <2>1. answers[j] \in Answer
    OBVIOUS
  <2>2. [answers[j] EXCEPT !.deleted = TRUE].uid = answers[j].uid
    BY <2>1 DEF Answer
  <2>3. Cut(answers, us)[j] = [answers[j] EXCEPT !.deleted = TRUE] \/ Cut(answers, us)[j] = answers[j]
    BY CutType
  <2> QED
    BY <2>2, <2>3
<1> QED
  BY <1>1, CutType DEF UniqueSlots

\* An answer to a question that is not answered leaves the given answers alone.
LEMMA StoredKeepsGiven ==
    ASSUME NEW answers \in Seq(Answer), NEW a \in Answer,
           \A i \in SlotsOf(answers, a.uid) : answers[i].deleted
    PROVE  \A i \in GivenSlots(answers) :
               i \in GivenSlots(Stored(answers, a)) /\ Stored(answers, a)[i] = answers[i]
<1> SUFFICES ASSUME NEW i \in GivenSlots(answers)
             PROVE  i \in GivenSlots(Stored(answers, a)) /\ Stored(answers, a)[i] = answers[i]
  OBVIOUS
<1>1. i \in 1..Len(answers) /\ ~answers[i].deleted
  BY DEF GivenSlots
<1>2. answers[i].uid # a.uid
  BY <1>1 DEF SlotsOf
<1>3. Stored(answers, a)[i] = answers[i]
  BY <1>1, <1>2, StoredType
<1>4. Len(Stored(answers, a)) \in Nat /\ Len(answers) \in Nat /\ Len(answers) <= Len(Stored(answers, a))
  BY StoredType
<1>5. i \in 1..Len(Stored(answers, a))
  BY <1>1, <1>4
<1> QED
  BY <1>1, <1>3, <1>5 DEF GivenSlots

\* What is still given after a deletion is what was given before it.
LEMMA CutGiven ==
    ASSUME NEW answers \in Seq(Answer), NEW us
    PROVE  \A j \in GivenSlots(Cut(answers, us)) :
               /\ j \in GivenSlots(answers)
               /\ Cut(answers, us)[j] = answers[j]
               /\ \A i \in GivenSlots(answers) : i <= j => answers[i].uid \notin us
<1> SUFFICES ASSUME NEW j \in GivenSlots(Cut(answers, us))
             PROVE  /\ j \in GivenSlots(answers)
                    /\ Cut(answers, us)[j] = answers[j]
                    /\ \A i \in GivenSlots(answers) : i <= j => answers[i].uid \notin us
  OBVIOUS
<1>1. j \in 1..Len(answers) /\ ~Cut(answers, us)[j].deleted
  BY CutType DEF GivenSlots
<1>2. answers[j] \in Answer
  BY <1>1
<1>3. [answers[j] EXCEPT !.deleted = TRUE].deleted
  BY <1>2 DEF Answer
<1>4. ~ \E i \in GivenSlots(answers) : i <= j /\ answers[i].uid \in us
  BY <1>1, <1>3, CutType
<1>5. Cut(answers, us)[j] = answers[j]
  BY <1>1, <1>4, CutType
<1> QED
  BY <1>1, <1>4, <1>5 DEF GivenSlots

\* Where nothing is given there is nothing to delete.
LEMMA CutNothing ==
    ASSUME NEW answers \in Seq(Answer), NEW us, GivenSlots(answers) = {}
    PROVE  Cut(answers, us) = answers
<1>1. \A j \in 1..Len(answers) : Cut(answers, us)[j] = answers[j]
  BY CutType
<1>2. Cut(answers, us) \in Seq(Answer) /\ Len(Cut(answers, us)) = Len(answers)
  BY CutType
<1> QED
  BY <1>1, <1>2

(***************************************************************************)
(* Counting the given answers.                                             *)
(***************************************************************************)

\* Storing an answer to a question that is not answered gives one more slot: the
\* one of the deleted answer, or a new one.
LEMMA StoredCount ==
    ASSUME NEW answers \in Seq(Answer), NEW a \in Answer, ~a.deleted, UniqueSlots(answers),
           \A i \in SlotsOf(answers, a.uid) : answers[i].deleted
    PROVE  Cardinality(GivenSlots(Stored(answers, a))) = Cardinality(GivenSlots(answers)) + 1
<1> DEFINE S == Stored(answers, a)
           G == GivenSlots(answers)
<1>1. IsFiniteSet(G) /\ G \subseteq 1..Len(answers) /\ Len(answers) \in Nat
  BY GivenSlotsFinite
<1>2. \E k : k \notin G /\ GivenSlots(S) = G \cup {k}
  <2>1. CASE SlotsOf(answers, a.uid) = {}
    <3> DEFINE n == Len(answers)
    <3>1. S = Append(answers, a)
      BY <2>1 DEF Stored
    <3>2. /\ Len(S) = n + 1 /\ S[n + 1] = a
          /\ \A i \in 1..n : S[i] = answers[i]
      BY <3>1
    <3>3. n + 1 \notin G
      BY <1>1
    <3> HIDE DEF S
    <3>4. GivenSlots(S) = G \cup {n + 1}
      <4>1. \A i \in 1..(n + 1) : i = n + 1 \/ i \in 1..n
        BY <1>1
      <4> QED
        BY <1>1, <3>2, <4>1 DEF GivenSlots
    <3> QED
      BY <3>3, <3>4
  <2>2. ASSUME NEW k \in SlotsOf(answers, a.uid)
        PROVE  k \notin G /\ GivenSlots(S) = G \cup {k}
    <3>1. S = [i \in 1..Len(answers) |-> IF answers[i].uid = a.uid THEN a ELSE answers[i]]
      BY <2>2 DEF Stored
    <3>2. S \in Seq(Answer)
      BY StoredType, Zenon
    <3>3. Len(S) = Len(answers)
      <4> HIDE DEF S
      <4>1. DOMAIN S = 1..Len(answers) /\ DOMAIN S = 1..Len(S) /\ Len(S) \in Nat
        BY <3>1, <3>2
      <4> QED
        BY <1>1, <4>1
    <3>4. k \in 1..Len(answers) /\ answers[k].uid = a.uid /\ answers[k].deleted
      BY <2>2 DEF SlotsOf
    <3>5. \A i \in 1..Len(answers) : answers[i].uid = a.uid => i = k
      BY <3>4 DEF UniqueSlots
    <3>6. \A i \in 1..Len(answers) : S[i] = IF i = k THEN a ELSE answers[i]
      BY <3>1, <3>4, <3>5
    <3> HIDE DEF S
    <3> QED
      BY <3>3, <3>4, <3>6 DEF GivenSlots
  <2> QED
    BY <2>1, <2>2
<1> HIDE DEF S, G
<1>3. PICK k : k \notin G /\ GivenSlots(S) = G \cup {k}
  BY <1>2
<1>4. Cardinality(GivenSlots(S)) = Cardinality(G) + 1
  BY <1>1, <1>3, FS_AddElement
<1> QED
  BY <1>4 DEF S, G

\* A deletion takes away as many given slots as it reports.
LEMMA CutCount ==
    ASSUME NEW answers \in Seq(Answer), NEW us
    PROVE  Cardinality(GivenSlots(Cut(answers, us))) =
               Cardinality(GivenSlots(answers))
                   - Cardinality(GivenSlots(answers) \ GivenSlots(Cut(answers, us)))
<1> DEFINE G == GivenSlots(answers)
           K == GivenSlots(Cut(answers, us))
<1>1. IsFiniteSet(G) /\ Cardinality(G) \in Nat
  BY GivenSlotsFinite
<1>2. G \cap K = K
  BY CutGiven
<1>3. IsFiniteSet(K) /\ Cardinality(K) \in Nat
  BY CutType, GivenSlotsFinite
<1> HIDE DEF G, K
<1>4. Cardinality(G \ K) = Cardinality(G) - Cardinality(G \cap K)
  BY <1>1, FS_Difference
<1>5. Cardinality(K) = Cardinality(G) - Cardinality(G \ K)
  <2>1. Cardinality(G \ K) = Cardinality(G) - Cardinality(K)
    BY <1>2, <1>4, Zenon
  <2> QED
    BY <1>1, <1>3, <2>1
<1> QED
  BY <1>5 DEF G, K

(***************************************************************************)
(* What deletions leave of the answers.                                    *)
(***************************************************************************)

\* b is what some deletions left of a: the slots and their questions are those of
\* a, and the answers still given are the first ones that were given.
CutFrom(a, b) ==
    /\ Len(b) = Len(a)
    /\ \A i \in 1..Len(a) : b[i].uid = a[i].uid
    /\ \A j \in GivenSlots(b) :
           /\ j \in GivenSlots(a)
           /\ b[j] = a[j]
           /\ \A i \in GivenSlots(a) : i <= j => i \in GivenSlots(b)

\* Nothing deleted is a deletion, too.
LEMMA CutFromSame == \A a : CutFrom(a, a)
BY DEF CutFrom, GivenSlots

\* Deletions add up.
LEMMA CutFromTwice ==
    ASSUME NEW a, NEW b, NEW c, CutFrom(a, b), CutFrom(b, c)
    PROVE  CutFrom(a, c)
<1>1. Len(c) = Len(a) /\ \A i \in 1..Len(a) : c[i].uid = a[i].uid
  BY DEF CutFrom
<1>2. ASSUME NEW j \in GivenSlots(c)
      PROVE  /\ j \in GivenSlots(a)
             /\ c[j] = a[j]
             /\ \A i \in GivenSlots(a) : i <= j => i \in GivenSlots(c)
  BY <1>2 DEF CutFrom
<1> QED
  BY <1>1, <1>2 DEF CutFrom

\* session_delete_answer cuts: what it leaves given comes before the first answer
\* it deletes.
LEMMA CutIsFrom ==
    ASSUME NEW answers \in Seq(Answer), NEW us
    PROVE  CutFrom(answers, Cut(answers, us))
<1> DEFINE C == Cut(answers, us)
<1>1. /\ Len(C) = Len(answers)
      /\ \A j \in 1..Len(answers) :
             C[j] = IF \E i \in GivenSlots(answers) : i <= j /\ answers[i].uid \in us
                    THEN [answers[j] EXCEPT !.deleted = TRUE]
                    ELSE answers[j]
  BY CutType
<1>2. \A j \in 1..Len(answers) : [answers[j] EXCEPT !.deleted = TRUE].uid = answers[j].uid
  <2> SUFFICES ASSUME NEW j \in 1..Len(answers)
               PROVE  [answers[j] EXCEPT !.deleted = TRUE].uid = answers[j].uid
    OBVIOUS
  <2>1. answers[j] \in Answer
    OBVIOUS
  <2> QED
    BY <2>1 DEF Answer
<1>3. \A j \in GivenSlots(C) :
          /\ j \in GivenSlots(answers) /\ C[j] = answers[j]
          /\ \A i \in GivenSlots(answers) : i <= j => answers[i].uid \notin us
  BY CutGiven
<1> HIDE DEF C
<1>4. \A i \in 1..Len(answers) : C[i].uid = answers[i].uid
  BY <1>1, <1>2
<1>5. ASSUME NEW j \in GivenSlots(C), NEW i \in GivenSlots(answers), i <= j
      PROVE  i \in GivenSlots(C)
  <2>1. i \in 1..Len(answers) /\ j \in 1..Len(answers) /\ Len(answers) \in Nat
        /\ ~answers[i].deleted
    BY <1>1, <1>5 DEF GivenSlots
  <2>2. \A h \in GivenSlots(answers) : h <= i => h <= j
    <3>1. GivenSlots(answers) \subseteq 1..Len(answers)
      BY GivenSlotsFinite
    <3> QED
      BY <1>5, <2>1, <3>1
  <2>3. C[i] = answers[i]
    BY <1>1, <1>3, <2>1, <2>2
  <2> QED
    BY <1>1, <2>1, <2>3 DEF GivenSlots
<1>6. CutFrom(answers, C)
  BY <1>1, <1>3, <1>4, <1>5 DEF CutFrom
<1> QED
  BY <1>6 DEF C

\* A deletion of a question that is answered takes at least its answer.
LEMMA CutTakes ==
    ASSUME NEW answers \in Seq(Answer), NEW u \in Given(answers)
    PROVE  GivenSlots(Cut(answers, {u})) # GivenSlots(answers)
<1>1. PICK i \in GivenSlots(answers) : answers[i].uid = u
  BY DEF Given
<1>2. i \in Nat
  BY GivenSlotsFinite
<1>3. i \notin GivenSlots(Cut(answers, {u}))
  BY <1>1, <1>2, CutGiven
<1> QED
  BY <1>3

\* The slots of what is left are those of before, so the answers that are not
\* given any more are those of the slots that are not.
LEMMA CutFromUids ==
    ASSUME NEW a \in Seq(Answer), NEW b \in Seq(Answer), CutFrom(a, b), UniqueSlots(a)
    PROVE  /\ GivenSlots(b) \subseteq GivenSlots(a)
           /\ \A i \in GivenSlots(a) : a[i].uid \in Given(b) <=> i \in GivenSlots(b)
           /\ GivenSlots(b) = GivenSlots(a) => Given(b) = Given(a)
<1>1. GivenSlots(b) \subseteq GivenSlots(a) /\ GivenSlots(a) \subseteq 1..Len(a)
  BY GivenSlotsFinite DEF CutFrom
<1>2. \A j \in GivenSlots(b) : b[j].uid = a[j].uid
  BY <1>1 DEF CutFrom
<1>3. ASSUME NEW i \in GivenSlots(a), a[i].uid \in Given(b)
      PROVE  i \in GivenSlots(b)
  <2>1. PICK j \in GivenSlots(b) : b[j].uid = a[i].uid
    BY <1>3 DEF Given
  <2>2. i = j
    BY <1>1, <1>2, <2>1 DEF UniqueSlots
  <2> QED
    BY <2>1, <2>2
<1>4. ASSUME NEW i \in GivenSlots(a), i \in GivenSlots(b)
      PROVE  a[i].uid \in Given(b)
  BY <1>2, <1>4 DEF Given
<1>5. GivenSlots(b) = GivenSlots(a) => Given(b) = Given(a)
  BY <1>2 DEF Given
<1> QED
  BY <1>1, <1>3, <1>4, <1>5

\* A deletion that takes an answer takes the last one, so that the consistency
\* hash covers another answer afterwards, or none.
LEMMA CutFromChangesLast ==
    ASSUME NEW a \in Seq(Answer), NEW b \in Seq(Answer), CutFrom(a, b), UniqueSlots(a),
           GivenSlots(b) # GivenSlots(a)
    PROVE  LastGiven(b) # LastGiven(a)
<1>1. /\ GivenSlots(b) \subseteq GivenSlots(a) /\ GivenSlots(a) \subseteq 1..Len(a)
      /\ GivenSlots(a) # {}
  BY GivenSlotsFinite, CutFromUids
<1>2. /\ LastSlot(a) \in GivenSlots(a)
      /\ \A j \in GivenSlots(a) : j <= LastSlot(a)
  BY <1>1, LastSlotIsMaximum
<1>3. LastSlot(a) \notin GivenSlots(b)
  BY <1>1, <1>2 DEF CutFrom
<1>4. LastGiven(a) = <<a[LastSlot(a)]>>
  BY <1>1 DEF LastGiven
<1>5. CASE GivenSlots(b) = {}
  BY <1>4, <1>5 DEF LastGiven
<1>6. CASE GivenSlots(b) # {}
  <2>1. LastSlot(b) \in GivenSlots(b)
    BY <1>6, LastSlotIsMaximum
  <2>2. LastGiven(b) = <<b[LastSlot(b)]>> /\ b[LastSlot(b)].uid = a[LastSlot(b)].uid
    BY <1>1, <1>6, <2>1 DEF LastGiven, CutFrom
  <2>3. a[LastSlot(b)].uid # a[LastSlot(a)].uid
    BY <1>1, <1>2, <1>3, <2>1 DEF UniqueSlots
  <2>4. b[LastSlot(b)] # a[LastSlot(a)]
    BY <2>2, <2>3
  <2> QED
    BY <1>4, <2>2, <2>4
<1> QED
  BY <1>5, <1>6

(***************************************************************************)
(* The generic controller: interviews that advance question by question.   *)
(***************************************************************************)

\* Slot i holds question i, and the given answers are the first slots.
Linear(answers) ==
    /\ \A i \in 1..Len(answers) : i <= N /\ answers[i].uid = Survey[i]
    /\ \A i \in GivenSlots(answers) : \A j \in 1..i : j \in GivenSlots(answers)

\* How far such an interview has come.
Progress(answers) == Cardinality(GivenSlots(answers))

\* The questions answered after k answers, and the ones served then.
FirstQuestions(k) == {Survey[i] : i \in 1..k}
NextAfter(k)      == IF k = N THEN <<>> ELSE <<Survey[k + 1]>>

\* The number of questions, and that every one has one place in the survey.
LEMMA SurveyFacts ==
    /\ N \in Nat /\ N >= 1
    /\ \A i \in 1..N : Survey[i] \in Question /\ IndexOf(Survey[i]) = i
    /\ Question = FirstQuestions(N)
<1>1. N \in Nat /\ N >= 1
  BY SurveyAssumption DEF N
<1>2. \A i \in 1..N : Survey[i] \in Question /\ IndexOf(Survey[i]) = i
  BY SurveyAssumption DEF Question, IndexOf
<1> QED
  BY <1>1, <1>2 DEF Question, FirstQuestions

\* The given slots of a linear interview are the first ones, as many as there are
\* given answers.
LEMMA LinearSlots ==
    ASSUME NEW answers \in Seq(Answer), Linear(answers)
    PROVE  /\ Progress(answers) \in 0..N
           /\ Progress(answers) <= Len(answers)
           /\ GivenSlots(answers) = 1..Progress(answers)
           /\ Given(answers) = FirstQuestions(Progress(answers))
<1> DEFINE G == GivenSlots(answers)
<1>1. G \subseteq 1..Len(answers) /\ Len(answers) \in Nat
  BY GivenSlotsFinite
<1>2. N \in Nat
  BY SurveyFacts
<1>3. \E k \in 0..N : k <= Len(answers) /\ G = 1..k
  <2>1. CASE G = {}
    <3>1. 0 \in 0..N /\ 0 <= Len(answers) /\ G = 1..0
      BY <1>1, <1>2, <2>1
    <3> QED
      BY <3>1
  <2>2. CASE G # {}
    <3> DEFINE k == LastSlot(answers)
    <3>1. k \in G /\ \A j \in G : j <= k
      BY <2>2, LastSlotIsMaximum
    <3> HIDE DEF k
    <3>2. k \in 0..N /\ k <= Len(answers)
      BY <1>1, <1>2, <3>1 DEF Linear
    <3>3. \A j \in 1..k : j \in G
      BY <3>1 DEF Linear
    <3>4. \A j \in G : j \in 1..k
      <4> SUFFICES ASSUME NEW j \in G PROVE j \in 1..k
        OBVIOUS
      <4>1. j \in 1..Len(answers) /\ j <= k /\ k \in Int
        BY <1>1, <1>2, <3>1, <3>2
      <4> QED
        BY <4>1
    <3>5. G = 1..k
      BY <3>3, <3>4, Zenon
    <3> QED
      BY <3>2, <3>5
  <2> QED
    BY <2>1, <2>2
<1> HIDE DEF G
<1>4. PICK k \in 0..N : k <= Len(answers) /\ G = 1..k
  BY <1>3
<1>5. Cardinality(1..k) = k
  BY <1>2, <1>4, FS_Interval
<1>6. Progress(answers) = k
  BY <1>4, <1>5 DEF Progress, G
<1>7. Given(answers) = FirstQuestions(k)
  <2>1. \A i \in 1..k : answers[i].uid = Survey[i]
    BY <1>1, <1>2, <1>4 DEF Linear
  <2> QED
    BY <1>4, <2>1 DEF Given, FirstQuestions, G
<1> QED
  BY <1>4, <1>6, <1>7 DEF G

\* The interview is complete when all questions are answered, and not before.
LEMMA FirstQuestionsGrow ==
    ASSUME NEW k \in 0..N
    PROVE  /\ FirstQuestions(k) = Question <=> k = N
           /\ \A i \in (k + 1)..N : Survey[i] \notin FirstQuestions(k)
<1>1. N \in Nat /\ Question = FirstQuestions(N)
  BY SurveyFacts
<1>2. ASSUME NEW i \in (k + 1)..N
      PROVE  Survey[i] \notin FirstQuestions(k)
  <2> SUFFICES ASSUME NEW j \in 1..k, Survey[i] = Survey[j]
               PROVE  FALSE
    BY DEF FirstQuestions
  <2>1. i \in 1..N /\ j \in 1..N /\ i # j
    BY <1>1
  <2> QED
    BY <2>1, SurveyAssumption
<1>3. ASSUME FirstQuestions(k) = Question
      PROVE  k = N
  <2> SUFFICES ASSUME k # N
               PROVE  FALSE
    OBVIOUS
  <2>1. N \in (k + 1)..N /\ N \in 1..N
    BY <1>1
  <2>2. Survey[N] \notin FirstQuestions(k) /\ Survey[N] \in Question
    BY <1>2, <2>1, SurveyFacts
  <2> QED
    BY <1>3, <2>2
<1> QED
  BY <1>1, <1>2, <1>3

\* get_next_questions_generic, which goes on after the last given answer, serves
\* the first question that is not answered.
LEMMA LinearNext ==
    ASSUME NEW m, m.answers \in Seq(Answer), Linear(m.answers)
    PROVE  GenericNext(m) = NextAfter(Progress(m.answers))
<1> DEFINE k == Progress(m.answers)
<1>1. k \in 0..N /\ GivenSlots(m.answers) = 1..k /\ k <= Len(m.answers)
  BY LinearSlots
<1>2. N \in Nat /\ N >= 1
  BY SurveyFacts
<1> HIDE DEF k
<1>3. CASE k = 0
  <2>1. GivenSlots(m.answers) = {}
    BY <1>1, <1>3
  <2> QED
    BY <1>2, <1>3, <2>1 DEF GenericNext, NextAfter, k
<1>4. CASE k # 0
  <2>1. GivenSlots(m.answers) # {}
    BY <1>1, <1>2, <1>4
  <2>2. LastSlot(m.answers) = k
    <3>1. LastSlot(m.answers) \in 1..k /\ \A j \in 1..k : j <= LastSlot(m.answers)
      BY <1>1, <2>1, LastSlotIsMaximum
    <3>2. k \in 1..k /\ k \in Nat
      BY <1>1, <1>2, <1>4
    <3> QED
      BY <3>1, <3>2
  <2>3. k \in 1..N /\ k \in 1..Len(m.answers)
    BY <1>1, <1>2, <1>4
  <2>4. m.answers[k].uid = Survey[k]
    BY <2>3 DEF Linear
  <2>5. IndexOf(Survey[k]) = k
    BY <2>3, SurveyFacts
  <2>6. GenericNext(m) = IF k >= N THEN <<>> ELSE <<Survey[k + 1]>>
    BY <2>1, <2>2, <2>4, <2>5 DEF GenericNext
  <2>7. k >= N <=> k = N
    BY <1>2, <2>3
  <2> QED
    BY <2>6, <2>7 DEF NextAfter, k
<1> QED
  BY <1>3, <1>4

\* What a deletion leaves of a linear interview is a shorter one.
LEMMA LinearCut ==
    ASSUME NEW a \in Seq(Answer), NEW b \in Seq(Answer), Linear(a), CutFrom(a, b)
    PROVE  /\ Linear(b)
           /\ Progress(b) <= Progress(a)
           /\ GivenSlots(b) # GivenSlots(a) => Progress(b) < Progress(a)
<1>1. GivenSlots(b) \subseteq GivenSlots(a) /\ Len(b) = Len(a)
  BY DEF CutFrom
<1>2. Linear(b)
  <2>1. \A i \in 1..Len(b) : i <= N /\ b[i].uid = Survey[i]
    BY <1>1 DEF Linear, CutFrom
  <2>2. ASSUME NEW i \in GivenSlots(b), NEW j \in 1..i
        PROVE  j \in GivenSlots(b)
    <3>1. j \in GivenSlots(a) /\ i \in GivenSlots(a) /\ j <= i
      BY <1>1, <2>2, GivenSlotsFinite DEF Linear
    <3> QED
      BY <2>2, <3>1 DEF CutFrom
  <2> QED
    BY <2>1, <2>2 DEF Linear
<1>3. /\ Progress(a) \in Nat /\ GivenSlots(a) = 1..Progress(a)
      /\ Progress(b) \in Nat /\ GivenSlots(b) = 1..Progress(b)
  BY <1>2, LinearSlots
<1>4. Progress(b) <= Progress(a)
  <2> SUFFICES ASSUME Progress(b) > Progress(a)
               PROVE  FALSE
    BY <1>3
  <2>1. Progress(b) \in GivenSlots(b) /\ Progress(b) \notin GivenSlots(a)
    BY <1>3
  <2> QED
    BY <1>1, <2>1
<1>5. GivenSlots(b) # GivenSlots(a) => Progress(b) # Progress(a)
  BY <1>3
<1> QED
  BY <1>2, <1>3, <1>4, <1>5

\* An answer to the next question of a linear interview makes it one longer: it
\* takes the slot of its question if there is one, and the next slot if not.
LEMMA LinearStored ==
    ASSUME NEW answers \in Seq(Answer), Linear(answers), Progress(answers) < N,
           NEW a \in Answer, ~a.deleted, a.uid = Survey[Progress(answers) + 1]
    PROVE  /\ Linear(Stored(answers, a))
           /\ Progress(Stored(answers, a)) = Progress(answers) + 1
           /\ Stored(answers, a)[Progress(answers) + 1] = a
<1> DEFINE k == Progress(answers)
           n == Len(answers)
           S == Stored(answers, a)
<1>1. k \in 0..N /\ k <= n /\ GivenSlots(answers) = 1..k
  BY LinearSlots
<1>2. N \in Nat /\ n \in Nat /\ k + 1 \in 1..N
  BY <1>1, SurveyFacts
<1>3. \A i \in 1..n : i \in 1..N /\ answers[i].uid = Survey[i]
  BY <1>2 DEF Linear
<1>4. \A i \in 1..n : answers[i].uid = a.uid <=> i = k + 1
  BY <1>2, <1>3, SurveyAssumption
<1> HIDE DEF k, n
<1>5. /\ S \in Seq(Answer)
      /\ Len(S) = IF k < n THEN n ELSE n + 1
      /\ \A i \in 1..Len(S) : S[i] = IF i = k + 1 THEN a ELSE answers[i]
  <2>1. CASE k < n
    <3>1. k + 1 \in 1..n
      BY <1>1, <1>2, <2>1
    <3>2. SlotsOf(answers, a.uid) # {}
      BY <1>4, <3>1 DEF SlotsOf, n
    <3>3. S = [i \in 1..n |-> IF answers[i].uid = a.uid THEN a ELSE answers[i]]
      BY <3>2 DEF Stored, n
    <3>4. S \in Seq(Answer)
      BY StoredType, Zenon
    <3>5. Len(S) = n
      <4> HIDE DEF S
      <4>1. DOMAIN S = 1..n
        BY <3>3, Zenon
      <4>2. DOMAIN S = 1..Len(S) /\ Len(S) \in Nat
        BY <3>4
      <4> QED
        BY <1>2, <4>1, <4>2
    <3> HIDE DEF S
    <3> QED
      BY <1>4, <2>1, <3>3, <3>4, <3>5
  <2>2. CASE ~ (k < n)
    <3>1. k = n
      BY <1>1, <1>2, <2>2
    <3>2. SlotsOf(answers, a.uid) = {}
      BY <1>2, <1>4, <3>1 DEF SlotsOf, n
    <3>3. S = Append(answers, a)
      BY <3>2 DEF Stored
    <3>4. /\ S \in Seq(Answer) /\ Len(S) = n + 1 /\ S[n + 1] = a
          /\ \A i \in 1..n : S[i] = answers[i]
      BY <3>3 DEF n
    <3> HIDE DEF S
    <3>5. \A i \in 1..(n + 1) : i = n + 1 \/ (i \in 1..n /\ i # n + 1)
      BY <1>2
    <3> QED
      BY <2>2, <3>1, <3>4, <3>5
  <2> QED
    BY <2>1, <2>2
<1> HIDE DEF S
<1>6. k + 1 \in 1..Len(S) /\ S[k + 1] = a
  BY <1>1, <1>2, <1>5
<1>7. \A i \in 1..Len(S) : i = k + 1 \/ i \in 1..n
  BY <1>1, <1>2, <1>5
<1>8. \A i \in 1..Len(S) : i <= N /\ S[i].uid = Survey[i]
  BY <1>2, <1>3, <1>5, <1>6, <1>7 DEF k
<1>9. GivenSlots(S) = 1..(k + 1)
  <2>1. \A i \in 1..Len(S) : ~S[i].deleted <=> i \in 1..(k + 1)
    <3> SUFFICES ASSUME NEW i \in 1..Len(S)
                 PROVE  ~S[i].deleted <=> i \in 1..(k + 1)
      OBVIOUS
    <3>1. CASE i = k + 1
      BY <1>1, <1>6, <3>1
    <3>2. CASE i # k + 1
      <4>1. i \in 1..n /\ S[i] = answers[i]
        BY <1>5, <1>7, <3>2
      <4>2. ~answers[i].deleted <=> i \in 1..k
        BY <1>1, <4>1 DEF GivenSlots, n
      <4>3. i \in 1..k <=> i \in 1..(k + 1)
        BY <1>1, <1>2, <3>2, <4>1
      <4> QED
        BY <4>1, <4>2, <4>3
    <3> QED
      BY <3>1, <3>2
  <2>2. 1..(k + 1) \subseteq 1..Len(S)
    BY <1>1, <1>2, <1>5
  <2> QED
    BY <2>1, <2>2 DEF GivenSlots
<1>10. Linear(S)
  <2>1. \A i \in 1..(k + 1) : \A j \in 1..i : j \in 1..(k + 1)
    BY <1>1, <1>2
  <2> QED
    BY <1>8, <1>9, <2>1 DEF Linear
<1>11. Progress(S) = k + 1
  BY <1>1, <1>2, <1>9, FS_Interval DEF Progress
<1> QED
  BY <1>6, <1>10, <1>11 DEF S, k

\* Questions that are not answered can be deleted without effect.
LEMMA CutMisses ==
    ASSUME NEW answers \in Seq(Answer), NEW us, Given(answers) \cap us = {}
    PROVE  Cut(answers, us) = answers
<1>1. \A i \in GivenSlots(answers) : answers[i].uid \notin us
  BY DEF Given
<1>2. \A j \in 1..Len(answers) : Cut(answers, us)[j] = answers[j]
  BY <1>1, CutType
<1>3. Cut(answers, us) \in Seq(Answer) /\ Len(Cut(answers, us)) = Len(answers)
  BY CutType
<1> QED
  BY <1>2, <1>3

\* How the list of next questions changes the state of a session.
ServedState(state, list) ==
    IF list = <<>>
    THEN IF state < SESSION_FINISHED THEN SESSION_FINISHED ELSE state
    ELSE IF state = SESSION_FINISHED THEN SESSION_OPEN ELSE state

\* The state get_next_questions leaves.
LEMMA ServeState ==
    ASSUME NEW m \in Memory, NEW op, NEW list \in Seq(Question)
    PROVE  Serve(m, op, list).state = ServedState(m.state, list)
<1> DEFINE us   == Listed(list)
           kept == IF op = "DELETEANSWER" THEN DeleteAnswers(m, us) ELSE m
           st   == ServedState(m.state, list)
<1>1. kept \in Memory
  BY DeleteAnswersType
<1>2. Serve(m, op, list) = [kept EXCEPT !.next = list, !.state = st]
  BY DEF Serve, ServedState
<1> HIDE DEF kept, st
<1>3. Serve(m, op, list).state = st
  BY <1>1, <1>2 DEF Memory
<1> QED
  BY <1>3 DEF st

\* What get_next_questions does to a linear interview: a DELETE takes nothing more
\* with it, since the question that is served is not answered.
LEMMA LinearServe ==
    ASSUME NEW m \in Memory, NEW op, Linear(m.answers)
    PROVE  LET f == Save(Serve(m, op, GenericNext(m)))
               k == Progress(m.answers)
           IN /\ f \in File
              /\ f.answers = m.answers
              /\ f.next = NextAfter(k)
              /\ f.state = ServedState(m.state, NextAfter(k))
<1> DEFINE k    == Progress(m.answers)
           list == GenericNext(m)
           s    == Serve(m, op, list)
<1>1. m.answers \in Seq(Answer)
  BY DEF Memory
<1>2. list = NextAfter(k) /\ list \in Seq(Question)
  BY <1>1, LinearNext, GenericNextType
<1>3. Given(m.answers) \cap Listed(list) = {}
  <2>1. k \in 0..N /\ Given(m.answers) = FirstQuestions(k) /\ N \in Nat
    BY <1>1, LinearSlots, SurveyFacts
  <2> HIDE DEF k, list
  <2>2. CASE k = N
    <3>1. Listed(list) = {}
      BY <1>2, <2>2 DEF NextAfter, Listed
    <3> QED
      BY <3>1
  <2>3. CASE k # N
    <3>1. Listed(list) = {Survey[k + 1]}
      <4>1. list = <<Survey[k + 1]>>
        BY <1>2, <2>3 DEF NextAfter
      <4>2. Len(list) = 1 /\ list[1] = Survey[k + 1]
        BY <4>1
      <4> QED
        BY <4>2 DEF Listed
    <3>2. k + 1 \in (k + 1)..N
      BY <2>1, <2>3
    <3> QED
      BY <2>1, <3>1, <3>2, FirstQuestionsGrow
  <2> QED
    BY <2>2, <2>3
<1>4. Cut(m.answers, Listed(list)) = m.answers
  BY <1>1, <1>3, CutMisses
<1> HIDE DEF list
<1>5. s \in Memory /\ s.answers = m.answers /\ s.next = list
  BY <1>2, <1>4, ServeType
<1>6. s.state = ServedState(m.state, list)
  BY <1>2, ServeState
<1> HIDE DEF s
<1>7. Save(s) \in File
  BY <1>5, LoadSaveType
<1>8. Save(s).answers = m.answers /\ Save(s).next = list /\ Save(s).state = s.state
  BY <1>5 DEF Save
<1> QED
  BY <1>2, <1>6, <1>7, <1>8 DEF s, list, k

\* A session file of an interview that advances question by question: it names the
\* first question that is not answered, and is finished exactly when all are.
LinearFile(f) ==
    /\ Linear(f.answers)
    /\ f.state # SESSION_NULL =>
           /\ f.next = NextAfter(Progress(f.answers))
           /\ f.state >= SESSION_FINISHED <=> Progress(f.answers) = N

\* The file that a request leaves, provided that only a complete session is closed.
LEMMA LinearFileServe ==
    ASSUME NEW m \in Memory, NEW op, Linear(m.answers), m.state # SESSION_NULL,
           m.state = SESSION_CLOSED => Progress(m.answers) = N
    PROVE  LinearFile(Save(Serve(m, op, GenericNext(m))))
<1> DEFINE f == Save(Serve(m, op, GenericNext(m)))
           k == Progress(m.answers)
<1>1. /\ f.answers = m.answers /\ f.next = NextAfter(k)
      /\ f.state = ServedState(m.state, NextAfter(k))
  BY LinearServe
<1>2. m.state \in SessionState
  BY DEF Memory
<1> HIDE DEF f, k
<1>3. k = N => NextAfter(k) = <<>>
  BY DEF NextAfter
<1>4. k # N => NextAfter(k) # <<>>
  BY DEF NextAfter
<1>5. f.state >= SESSION_FINISHED <=> k = N
  BY <1>1, <1>2, <1>3, <1>4
  DEF ServedState, SessionState, SESSION_NULL, SESSION_OPEN, SESSION_FINISHED, SESSION_CLOSED, k
<1>6. LinearFile(f)
  BY <1>1, <1>5 DEF LinearFile, k
<1> QED
  BY <1>6 DEF f

\* A session without answers is at the start of its interview.
LEMMA LinearEmpty == Linear(<<>>) /\ Progress(<<>>) = 0 /\ Given(<<>>) = {}
<1>1. GivenSlots(<<>>) = {}
  BY DEF GivenSlots
<1> QED
  BY <1>1, FS_EmptySet DEF Linear, Progress, Given

\* The last given answer of an interview tells which questions are answered.
Shows(last, given) ==
    \/ last = <<>> /\ given = {}
    \/ \E k \in 1..N : /\ Len(last) = 1
                       /\ last[1].uid = Survey[k]
                       /\ given = FirstQuestions(k)

\* It does so in every linear interview,
LEMMA LinearShows ==
    ASSUME NEW answers \in Seq(Answer), Linear(answers)
    PROVE  Shows(LastGiven(answers), Given(answers))
<1> DEFINE k == Progress(answers)
<1>1. k \in 0..N /\ k <= Len(answers) /\ GivenSlots(answers) = 1..k
      /\ Given(answers) = FirstQuestions(k) /\ N \in Nat
  BY LinearSlots, SurveyFacts
<1> HIDE DEF k
<1>2. CASE k = 0
  <2>1. GivenSlots(answers) = {} /\ Given(answers) = {}
    BY <1>1, <1>2 DEF FirstQuestions
  <2> QED
    BY <2>1 DEF LastGiven, Shows
<1>3. CASE k # 0
  <2>1. k \in 1..N /\ k \in 1..Len(answers) /\ k \in 1..k
    BY <1>1, <1>3
  <2>2. GivenSlots(answers) # {}
    BY <1>1, <2>1
  <2>3. LastSlot(answers) = k
    <3>1. LastSlot(answers) \in 1..k /\ k <= LastSlot(answers)
      BY <1>1, <2>1, <2>2, LastSlotIsMaximum
    <3> QED
      BY <2>1, <3>1
  <2>4. LastGiven(answers) = <<answers[k]>> /\ answers[k].uid = Survey[k]
    BY <2>1, <2>2, <2>3 DEF LastGiven, Linear
  <2>5. Len(LastGiven(answers)) = 1 /\ LastGiven(answers)[1] = answers[k]
    BY <2>4
  <2> QED
    BY <1>1, <2>1, <2>4, <2>5 DEF Shows
<1> QED
  BY <1>2, <1>3

\* and no two interviews with the same last answer differ in the questions.
LEMMA ShowsOne ==
    ASSUME NEW last, NEW g, NEW h, Shows(last, g), Shows(last, h)
    PROVE  g = h
<1>1. CASE last = <<>>
  <2>1. Len(last) = 0
    BY <1>1
  <2> QED
    BY <2>1 DEF Shows
<1>2. CASE last # <<>>
  <2>1. PICK k \in 1..N : last[1].uid = Survey[k] /\ g = FirstQuestions(k)
    BY <1>2 DEF Shows
  <2>2. PICK l \in 1..N : last[1].uid = Survey[l] /\ h = FirstQuestions(l)
    BY <1>2 DEF Shows
  <2>3. k = l
    BY <2>1, <2>2, SurveyAssumption
  <2> QED
    BY <2>1, <2>2, <2>3
<1> QED
  BY <1>1, <1>2
=============================================================================
