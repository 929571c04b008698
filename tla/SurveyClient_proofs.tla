-------------------------- MODULE SurveyClient_proofs --------------------------
(***************************************************************************)
(* Theorems about SurveyClient, for every survey, set of values and limit  *)
(* of answers, and for any number of disturbances and presses of "Previous *)
(* Question".                                                              *)
(***************************************************************************)
EXTENDS SurveyClient, Session_proofs

(***************************************************************************)
(* The backend: what one request does to one session file.                 *)
(***************************************************************************)

\* A session file as the generic controller leaves it.
GoodFile(f) == /\ f \in File
               /\ LinearFile(f)
               /\ f.state = SESSION_NULL => f = NoFile

\* The steps a file may take: the life cycle, or nothing that it tells apart.
FileStep(f, g) ==
    LET k == Progress(f.answers)
        l == Progress(g.answers)
    IN \/ g.state = f.state /\ l = k
       \/ f.state = SESSION_NULL /\ g.state = SESSION_NEW /\ l = 0
       \/ /\ f.state \in {SESSION_NEW, SESSION_OPEN} /\ l = k + 1
          /\ g.state = IF l = N THEN SESSION_FINISHED ELSE SESSION_OPEN
       \/ /\ f.state \in {SESSION_OPEN, SESSION_FINISHED} /\ l \in 0..(k - 1)
          /\ g.state = SESSION_OPEN
       \/ f.state = SESSION_FINISHED /\ g.state = SESSION_CLOSED /\ l = k

\* What is deleted by a step is at most the last given answer.
DeletesLast(f, g) ==
    LET gone == Given(f.answers) \ Given(g.answers)
    IN gone # {} => gone = {LastGiven(f.answers)[1].uid}

\* The facts about a good file that the handlers rely on.
LEMMA GoodFileFacts ==
    ASSUME NEW f, GoodFile(f)
    PROVE  /\ f \in File /\ f.state \in SessionState /\ f.answers \in Seq(Answer)
           /\ f.next \in Seq(Question) /\ Linear(f.answers)
           /\ Load(f) \in Memory /\ Load(f).state = f.state /\ Load(f).answers = f.answers
           /\ Progress(f.answers) \in 0..N /\ N \in Nat /\ N >= 1
           /\ Given(f.answers) = FirstQuestions(Progress(f.answers))
           /\ f.state # SESSION_NULL =>
                  f.state >= SESSION_FINISHED <=> Progress(f.answers) = N
<1>1. f \in File /\ f.state \in SessionState /\ f.answers \in Seq(Answer)
      /\ f.next \in Seq(Question) /\ Linear(f.answers)
  BY DEF GoodFile, File, LinearFile
<1>2. Load(f) \in Memory /\ Load(f).state = f.state /\ Load(f).answers = f.answers
  BY <1>1, LoadSaveType
<1>3. /\ Progress(f.answers) \in 0..N /\ N \in Nat /\ N >= 1
      /\ Given(f.answers) = FirstQuestions(Progress(f.answers))
  BY <1>1, LinearSlots, SurveyFacts
<1>4. f.state # SESSION_NULL => (f.state >= SESSION_FINISHED <=> Progress(f.answers) = N)
  BY DEF GoodFile, LinearFile
<1> QED
  BY <1>1, <1>2, <1>3, <1>4

\* Serving the next questions to a session in memory.
LEMMA ServedFile ==
    ASSUME NEW m \in Memory, NEW op, Linear(m.answers), m.state # SESSION_NULL,
           m.state = SESSION_CLOSED => Progress(m.answers) = N
    PROVE  /\ GoodFile(Served(m, op))
           /\ Served(m, op).answers = m.answers
           /\ Progress(m.answers) = N =>
                  Served(m, op).state = IF m.state = SESSION_CLOSED THEN SESSION_CLOSED
                                        ELSE SESSION_FINISHED
           /\ Progress(m.answers) # N =>
                  Served(m, op).state = IF m.state = SESSION_NEW THEN SESSION_NEW
                                        ELSE SESSION_OPEN
<1> DEFINE g == Served(m, op)
           k == Progress(m.answers)
<1>1. /\ g \in File /\ g.answers = m.answers
      /\ g.state = ServedState(m.state, NextAfter(k))
  BY LinearServe DEF Served
<1>2. LinearFile(g)
  BY LinearFileServe DEF Served
<1>3. m.state \in SessionState /\ (m.state = SESSION_CLOSED => k = N)
  BY DEF Memory
<1> HIDE DEF g, k
<1>4. (k = N => NextAfter(k) = <<>>) /\ (k # N => NextAfter(k) # <<>>)
  BY DEF NextAfter
<1>5. /\ k = N => g.state = IF m.state = SESSION_CLOSED THEN SESSION_CLOSED ELSE SESSION_FINISHED
      /\ k # N => g.state = IF m.state = SESSION_NEW THEN SESSION_NEW ELSE SESSION_OPEN
      /\ g.state # SESSION_NULL
  BY <1>1, <1>3, <1>4
  DEF ServedState, SessionState, SESSION_NULL, SESSION_NEW, SESSION_OPEN, SESSION_FINISHED,
      SESSION_CLOSED
<1>6. GoodFile(g)
  BY <1>1, <1>2, <1>5 DEF GoodFile
<1> QED
  BY <1>1, <1>5, <1>6 DEF g, k

\* GET /session: an empty session that serves the first question.
LEMMA NewFile ==
    ASSUME NEW mem, mem = [Load(NoFile) EXCEPT !.state = SESSION_NEW], NEW op
    PROVE  /\ GoodFile(Served(mem, op))
           /\ Served(mem, op).state = SESSION_NEW
           /\ Served(mem, op).answers = <<>>
           /\ FileStep(NoFile, Served(mem, op))
<1>1. Load(NoFile) \in Memory /\ Load(NoFile).answers = <<>>
  BY LoadSaveType DEF NoFile
<1>2. SESSION_NEW \in SessionState
  BY DEF SESSION_NEW, SessionState, SESSION_NULL, SESSION_CLOSED
<1>3. mem \in Memory /\ mem.answers = <<>> /\ mem.state = SESSION_NEW
  <2> HIDE DEF SESSION_NEW
  <2> QED
    BY <1>1, <1>2 DEF Memory
<1>4. /\ Linear(mem.answers) /\ Progress(mem.answers) = 0 /\ 0 # N
  BY <1>3, LinearEmpty, SurveyFacts
<1>5. /\ mem.state # SESSION_NULL /\ mem.state # SESSION_CLOSED
  BY <1>3 DEF SESSION_NEW, SESSION_NULL, SESSION_CLOSED
<1>6. /\ GoodFile(Served(mem, op))
      /\ Served(mem, op).answers = mem.answers
      /\ Served(mem, op).state = SESSION_NEW
  BY <1>3, <1>4, <1>5, ServedFile
<1> QED
  BY <1>3, <1>4, <1>6 DEF FileStep, NoFile

\* A linear interview without its last answer.
LEMMA LinearCutLast ==
    ASSUME NEW answers \in Seq(Answer), Linear(answers), GivenSlots(answers) # {}
    PROVE  LET k == Progress(answers)
               u == LastGiven(answers)[1].uid
               c == Cut(answers, {u})
           IN /\ k \in 1..N /\ u = Survey[k]
              /\ c \in Seq(Answer) /\ Linear(c)
              /\ Progress(c) = k - 1
              /\ Given(answers) \ Given(c) = {u}
<1> DEFINE k == Progress(answers)
           u == LastGiven(answers)[1].uid
           c == Cut(answers, {u})
           l == Progress(c)
<1>1. /\ k \in 0..N /\ k <= Len(answers) /\ GivenSlots(answers) = 1..k
      /\ Given(answers) = FirstQuestions(k) /\ N \in Nat /\ Len(answers) \in Nat
  BY LinearSlots, SurveyFacts
<1>2. LastGiven(answers) = <<answers[LastSlot(answers)]>>
  BY DEF LastGiven
<1>3. /\ LastSlot(answers) \in GivenSlots(answers)
      /\ \A j \in GivenSlots(answers) : j <= LastSlot(answers)
  BY LastSlotIsMaximum
<1> HIDE DEF k, l, c
<1>4. k \in 1..N /\ k \in 1..Len(answers) /\ LastSlot(answers) = k
  <2>1. k # 0
    BY <1>1
  <2>2. LastSlot(answers) \in 1..k /\ k <= LastSlot(answers)
    BY <1>1, <1>3, <2>1
  <2> QED
    BY <1>1, <2>1, <2>2
<1>5. u = Survey[k] /\ u = answers[k].uid
  <2>1. u = answers[k].uid
    BY <1>2, <1>4
  <2> QED
    BY <1>4, <2>1 DEF Linear
<1> HIDE DEF u
<1>6. u \in Given(answers)
  BY <1>3, <1>4, <1>5 DEF Given
<1>7. /\ c \in Seq(Answer) /\ CutFrom(answers, c) /\ GivenSlots(c) # GivenSlots(answers)
  BY <1>6, CutType, CutIsFrom, CutTakes DEF c
<1>8. Linear(c) /\ l < k
  BY <1>7, LinearCut DEF l, k
<1>9. /\ l \in 0..N /\ GivenSlots(c) = 1..l /\ Given(c) = FirstQuestions(l)
  BY <1>7, <1>8, LinearSlots DEF l
<1>10. l >= k - 1
  <2> SUFFICES ASSUME k - 1 \notin 1..l, k # 1
               PROVE  FALSE
    BY <1>1, <1>4, <1>9
  <2>1. k - 1 \in 1..Len(answers) /\ k - 1 \in GivenSlots(answers) /\ k - 1 \in 1..N
    BY <1>1, <1>4
  <2>2. \A i \in GivenSlots(answers) : i <= k - 1 => answers[i].uid \notin {u}
    <3> SUFFICES ASSUME NEW i \in 1..k, i <= k - 1
                 PROVE  answers[i].uid # u
      BY <1>1
    <3>1. i \in 1..N /\ i \in 1..Len(answers) /\ i # k
      BY <1>1, <1>4
    <3>2. answers[i].uid = Survey[i]
      BY <3>1 DEF Linear
    <3> QED
      BY <1>4, <1>5, <3>1, <3>2, SurveyAssumption
  <2>3. c[k - 1] = answers[k - 1] /\ Len(c) = Len(answers)
    <3>1. ~ \E i \in GivenSlots(answers) : i <= k - 1 /\ answers[i].uid \in {u}
      BY <2>2
    <3>2. /\ Len(c) = Len(answers)
          /\ \A j \in 1..Len(answers) :
                 c[j] = IF \E i \in GivenSlots(answers) : i <= j /\ answers[i].uid \in {u}
                        THEN [answers[j] EXCEPT !.deleted = TRUE]
                        ELSE answers[j]
      BY CutType DEF c
    <3> QED
      BY <2>1, <3>1, <3>2
  <2>4. k - 1 \in GivenSlots(c)
    BY <2>1, <2>3 DEF GivenSlots
  <2> QED
    BY <1>9, <2>4
<1>11. l = k - 1
  BY <1>1, <1>4, <1>8, <1>9, <1>10
<1>12. Given(answers) \ Given(c) = {u}
  <2>1. FirstQuestions(k) = FirstQuestions(k - 1) \cup {Survey[k]}
    <3>1. 1..k = 1..(k - 1) \cup {k}
      BY <1>1, <1>4
    <3> QED
      BY <3>1 DEF FirstQuestions
  <2>2. Survey[k] \notin FirstQuestions(k - 1)
    <3>1. k - 1 \in 0..N /\ k \in ((k - 1) + 1)..N
      BY <1>1, <1>4
    <3> QED
      BY <3>1, FirstQuestionsGrow
  <2> QED
    BY <1>1, <1>5, <1>9, <1>11, <2>1, <2>2
<1> QED
  BY <1>4, <1>5, <1>7, <1>8, <1>11, <1>12 DEF k, l, c, u

\* POST /answers: the interview goes one question further.
LEMMA AddingFile ==
    ASSUME NEW m, NEW f, GoodFile(f), m.op = "ADDANSWER", Accepted(m, f),
           m.answer \in Question \X Value, NEW g \in Handled(m, f)
    PROVE  GoodFile(g) /\ FileStep(f, g) /\ Given(f.answers) \subseteq Given(g.answers)
<1> DEFINE k == Progress(f.answers)
           u == m.answer[1]
           v == m.answer[2]
           a == [uid |-> u, val |-> v, deleted |-> FALSE]
           mem == AddAnswer(Load(f), u, v)
<1>1. /\ f.state \in SessionState /\ f.answers \in Seq(Answer) /\ Linear(f.answers)
      /\ Load(f) \in Memory /\ Load(f).answers = f.answers
      /\ k \in 0..N /\ N \in Nat /\ N >= 1
      /\ f.state # SESSION_NULL => (f.state >= SESSION_FINISHED <=> k = N)
  BY GoodFileFacts
<1>2. u \in Question /\ v \in Value
  OBVIOUS
<1>3. f.state \in {SESSION_NEW, SESSION_OPEN} /\ f.next = <<u>>
  <2>1. f # NoFile /\ f.state # SESSION_FINISHED /\ f.state < SESSION_CLOSED /\ f.next = <<u>>
    BY DEF Accepted, ActionAllowed
  <2>2. f.state # SESSION_NULL
    BY <2>1 DEF GoodFile
  <2> QED
    BY <1>1, <2>1, <2>2
    DEF SessionState, SESSION_NULL, SESSION_NEW, SESSION_OPEN, SESSION_FINISHED, SESSION_CLOSED
<1>4. k < N /\ u = Survey[k + 1]
  <2>1. k # N /\ f.next = NextAfter(k)
    BY <1>1, <1>3
    DEF GoodFile, LinearFile, SESSION_NULL, SESSION_NEW, SESSION_OPEN, SESSION_FINISHED
  <2>2. <<Survey[k + 1]>> = <<u>>
    BY <1>3, <2>1 DEF NextAfter
  <2>3. Survey[k + 1] = <<Survey[k + 1]>>[1] /\ <<u>>[1] = u
    OBVIOUS
  <2> QED
    BY <1>1, <2>1, <2>2, <2>3
<1>5. /\ a \in Answer /\ mem \in Memory
      /\ mem.answers = Stored(f.answers, a) /\ mem.state = SESSION_OPEN
  BY <1>1, <1>2, AddAnswerType
<1>6. g = Served(mem, "ADDANSWER")
  BY DEF Handled, Changed
<1> HIDE DEF mem, u, v
<1>7. ~a.deleted /\ a.uid = u
  OBVIOUS
<1> HIDE DEF a, k
<1>8. Linear(mem.answers) /\ Progress(mem.answers) = k + 1
  BY <1>1, <1>4, <1>5, <1>7, LinearStored DEF k
<1>9. /\ GoodFile(g) /\ g.answers = mem.answers
      /\ g.state = IF k + 1 = N THEN SESSION_FINISHED ELSE SESSION_OPEN
  <2>1. mem.state # SESSION_NULL /\ mem.state # SESSION_CLOSED /\ mem.state # SESSION_NEW
    BY <1>5 DEF SESSION_OPEN, SESSION_NULL, SESSION_CLOSED, SESSION_NEW
  <2> QED
    BY <1>5, <1>6, <1>8, <2>1, ServedFile
<1>10. FileStep(f, g)
  BY <1>3, <1>8, <1>9 DEF FileStep, k
<1>11. Given(f.answers) \subseteq Given(g.answers)
  <2>1. Given(f.answers) = FirstQuestions(k) /\ Given(g.answers) = FirstQuestions(k + 1)
    BY <1>1, <1>5, <1>8, <1>9, LinearSlots, GoodFileFacts DEF k
  <2>2. 1..k \subseteq 1..(k + 1)
    BY <1>1
  <2> QED
    BY <2>1, <2>2 DEF FirstQuestions
<1> QED
  BY <1>9, <1>10, <1>11

\* DELETE /answers: the last given answer goes, and no other one.
LEMMA DeletingFile ==
    ASSUME NEW m, NEW f, GoodFile(f), m.op = "DELETEANSWER", Accepted(m, f),
           GivenSlots(f.answers) # {}, NEW g \in Handled(m, f)
    PROVE  GoodFile(g) /\ FileStep(f, g) /\ DeletesLast(f, g)
<1> DEFINE k == Progress(f.answers)
           u == LastGiven(f.answers)[1].uid
           mem == DeleteAnswers(Load(f), {u})
<1>1. /\ f.state \in SessionState /\ f.answers \in Seq(Answer) /\ Linear(f.answers)
      /\ Load(f) \in Memory /\ Load(f).answers = f.answers /\ Load(f).state = f.state
      /\ k \in 0..N /\ N \in Nat
  BY GoodFileFacts
<1>2. f.state \in {SESSION_OPEN, SESSION_FINISHED}
  <2>1. f.state > SESSION_NEW /\ f.state < SESSION_CLOSED
    BY DEF Accepted, ActionAllowed
  <2> QED
    BY <1>1, <2>1
    DEF SessionState, SESSION_NULL, SESSION_NEW, SESSION_OPEN, SESSION_FINISHED, SESSION_CLOSED
<1>3. mem \in Memory /\ mem.answers = Cut(f.answers, {u}) /\ mem.state = f.state
  BY <1>1, DeleteAnswersType
<1>4. g = Served(mem, "DELETEANSWER")
  BY DEF Handled, Changed
<1>5. /\ k \in 1..N /\ Linear(Cut(f.answers, {u}))
      /\ Progress(Cut(f.answers, {u})) = k - 1
      /\ Given(f.answers) \ Given(Cut(f.answers, {u})) = {u}
  BY <1>1, LinearCutLast
<1> HIDE DEF k, u, mem
<1>6. /\ Linear(mem.answers) /\ Progress(mem.answers) = k - 1 /\ k - 1 # N
      /\ k - 1 \in 0..(k - 1)
  BY <1>1, <1>3, <1>5
<1>7. GoodFile(g) /\ g.answers = mem.answers /\ g.state = SESSION_OPEN
  <2>1. mem.state # SESSION_NULL /\ mem.state # SESSION_CLOSED /\ mem.state # SESSION_NEW
    BY <1>2, <1>3
    DEF SESSION_NULL, SESSION_NEW, SESSION_OPEN, SESSION_FINISHED, SESSION_CLOSED
  <2> QED
    BY <1>3, <1>4, <1>6, <2>1, ServedFile
<1>8. FileStep(f, g)
  BY <1>2, <1>6, <1>7 DEF FileStep, k
<1>9. DeletesLast(f, g)
  BY <1>3, <1>5, <1>7 DEF DeletesLast, u
<1> QED
  BY <1>7, <1>8, <1>9

\* A request that only asks for the next questions leaves the file as it is.
LEMMA AskingFile ==
    ASSUME NEW m, NEW f, GoodFile(f), f # NoFile, NEW g \in Handled(m, f),
           m.op # "ANALYSIS", m.op # "ADDANSWER",
           m.op = "DELETEANSWER" => GivenSlots(f.answers) = {}
    PROVE  GoodFile(g) /\ g.state = f.state /\ g.answers = f.answers
<1> DEFINE k == Progress(f.answers)
<1>1. /\ f.state \in SessionState /\ Linear(f.answers) /\ f.state # SESSION_NULL
      /\ Load(f) \in Memory /\ Load(f).answers = f.answers /\ Load(f).state = f.state
      /\ f.state >= SESSION_FINISHED <=> k = N
  BY GoodFileFacts DEF GoodFile
<1>2. g = Served(Load(f), m.op)
  BY DEF Handled, Changed
<1> HIDE DEF k
<1>3. f.state = SESSION_CLOSED => k = N
  BY <1>1 DEF SESSION_FINISHED, SESSION_CLOSED
<1>4. /\ GoodFile(g) /\ g.answers = f.answers
      /\ k = N => g.state = IF f.state = SESSION_CLOSED THEN SESSION_CLOSED ELSE SESSION_FINISHED
      /\ k # N => g.state = IF f.state = SESSION_NEW THEN SESSION_NEW ELSE SESSION_OPEN
  BY <1>1, <1>2, <1>3, ServedFile DEF k
<1>5. g.state = f.state
  BY <1>1, <1>4
  DEF SessionState, SESSION_NULL, SESSION_NEW, SESSION_OPEN, SESSION_FINISHED, SESSION_CLOSED
<1> QED
  BY <1>4, <1>5

\* GET /analysis: a complete session is closed, and stays closed.
LEMMA AnalysedFile ==
    ASSUME NEW m, NEW f, GoodFile(f), m.op = "ANALYSIS", Accepted(m, f), NEW g \in Handled(m, f)
    PROVE  GoodFile(g) /\ FileStep(f, g) /\ g.state = SESSION_CLOSED /\ g.answers = f.answers
<1>1. /\ f \in File /\ f.state \in SessionState
      /\ f.state # SESSION_NULL => (f.state >= SESSION_FINISHED <=> Progress(f.answers) = N)
  BY GoodFileFacts
<1>2. f.state >= SESSION_FINISHED
  BY DEF Accepted, ActionAllowed
<1>3. f.state \in {SESSION_FINISHED, SESSION_CLOSED}
  BY <1>1, <1>2 DEF SessionState, SESSION_NULL, SESSION_FINISHED, SESSION_CLOSED
<1>4. SESSION_CLOSED \in SessionState /\ SESSION_CLOSED # SESSION_NULL
  BY DEF SessionState, SESSION_NULL, SESSION_CLOSED
<1>5. g = [f EXCEPT !.state = SESSION_CLOSED]
  BY DEF Handled
<1>6. g \in File /\ g.state = SESSION_CLOSED /\ g.answers = f.answers /\ g.next = f.next
  <2> HIDE DEF SESSION_CLOSED
  <2> QED
    BY <1>1, <1>4, <1>5 DEF File
<1>7. LinearFile(g)
  BY <1>1, <1>3, <1>6
  DEF GoodFile, LinearFile, SESSION_NULL, SESSION_FINISHED, SESSION_CLOSED
<1>8. FileStep(f, g)
  BY <1>3, <1>6 DEF FileStep
<1> QED
  BY <1>4, <1>6, <1>7, <1>8 DEF GoodFile

\* Every accepted request: the file stays good, moves one step, loses at most its
\* last answer, and that only by a DELETE; a closed session stays closed.
LEMMA HandledFile ==
    ASSUME NEW m, NEW f, GoodFile(f), m.op \in Op, m.op # "NEWSESSION", Accepted(m, f),
           m.op = "ADDANSWER" => m.answer \in Question \X Value, NEW g \in Handled(m, f)
    PROVE  /\ GoodFile(g) /\ FileStep(f, g) /\ DeletesLast(f, g)
           /\ f.state = SESSION_CLOSED => g.state = SESSION_CLOSED
           /\ m.op = "ANALYSIS" => g.state = SESSION_CLOSED
           /\ m.op # "DELETEANSWER" => Given(f.answers) \subseteq Given(g.answers)
<1>1. f # NoFile /\ ActionAllowed(m.op, f.state)
  BY DEF Accepted
<1>2. ASSUME g.state = f.state, g.answers = f.answers
      PROVE  FileStep(f, g) /\ DeletesLast(f, g)
  BY <1>2 DEF FileStep, DeletesLast
<1>3. CASE m.op = "ADDANSWER"
  <2>1. f.state # SESSION_CLOSED
    BY <1>1, <1>3 DEF ActionAllowed, SESSION_CLOSED
  <2> QED
    BY <1>3, <2>1, AddingFile DEF DeletesLast
<1>4. CASE m.op = "DELETEANSWER" /\ GivenSlots(f.answers) # {}
  <2>1. f.state # SESSION_CLOSED
    BY <1>1, <1>4 DEF ActionAllowed, SESSION_CLOSED
  <2> QED
    BY <1>4, <2>1, DeletingFile
<1>5. CASE m.op = "ANALYSIS"
  BY <1>5, AnalysedFile DEF DeletesLast
<1>6. CASE m.op \notin {"ADDANSWER", "ANALYSIS"} /\ ~(m.op = "DELETEANSWER" /\ GivenSlots(f.answers) # {})
  BY <1>1, <1>2, <1>6, AskingFile
<1> QED
  BY <1>3, <1>4, <1>5, <1>6

(***************************************************************************)
(* The inductive invariant.  What a message, a tab or a cache says of a    *)
(* session that is closed is said of the set C of the closed sessions, so  *)
(* that it stays true when the set grows.                                  *)
(***************************************************************************)

ClosedSids == {s \in Sid : files[s].state = SESSION_CLOSED}

ETag  == [sid : Sid, tag : [state : SessionState, last : Seq(Answer)]]
Known == [sid : {0} \cup Sid, given : SUBSET Question]

\* An ETag and what the browser knew with it: the same session, and the questions
\* that were answered in it.
Shown(etags, k) ==
    etags = {} \/ \E e \in ETag : /\ etags = {e}
                                  /\ e.sid = k.sid
                                  /\ Shows(e.tag.last, k.given)

\* The two kinds of messages, numbered n.
RequestRecord(n) ==
    [step : {"request"}, reader : {"mounted", "left", "gone"}, op : Op, sid : {0} \cup Sid,
     state : SessionState, answer : {<<>>} \cup (Question \X Value), match : SUBSET ETag,
     known : Known, nr : {n}]

ResponseRecord(n) ==
    [step : {"response", "body"}, reader : {"mounted", "left"}, op : Op, sid : Sid,
     state : SessionState, ok : BOOLEAN, tag : ETag, given : SUBSET Question,
     next : Seq(Question), count : 0..N, nr : {n}]

\* A new session has no state yet, and a view is closed only when its session is.
StateOK(C, m) == /\ m.op = "NEWSESSION" => m.state = SESSION_NULL
                 /\ m.state = SESSION_CLOSED => m.sid \in C

RequestOK(C, m) ==
    /\ m \in RequestRecord(m.nr)
    /\ StateOK(C, m)
    /\ m.op # "NEWSESSION" => m.sid \in Sid
    /\ m.op = "ADDANSWER" => m.answer \in Question \X Value
    /\ Shown(m.match, m.known)

ResponseOK(C, m) ==
    /\ m \in ResponseRecord(m.nr)
    /\ StateOK(C, m)
    /\ m.op = "ANALYSIS" /\ m.ok => m.sid \in C
    /\ m.step = "body" => m.ok
    /\ m.tag.sid = m.sid
    /\ Shows(m.tag.tag.last, m.given)

MessageOK(C, m) == RequestOK(C, m) \/ ResponseOK(C, m)

\* What the tab shows, and what the cache holds.
TabOK(C, v) ==
    /\ v \in View
    /\ v.state = SESSION_CLOSED => v.sid \in C
    /\ v.done => v.sid \in C
    /\ v.next # <<>> => v.sid \in Sid

CacheOK(C, cs) ==
    cs = {} \/ \E c \in [sid : Sid, state : SessionState] :
                   cs = {c} /\ (c.state = SESSION_CLOSED => c.sid \in C)

FileInv  == files \in [Sid -> File] /\ \A s \in Sid : GoodFile(files[s])
KnownInv == known \in Known /\ Shown(etag, known)
TabInv   == TabOK(ClosedSids, tab) /\ (tab.page = "none" => net = {})
CacheInv == CacheOK(ClosedSids, cache)
NetInv   == \A m \in net : MessageOK(ClosedSids, m)

\* While a mounted component waits for its new session it shows nothing and waits
\* for nothing else: nothing of an older session can be taken for the new one's.
NewInv ==
    \A m \in net : m.op = "NEWSESSION" /\ m.reader = "mounted" =>
        /\ tab = Mounted("survey")
        /\ \A n \in net : n.reader = "mounted" => n = m

ClientInv == FileInv /\ KnownInv /\ TabInv /\ CacheInv /\ NetInv /\ NewInv

(***************************************************************************)
(* Messages.                                                               *)
(***************************************************************************)

\* What holds of a message goes on to hold when more sessions are closed.
LEMMA ClosedGrows ==
    ASSUME NEW C, NEW D, C \subseteq D
    PROVE  /\ \A m : MessageOK(C, m) => MessageOK(D, m)
           /\ \A v : TabOK(C, v) => TabOK(D, v)
           /\ \A cs : CacheOK(C, cs) => CacheOK(D, cs)
<1>1. \A m : StateOK(C, m) => StateOK(D, m)
  BY DEF StateOK
<1>2. \A m : RequestOK(C, m) => RequestOK(D, m)
  BY <1>1 DEF RequestOK
<1>3. \A m : ResponseOK(C, m) => ResponseOK(D, m)
  BY <1>1 DEF ResponseOK
<1> QED
  BY <1>2, <1>3 DEF MessageOK, TabOK, CacheOK

\* The number that tells equal messages apart changes nothing else of a request,
LEMMA NumberedRequest ==
    ASSUME NEW C, NEW ms, NEW m, RequestOK(C, m)
    PROVE  /\ RequestOK(C, Numbered(ms, m))
           /\ Numbered(ms, m).op = m.op /\ Numbered(ms, m).reader = m.reader
           /\ Numbered(ms, m).step = "request"
<1>1. PICK x : Numbered(ms, m) = [m EXCEPT !.nr = x]
  BY DEF Numbered
<1>2. m \in RequestRecord(m.nr)
  BY DEF RequestOK
<1>3. LET q == [m EXCEPT !.nr = x]
      IN /\ q \in RequestRecord(q.nr)
         /\ q.op = m.op /\ q.reader = m.reader /\ q.step = "request" /\ q.sid = m.sid
         /\ q.state = m.state /\ q.answer = m.answer /\ q.match = m.match /\ q.known = m.known
  BY <1>2 DEF RequestRecord
<1> QED
  BY <1>1, <1>3 DEF RequestOK, StateOK

\* nor of a response.
LEMMA NumberedResponse ==
    ASSUME NEW C, NEW ms, NEW m, ResponseOK(C, m)
    PROVE  /\ ResponseOK(C, Numbered(ms, m))
           /\ Numbered(ms, m).op = m.op /\ Numbered(ms, m).reader = m.reader
           /\ Numbered(ms, m).step = m.step
<1>1. PICK x : Numbered(ms, m) = [m EXCEPT !.nr = x]
  BY DEF Numbered
<1>2. m \in ResponseRecord(m.nr)
  BY DEF ResponseOK
<1>3. LET q == [m EXCEPT !.nr = x]
      IN /\ q \in ResponseRecord(q.nr)
         /\ q.op = m.op /\ q.reader = m.reader /\ q.step = m.step /\ q.sid = m.sid
         /\ q.state = m.state /\ q.ok = m.ok /\ q.tag = m.tag /\ q.given = m.given
  BY <1>2 DEF ResponseRecord
<1> QED
  BY <1>1, <1>3 DEF ResponseOK, StateOK

\* Another reader of a request, or another one of a response.
LEMMA ReaderChanged ==
    ASSUME NEW C, NEW m, MessageOK(C, m)
    PROVE  /\ m.step = "request" <=> RequestOK(C, m)
           /\ RequestOK(C, m) =>
                  \A r \in {"mounted", "left", "gone"} :
                      /\ RequestOK(C, [m EXCEPT !.reader = r])
                      /\ [m EXCEPT !.reader = r].reader = r
                      /\ [m EXCEPT !.reader = r].op = m.op
           /\ ResponseOK(C, m) =>
                  /\ ResponseOK(C, [m EXCEPT !.reader = "left"])
                  /\ [m EXCEPT !.reader = "left"].reader = "left"
<1>1. ASSUME RequestOK(C, m), NEW r \in {"mounted", "left", "gone"}
      PROVE  /\ m.step = "request"
             /\ RequestOK(C, [m EXCEPT !.reader = r])
             /\ [m EXCEPT !.reader = r].reader = r
             /\ [m EXCEPT !.reader = r].op = m.op
  <2>1. m \in RequestRecord(m.nr)
    BY <1>1 DEF RequestOK
  <2>2. LET q == [m EXCEPT !.reader = r]
        IN /\ q \in RequestRecord(q.nr) /\ m.step = "request"
           /\ q.op = m.op /\ q.reader = r /\ q.sid = m.sid
           /\ q.state = m.state /\ q.answer = m.answer /\ q.match = m.match /\ q.known = m.known
    BY <2>1 DEF RequestRecord
  <2> QED
    BY <1>1, <2>2 DEF RequestOK, StateOK
<1>2. ASSUME ResponseOK(C, m)
      PROVE  /\ m.step # "request"
             /\ ResponseOK(C, [m EXCEPT !.reader = "left"])
             /\ [m EXCEPT !.reader = "left"].reader = "left"
  <2>1. m \in ResponseRecord(m.nr)
    BY <1>2 DEF ResponseOK
  <2>2. LET q == [m EXCEPT !.reader = "left"]
        IN /\ q \in ResponseRecord(q.nr) /\ m.step # "request"
           /\ q.op = m.op /\ q.reader = "left" /\ q.step = m.step /\ q.sid = m.sid
           /\ q.state = m.state /\ q.ok = m.ok /\ q.tag = m.tag /\ q.given = m.given
    BY <2>1 DEF ResponseRecord
  <2> QED
    BY <1>2, <2>2 DEF ResponseOK, StateOK
<1> QED
  BY <1>1, <1>2 DEF MessageOK

\* The headers of a response are taken, its body is still to come.
LEMMA BodyRemains ==
    ASSUME NEW C, NEW m, ResponseOK(C, m), m.ok
    PROVE  /\ ResponseOK(C, [m EXCEPT !.step = "body", !.nr = 0])
           /\ [m EXCEPT !.step = "body", !.nr = 0].op = m.op
           /\ [m EXCEPT !.step = "body", !.nr = 0].reader = m.reader
<1>1. m \in ResponseRecord(m.nr)
  BY DEF ResponseOK
<1>2. LET q == [m EXCEPT !.step = "body", !.nr = 0]
      IN /\ q \in ResponseRecord(q.nr)
         /\ q.op = m.op /\ q.reader = m.reader /\ q.step = "body" /\ q.sid = m.sid
         /\ q.state = m.state /\ q.ok = m.ok /\ q.tag = m.tag /\ q.given = m.given
  BY <1>1 DEF ResponseRecord
<1> QED
  BY <1>2 DEF ResponseOK, StateOK

\* The answer that goes with a request.
AnswerFits(op, answer) == /\ answer \in {<<>>} \cup (Question \X Value)
                          /\ op = "ADDANSWER" => answer \in Question \X Value

\* A request carries the ETag of the last response, and with it what the browser knew.
LEMMA SentRequest ==
    ASSUME KnownInv, NEW C, NEW op \in Op, NEW s \in {0} \cup Sid, NEW state \in SessionState,
           NEW answer, AnswerFits(op, answer),
           op = "NEWSESSION" => state = SESSION_NULL,
           op # "NEWSESSION" => s \in Sid,
           state = SESSION_CLOSED => s \in C
    PROVE  /\ RequestOK(C, Request(op, s, state, answer))
           /\ Request(op, s, state, answer).op = op
           /\ Request(op, s, state, answer).reader = "mounted"
<1> DEFINE q == Request(op, s, state, answer)
<1>1. etag \subseteq ETag /\ known \in Known /\ Shown(etag, known)
  BY DEF KnownInv, Shown
<1>2. /\ q \in RequestRecord(q.nr)
      /\ q.op = op /\ q.sid = s /\ q.state = state /\ q.answer = answer /\ q.match = etag
      /\ q.known = known /\ q.reader = "mounted"
  BY <1>1 DEF Request, RequestRecord, AnswerFits
<1> HIDE DEF q
<1>3. RequestOK(C, q)
  BY <1>1, <1>2 DEF RequestOK, StateOK, AnswerFits
<1> QED
  BY <1>2, <1>3 DEF q

\* A response describes the file it was made from.
LEMMA SentResponse ==
    ASSUME NEW C, NEW m, RequestOK(C, m), m.reader # "gone", NEW s \in Sid,
           NEW f, GoodFile(f), NEW ok \in BOOLEAN,
           m.op # "NEWSESSION" => s = m.sid,
           m.op = "ANALYSIS" /\ ok => s \in C
    PROVE  /\ ResponseOK(C, Response(m, s, f, ok))
           /\ Response(m, s, f, ok).op = m.op
           /\ Response(m, s, f, ok).reader = m.reader
           /\ Response(m, s, f, ok).step = "response"
<1> DEFINE r == Response(m, s, f, ok)
           k == Progress(f.answers)
<1>1. m \in RequestRecord(m.nr)
  BY DEF RequestOK
<1>2. /\ m.reader \in {"mounted", "left"} /\ m.op \in Op /\ m.state \in SessionState
  BY <1>1 DEF RequestRecord
<1>3. /\ f.state \in SessionState /\ f.answers \in Seq(Answer) /\ f.next \in Seq(Question)
      /\ Linear(f.answers) /\ k \in 0..N /\ Given(f.answers) = FirstQuestions(k) /\ N \in Nat
  BY GoodFileFacts
<1>4. Given(f.answers) \in SUBSET Question
  <2>1. \A i \in 1..k : i \in 1..N
    BY <1>3
  <2> HIDE DEF k
  <2> QED
    BY <1>3, <2>1, SurveyFacts DEF FirstQuestions
<1>5. /\ EtagOf(s, f) \in ETag /\ EtagOf(s, f).sid = s
      /\ EtagOf(s, f).tag.last = LastGiven(f.answers)
  <2>1. LastGiven(f.answers) \in Seq(Answer)
    BY <1>3, ConsistencyHashType
  <2> QED
    BY <1>3, <2>1 DEF EtagOf, ConsistencyHash, ETag
<1>6. Shows(LastGiven(f.answers), Given(f.answers))
  BY <1>3, LinearShows
<1> DEFINE tag == EtagOf(s, f)
           given == Given(f.answers)
<1>7. r = [step |-> "response", reader |-> m.reader, op |-> m.op, sid |-> s, state |-> m.state,
           ok |-> ok, tag |-> tag, given |-> given, next |-> f.next, count |-> k, nr |-> 0]
  BY DEF Response, Progress
<1> HIDE DEF r, k, tag, given
<1>8. /\ r \in ResponseRecord(r.nr)
      /\ r.op = m.op /\ r.sid = s /\ r.state = m.state /\ r.ok = ok /\ r.tag = tag
      /\ r.given = given /\ r.reader = m.reader /\ r.step = "response"
  BY <1>2, <1>3, <1>4, <1>5, <1>7 DEF ResponseRecord, tag, given
<1>9. StateOK(C, r)
  <2>1. CASE m.op = "NEWSESSION"
    BY <1>8, <2>1 DEF RequestOK, StateOK, SESSION_NULL, SESSION_CLOSED
  <2>2. CASE m.op # "NEWSESSION"
    BY <1>8, <2>2 DEF RequestOK, StateOK
  <2> QED
    BY <2>1, <2>2
<1>10. ResponseOK(C, r)
  BY <1>5, <1>6, <1>8, <1>9 DEF ResponseOK, tag, given
<1> QED
  BY <1>8, <1>10 DEF r

(***************************************************************************)
(* The steps of the tab.                                                   *)
(***************************************************************************)

\* An empty component shows nothing that could be wrong.
LEMMA MountedOK ==
    ASSUME NEW C, NEW page \in {"survey", "analysis"}
    PROVE  /\ TabOK(C, Mounted(page))
           /\ Mounted(page).page = page /\ Mounted(page).state = SESSION_NULL
           /\ Mounted(page).sid = 0 /\ Mounted(page).next = <<>>
<1>1. N \in Nat
  BY SurveyFacts
<1>2. /\ Closed \in View /\ Closed.state = SESSION_NULL /\ Closed.sid = 0
      /\ Closed.next = <<>> /\ ~Closed.done
  BY <1>1 DEF Closed, View, SessionState, SESSION_NULL, SESSION_CLOSED
<1>3. ASSUME NEW v \in View, NEW b \in BOOLEAN
      PROVE  LET w == [v EXCEPT !.page = page, !.busy = b]
             IN /\ w \in View /\ w.page = page /\ w.state = v.state /\ w.sid = v.sid
                /\ w.next = v.next /\ w.done = v.done
  BY DEF View
<1>4. /\ Mounted(page) \in View /\ Mounted(page).page = page
      /\ Mounted(page).state = Closed.state /\ Mounted(page).sid = Closed.sid
      /\ Mounted(page).next = Closed.next /\ Mounted(page).done = Closed.done
  BY <1>2, <1>3 DEF Mounted
<1> QED
  BY <1>2, <1>4 DEF TabOK, SESSION_NULL, SESSION_CLOSED

\* componentDidMount, when nothing that is under way is for this component.
LEMMA MountInv ==
    ASSUME ClientInv, NEW ms, UNCHANGED <<files, etag, known>>, CacheOK(ClosedSids, cache'),
           \A n \in ms : MessageOK(ClosedSids, n) /\ n.reader # "mounted",
           \/ MountSurvey(ms)
           \/ cache' = cache /\ MountAnalysis(ms)
    PROVE  ClientInv'
<1>1. FileInv' /\ KnownInv' /\ ClosedSids' = ClosedSids /\ KnownInv
  BY DEF ClientInv, FileInv, KnownInv, ClosedSids
<1>2. \E op \in {"NEWSESSION", "RESUME", "ANALYSIS"}, s \in {0} \cup Sid, state \in SessionState :
          /\ net' = With(ms, Request(op, s, state, <<>>))
          /\ op = "NEWSESSION" => state = SESSION_NULL /\ tab' = Mounted("survey")
          /\ op # "NEWSESSION" => s \in Sid
          /\ state = SESSION_CLOSED => s \in ClosedSids
          /\ \E page \in {"survey", "analysis"} : tab' = Mounted(page)
  <2>1. CASE MountSurvey(ms) /\ net' = With(ms, Request("NEWSESSION", 0, SESSION_NULL, <<>>))
    <3>1. SESSION_NULL \in SessionState /\ SESSION_NULL # SESSION_CLOSED
      BY DEF SessionState, SESSION_NULL, SESSION_CLOSED
    <3>2. tab' = Mounted("survey")
      BY <2>1 DEF MountSurvey
    <3> QED
      BY <2>1, <3>1, <3>2
  <2>2. ASSUME NEW cs, CacheOK(ClosedSids, cs), NEW c \in cs
        PROVE  /\ c.sid \in Sid /\ c.state \in SessionState
               /\ c.state = SESSION_CLOSED => c.sid \in ClosedSids
    BY <2>2 DEF CacheOK
  <2>3. CASE MountSurvey(ms) /\ \E c \in cache' : net' = With(ms, Request("RESUME", c.sid, c.state, <<>>))
    BY <2>2, <2>3 DEF MountSurvey
  <2>4. CASE cache' = cache /\ MountAnalysis(ms)
    BY <2>2, <2>4 DEF MountAnalysis
  <2> QED
    BY <2>1, <2>3, <2>4 DEF MountSurvey
<1>3. PICK op \in {"NEWSESSION", "RESUME", "ANALYSIS"}, s \in {0} \cup Sid,
           state \in SessionState, page \in {"survey", "analysis"} :
          /\ net' = With(ms, Request(op, s, state, <<>>))
          /\ op = "NEWSESSION" => state = SESSION_NULL /\ tab' = Mounted("survey")
          /\ op # "NEWSESSION" => s \in Sid
          /\ state = SESSION_CLOSED => s \in ClosedSids
          /\ tab' = Mounted(page)
  BY <1>2
<1> DEFINE m == Request(op, s, state, <<>>)
           q == Numbered(ms, m)
<1>4. RequestOK(ClosedSids, m) /\ m.op = op /\ m.reader = "mounted"
  <2>1. op \in Op /\ AnswerFits(op, <<>>)
    BY DEF Op, AnswerFits
  <2> QED
    BY <1>1, <1>3, <2>1, SentRequest
<1> HIDE DEF m
<1>5. RequestOK(ClosedSids, q) /\ q.op = op /\ q.reader = "mounted"
  BY <1>4, NumberedRequest
<1>6. net' = ms \cup {q}
  BY <1>3 DEF With, m
<1> HIDE DEF q
<1>7. NetInv'
  BY <1>1, <1>5, <1>6 DEF NetInv, MessageOK
<1>8. NewInv'
  BY <1>3, <1>5, <1>6 DEF NewInv
<1>9. TabInv'
  BY <1>1, <1>3, MountedOK DEF TabInv
<1>10. CacheInv'
  BY <1>1 DEF CacheInv
<1> QED
  BY <1>1, <1>7, <1>8, <1>9, <1>10 DEF ClientInv

\* What is under way when the page is reloaded or another component is shown is
\* for no component any more.
LEMMA NobodyWaits ==
    ASSUME ClientInv
    PROVE  /\ \A n \in Orphaned : MessageOK(ClosedSids, n) /\ n.reader # "mounted"
           /\ \A n \in Left : MessageOK(ClosedSids, n) /\ n.reader # "mounted"
<1>1. ASSUME NEW m \in net, m.step = "request"
      PROVE  LET n == [m EXCEPT !.reader = "gone"]
             IN MessageOK(ClosedSids, n) /\ n.reader # "mounted"
  BY <1>1, ReaderChanged DEF ClientInv, NetInv, MessageOK
<1>2. ASSUME NEW m \in net
      PROVE  LET n == IF m.reader = "mounted" THEN [m EXCEPT !.reader = "left"] ELSE m
             IN MessageOK(ClosedSids, n) /\ n.reader # "mounted"
  BY <1>2, ReaderChanged DEF ClientInv, NetInv, MessageOK
<1> QED
  BY <1>1, <1>2 DEF Orphaned, Left

\* The buttons that send a request of the session that is shown.
LEMMA SendInv ==
    ASSUME ClientInv, UNCHANGED <<files, etag, known, cache>>,
           NEW op \in {"ADDANSWER", "DELETEANSWER"},
           NEW answer, AnswerFits(op, answer), Send(op, answer), tab.sid # 0, tab.page # "none"
    PROVE  ClientInv'
<1>1. FileInv' /\ KnownInv' /\ ClosedSids' = ClosedSids /\ KnownInv /\ CacheInv'
  BY DEF ClientInv, FileInv, KnownInv, ClosedSids, CacheInv
<1> DEFINE m == Request(op, tab.sid, tab.state, answer)
           q == Numbered(net, m)
<1>2. /\ tab.sid \in Sid /\ tab.state \in SessionState
      /\ tab.state = SESSION_CLOSED => tab.sid \in ClosedSids
  BY DEF ClientInv, TabInv, TabOK, View
<1>3. RequestOK(ClosedSids, m) /\ m.op = op /\ m.reader = "mounted"
  <2>1. op \in Op /\ op # "NEWSESSION" /\ tab.sid \in {0} \cup Sid
    BY <1>2 DEF Op
  <2>2. ASSUME NEW s \in {0} \cup Sid, NEW state \in SessionState, s \in Sid,
               state = SESSION_CLOSED => s \in ClosedSids
        PROVE  /\ RequestOK(ClosedSids, Request(op, s, state, answer))
               /\ Request(op, s, state, answer).op = op
               /\ Request(op, s, state, answer).reader = "mounted"
    BY <1>1, <2>1, <2>2, SentRequest
  <2> QED
    BY <1>2, <2>1, <2>2
<1>4. net' = net \cup {q} /\ tab' = [tab EXCEPT !.busy = TRUE]
  BY DEF Send, With
<1> HIDE DEF m
<1>5. RequestOK(ClosedSids, q) /\ q.op # "NEWSESSION"
  <2>1. m.op # "NEWSESSION"
    BY <1>3
  <2> QED
    BY <1>3, <2>1, NumberedRequest
<1> HIDE DEF q
<1>6. NetInv'
  BY <1>1, <1>4, <1>5 DEF ClientInv, NetInv, MessageOK
<1>7. TabInv'
  <2>1. /\ tab' \in View /\ tab'.state = tab.state /\ tab'.sid = tab.sid
        /\ tab'.done = tab.done /\ tab'.next = tab.next /\ tab'.page = tab.page
    BY <1>4 DEF ClientInv, TabInv, TabOK, View
  <2> QED
    BY <1>1, <2>1 DEF ClientInv, TabInv, TabOK
<1>8. NewInv'
  <2>1. \A n \in net : ~(n.op = "NEWSESSION" /\ n.reader = "mounted")
    BY MountedOK DEF ClientInv, NewInv
  <2> QED
    BY <1>4, <1>5, <2>1 DEF NewInv
<1> QED
  BY <1>1, <1>6, <1>7, <1>8 DEF ClientInv

\* Whatever the respondent does keeps the invariant.
LEMMA UserInv ==
    ASSUME ClientInv, User
    PROVE  ClientInv'
<1>1. CacheOK(ClosedSids, cache) /\ CacheOK(ClosedSids, {})
  BY DEF ClientInv, CacheInv, CacheOK
<1>2. CASE Open
  <2>1. net = {}
    BY <1>2 DEF Open, ClientInv, TabInv
  <2> QED
    BY <1>1, <1>2, <2>1, MountInv DEF Open
<1>3. CASE Reload \/ ReloadEarly
  BY <1>1, <1>3, NobodyWaits, MountInv DEF Reload, ReloadEarly, ReloadPage
<1>4. CASE FromList
  BY <1>1, <1>4, NobodyWaits, MountInv DEF FromList
<1>5. CASE HandleAddAnswers
  <2>1. PICK v \in Value : Send("ADDANSWER", <<tab.next[1], v>>)
    BY <1>5 DEF HandleAddAnswers
  <2>2. tab.next # <<>> /\ tab.page = "survey" /\ UNCHANGED <<files, etag, known, cache>>
    BY <1>5 DEF HandleAddAnswers, FormShown
  <2>3. tab.next \in Seq(Question) /\ tab.sid \in Sid /\ 0 \notin Sid
    BY <2>2, BoundsAssumption DEF ClientInv, TabInv, TabOK, View, Sid
  <2>4. tab.next[1] \in Question
    BY <2>2, <2>3
  <2>5. AnswerFits("ADDANSWER", <<tab.next[1], v>>)
    BY <2>4 DEF AnswerFits
  <2> QED
    BY <2>1, <2>2, <2>3, <2>5, SendInv
<1>6. CASE HandleDelAnswer
  <2>1. AnswerFits("DELETEANSWER", <<>>)
    BY DEF AnswerFits
  <2> QED
    BY <1>6, <2>1, SendInv DEF HandleDelAnswer, FormShown
<1>7. CASE HandleGetAnalysis
  BY <1>1, <1>7, NobodyWaits, MountInv DEF HandleGetAnalysis
<1>8. CASE BackToSurvey
  BY <1>1, <1>8, NobodyWaits, MountInv DEF BackToSurvey
<1> QED
  BY <1>2, <1>3, <1>4, <1>5, <1>6, <1>7, <1>8 DEF User

(***************************************************************************)
(* The steps of the network and the backend.                               *)
(***************************************************************************)

\* A message that takes the place of another one is not for a new session unless
\* the other one was.
LEMMA ReplacedNew ==
    ASSUME NewInv, NEW m \in net, NEW r, r.op = m.op, r.reader = m.reader, tab' = tab,
           net' \subseteq (net \ {m}) \cup {r}
    PROVE  NewInv'
<1> SUFFICES ASSUME NEW p \in net', p.op = "NEWSESSION", p.reader = "mounted"
             PROVE  /\ tab = Mounted("survey")
                    /\ \A n \in net' : n.reader = "mounted" => n = p
  BY DEF NewInv
<1>1. CASE p = r
  BY <1>1 DEF NewInv
<1>2. CASE p # r
  <2>1. p \in net \ {m}
    BY <1>2
  <2>2. /\ tab = Mounted("survey")
        /\ \A n \in net : n.reader = "mounted" => n = p
    BY <2>1 DEF NewInv
  <2>3. m.reader # "mounted"
    BY <2>1, <2>2
  <2> QED
    BY <2>2, <2>3
<1> QED
  BY <1>1, <1>2

\* One session gets a new file: the others keep theirs, and no session is reopened.
LEMMA FilesGrow ==
    ASSUME FileInv, NEW s \in Sid, NEW f, GoodFile(f), files' = [files EXCEPT ![s] = f],
           files[s].state = SESSION_CLOSED => f.state = SESSION_CLOSED
    PROVE  /\ FileInv' /\ ClosedSids \subseteq ClosedSids'
           /\ files'[s] = f /\ \A r \in Sid : r # s => files'[r] = files[r]
           /\ f.state = SESSION_CLOSED => s \in ClosedSids'
<1>1. f \in File
  BY DEF GoodFile
<1>2. /\ files' \in [Sid -> File] /\ files'[s] = f
      /\ \A r \in Sid : r # s => files'[r] = files[r]
  BY <1>1 DEF FileInv
<1>3. \A r \in Sid : GoodFile(files'[r])
  BY <1>2 DEF FileInv
<1>4. FileInv'
  BY <1>2, <1>3 DEF FileInv
<1>5. ClosedSids' = {r \in Sid : files'[r].state = SESSION_CLOSED}
  BY DEF ClosedSids
<1>6. ASSUME NEW r \in ClosedSids
      PROVE  r \in ClosedSids'
  BY <1>2, <1>5 DEF ClosedSids
<1> QED
  BY <1>2, <1>4, <1>5, <1>6

\* A request that is under way fits, also when more sessions are closed.
LEMMA WaitingRequest ==
    ASSUME ClientInv, NEW m \in net, m.step = "request", NEW C, ClosedSids \subseteq C
    PROVE  /\ RequestOK(C, m) /\ m.op \in Op
           /\ m.op # "NEWSESSION" => m.sid \in Sid
           /\ m.op = "ADDANSWER" => m.answer \in Question \X Value
<1>1. MessageOK(C, m)
  BY ClosedGrows DEF ClientInv, NetInv
<1>2. RequestOK(C, m)
  BY <1>1, ReaderChanged
<1>3. m \in RequestRecord(m.nr)
  BY <1>2 DEF RequestOK
<1>4. m.op \in Op
  BY <1>3 DEF RequestRecord
<1> QED
  BY <1>2, <1>4 DEF RequestOK

\* GET /session writes one new file.
LEMMA ServeNewSteps ==
    ASSUME ClientInv, NEW m \in net, ServeNew(m)
    PROVE  \E s \in Sid, ok \in BOOLEAN : \E f :
              /\ files' = [files EXCEPT ![s] = f]
              /\ net' = Answered(m, Response(m, s, f, ok))
              /\ GoodFile(f) /\ FileStep(files[s], f)
              /\ files[s].state # SESSION_CLOSED
              /\ Given(files[s].answers) \subseteq Given(f.answers)
<1> DEFINE mem == [Load(NoFile) EXCEPT !.state = SESSION_NEW]
           f == Served(mem, m.op)
<1>1. PICK s \in Sid : /\ \A r \in Sid : files[r] = NoFile <=> r >= s
                       /\ files' = [files EXCEPT ![s] = f]
                       /\ net' = Answered(m, Response(m, s, f, TRUE))
  BY DEF ServeNew
<1>2. GoodFile(f) /\ FileStep(NoFile, f)
  BY NewFile
<1>3. files[s] = NoFile
  <2>1. s >= s
    BY BoundsAssumption DEF Sid
  <2> QED
    BY <1>1, <2>1
<1>4. NoFile.state # SESSION_CLOSED /\ Given(NoFile.answers) = {}
  BY DEF NoFile, SESSION_NULL, SESSION_CLOSED, Given, GivenSlots
<1> HIDE DEF f
<1>5. /\ files' = [files EXCEPT ![s] = f]
      /\ net' = Answered(m, Response(m, s, f, TRUE))
      /\ GoodFile(f) /\ FileStep(files[s], f)
      /\ files[s].state # SESSION_CLOSED
      /\ Given(files[s].answers) \subseteq Given(f.answers)
  BY <1>1, <1>2, <1>3, <1>4
<1> QED
  BY <1>5

\* Every other request writes the file of its session, or leaves it alone.
LEMMA ServeSessionSteps ==
    ASSUME ClientInv, NEW m \in net, m.step = "request", ServeSession(m)
    PROVE  \E ok \in BOOLEAN : \E f :
              /\ m.sid \in Sid
              /\ files' = [files EXCEPT ![m.sid] = f]
              /\ net' = Answered(m, Response(m, m.sid, f, ok))
              /\ GoodFile(f) /\ FileStep(files[m.sid], f)
              /\ files[m.sid].state = SESSION_CLOSED => f.state = SESSION_CLOSED
              /\ m.op = "ANALYSIS" /\ ok => f.state = SESSION_CLOSED
              /\ DeletesLast(files[m.sid], f)
              /\ \/ Given(files[m.sid].answers) \subseteq Given(f.answers)
                 \/ m.op = "DELETEANSWER" /\ Accepted(m, files[m.sid])
<1> DEFINE e == files[m.sid]
<1>1. /\ m.op \in Op /\ m.op # "NEWSESSION" /\ m.sid \in Sid
      /\ m.op = "ADDANSWER" => m.answer \in Question \X Value
  BY WaitingRequest DEF ServeSession
<1>2. GoodFile(e)
  BY <1>1 DEF ClientInv, FileInv
<1>3. CASE Accepted(m, e)
  <2>1. PICK f \in Handled(m, e) : /\ files' = [files EXCEPT ![m.sid] = f]
                                   /\ net' = Answered(m, Response(m, m.sid, f, TRUE))
    BY <1>3 DEF ServeSession
  <2>2. /\ GoodFile(f) /\ FileStep(e, f) /\ DeletesLast(e, f)
        /\ e.state = SESSION_CLOSED => f.state = SESSION_CLOSED
        /\ m.op = "ANALYSIS" => f.state = SESSION_CLOSED
        /\ m.op # "DELETEANSWER" => Given(e.answers) \subseteq Given(f.answers)
    <3> HIDE DEF e
    <3> QED
      BY <1>1, <1>2, <1>3, <2>1, HandledFile
  <2> QED
    BY <1>1, <1>3, <2>1, <2>2
<1>4. CASE ~Accepted(m, e)
  <2>1. /\ files' = [files EXCEPT ![m.sid] = e]
        /\ net' = Answered(m, Response(m, m.sid, e, FALSE))
    <3>1. Accepted(m, e) = FALSE
      BY <1>4 DEF Accepted
    <3> QED
      BY <3>1 DEF ServeSession
  <2>2. FileStep(e, e) /\ DeletesLast(e, e)
    BY DEF FileStep, DeletesLast
  <2> QED
    BY <1>1, <1>2, <2>1, <2>2
<1> QED
  BY <1>3, <1>4

\* A request that is handled keeps the invariant, and is under way no more.
LEMMA AnsweredInv ==
    ASSUME ClientInv, NEW m \in net, m.step = "request", NEW s \in Sid, NEW f,
           NEW ok \in BOOLEAN, UNCHANGED <<etag, cache, known, tab>>,
           GoodFile(f), files' = [files EXCEPT ![s] = f],
           files[s].state = SESSION_CLOSED => f.state = SESSION_CLOSED,
           net' = Answered(m, Response(m, s, f, ok)),
           m.op # "NEWSESSION" => s = m.sid,
           m.op = "ANALYSIS" /\ ok => f.state = SESSION_CLOSED
    PROVE  ClientInv' /\ m \notin net'
<1> DEFINE r == Response(m, s, f, ok)
           x == Numbered(net \ {m}, r)
<1>1. /\ FileInv' /\ ClosedSids \subseteq ClosedSids'
      /\ f.state = SESSION_CLOSED => s \in ClosedSids'
  BY FilesGrow DEF ClientInv
<1>2. RequestOK(ClosedSids', m)
  BY <1>1, WaitingRequest
<1>3. /\ \A n \in net : MessageOK(ClosedSids', n)
      /\ TabOK(ClosedSids', tab) /\ CacheOK(ClosedSids', cache)
  BY <1>1, ClosedGrows DEF ClientInv, NetInv, TabInv, CacheInv
<1>4. CASE m.reader = "gone"
  <2>1. net' = net \ {m}
    BY <1>4 DEF Answered
  <2>2. NetInv'
    BY <1>3, <2>1 DEF NetInv
  <2>3. NewInv'
    BY <2>1, ReplacedNew DEF ClientInv
  <2>4. TabInv' /\ CacheInv' /\ KnownInv'
    BY <1>3 DEF ClientInv, TabInv, CacheInv, KnownInv
  <2> QED
    BY <1>1, <2>1, <2>2, <2>3, <2>4 DEF ClientInv
<1>5. CASE m.reader # "gone"
  <2>1. net' = (net \ {m}) \cup {x}
    BY <1>5 DEF Answered, With
  <2>2. m.op = "ANALYSIS" /\ ok => s \in ClosedSids'
    BY <1>1
  <2> HIDE DEF r
  <2>3. /\ ResponseOK(ClosedSids', r)
        /\ r.op = m.op /\ r.reader = m.reader /\ r.step = "response"
    BY <1>2, <1>5, <2>2, SentResponse DEF r
  <2>4. /\ ResponseOK(ClosedSids', x)
        /\ x.op = m.op /\ x.reader = m.reader /\ x.step = "response"
    BY <2>3, NumberedResponse
  <2> HIDE DEF x
  <2>5. m \notin net'
    BY <2>1, <2>4
  <2>6. NetInv'
    BY <1>3, <2>1, <2>4 DEF NetInv, MessageOK
  <2>7. NewInv'
    BY <2>1, <2>4, ReplacedNew DEF ClientInv
  <2>8. TabInv' /\ CacheInv' /\ KnownInv'
    BY <1>3 DEF ClientInv, TabInv, CacheInv, KnownInv
  <2> QED
    BY <1>1, <2>5, <2>6, <2>7, <2>8 DEF ClientInv
<1> QED
  BY <1>4, <1>5

\* One request, whatever it is: one session's file goes one step.
LEMMA ServeSteps ==
    ASSUME ClientInv, NEW m \in net, ServeRequest(m)
    PROVE  /\ ClientInv' /\ m \notin net'
           /\ \E s \in Sid : \E f :
                 /\ files' = [files EXCEPT ![s] = f]
                 /\ FileStep(files[s], f) /\ DeletesLast(files[s], f)
                 /\ \/ Given(files[s].answers) \subseteq Given(f.answers)
                    \/ s = m.sid /\ m.op = "DELETEANSWER" /\ Accepted(m, files[s])
<1>1. m.step = "request" /\ UNCHANGED <<etag, cache, known, tab>>
  BY DEF ServeRequest
<1>2. CASE ServeNew(m)
  <2>1. PICK s \in Sid, ok \in BOOLEAN : \E f :
              /\ files' = [files EXCEPT ![s] = f]
              /\ net' = Answered(m, Response(m, s, f, ok))
              /\ GoodFile(f) /\ FileStep(files[s], f)
              /\ files[s].state # SESSION_CLOSED
              /\ Given(files[s].answers) \subseteq Given(f.answers)
    BY <1>2, ServeNewSteps
  <2>2. PICK f :
              /\ files' = [files EXCEPT ![s] = f]
              /\ net' = Answered(m, Response(m, s, f, ok))
              /\ GoodFile(f) /\ FileStep(files[s], f)
              /\ files[s].state # SESSION_CLOSED
              /\ Given(files[s].answers) \subseteq Given(f.answers)
    BY <2>1
  <2>3. m.op = "NEWSESSION"
    BY <1>2 DEF ServeNew
  <2>4. ClientInv' /\ m \notin net'
    BY <1>1, <2>2, <2>3, AnsweredInv
  <2>5. DeletesLast(files[s], f)
    BY <2>2 DEF DeletesLast
  <2> QED
    BY <2>2, <2>4, <2>5
<1>3. CASE ServeSession(m)
  <2>1. PICK ok \in BOOLEAN : \E f :
              /\ m.sid \in Sid
              /\ files' = [files EXCEPT ![m.sid] = f]
              /\ net' = Answered(m, Response(m, m.sid, f, ok))
              /\ GoodFile(f) /\ FileStep(files[m.sid], f)
              /\ files[m.sid].state = SESSION_CLOSED => f.state = SESSION_CLOSED
              /\ m.op = "ANALYSIS" /\ ok => f.state = SESSION_CLOSED
              /\ DeletesLast(files[m.sid], f)
              /\ \/ Given(files[m.sid].answers) \subseteq Given(f.answers)
                 \/ m.op = "DELETEANSWER" /\ Accepted(m, files[m.sid])
    BY <1>1, <1>3, ServeSessionSteps
  <2>2. PICK f :
              /\ m.sid \in Sid
              /\ files' = [files EXCEPT ![m.sid] = f]
              /\ net' = Answered(m, Response(m, m.sid, f, ok))
              /\ GoodFile(f) /\ FileStep(files[m.sid], f)
              /\ files[m.sid].state = SESSION_CLOSED => f.state = SESSION_CLOSED
              /\ m.op = "ANALYSIS" /\ ok => f.state = SESSION_CLOSED
              /\ DeletesLast(files[m.sid], f)
              /\ \/ Given(files[m.sid].answers) \subseteq Given(f.answers)
                 \/ m.op = "DELETEANSWER" /\ Accepted(m, files[m.sid])
    BY <2>1
  <2>3. ClientInv' /\ m \notin net'
    BY <1>1, <2>2, AnsweredInv
  <2> QED
    BY <2>2, <2>3
<1> QED
  BY <1>2, <1>3 DEF ServeRequest

\* The headers of a response: the ETag and what the browser knows change together.
LEMMA CacheResponseInv ==
    ASSUME ClientInv, NEW m \in net, CacheResponse(m)
    PROVE  ClientInv'
<1> DEFINE b == [m EXCEPT !.step = "body", !.nr = 0]
           x == Numbered(net \ {m}, b)
<1>1. /\ m.step = "response" /\ m.ok /\ etag' = {m.tag}
      /\ known' = [sid |-> m.sid, given |-> m.given]
      /\ net' = (net \ {m}) \cup {x}
      /\ UNCHANGED <<files, cache, tab>>
  BY DEF CacheResponse, With
<1>2. FileInv' /\ ClosedSids' = ClosedSids /\ CacheInv'
  BY <1>1 DEF ClientInv, FileInv, ClosedSids, CacheInv
<1>3. ResponseOK(ClosedSids, m)
  BY <1>1, ReaderChanged DEF ClientInv, NetInv, MessageOK
<1>4. ResponseOK(ClosedSids, b) /\ b.op = m.op /\ b.reader = m.reader
  BY <1>1, <1>3, BodyRemains
<1> HIDE DEF b
<1>5. ResponseOK(ClosedSids, x) /\ x.op = m.op /\ x.reader = m.reader
  BY <1>4, NumberedResponse
<1> HIDE DEF x
<1>6. KnownInv'
  <2>1. m \in ResponseRecord(m.nr) /\ m.tag.sid = m.sid /\ Shows(m.tag.tag.last, m.given)
    BY <1>3 DEF ResponseOK
  <2>2. m.tag \in ETag /\ m.sid \in Sid /\ m.given \in SUBSET Question
    BY <2>1 DEF ResponseRecord
  <2>3. known' \in Known /\ known'.sid = m.sid /\ known'.given = m.given
    BY <1>1, <2>2 DEF Known
  <2> QED
    BY <1>1, <2>1, <2>2, <2>3 DEF KnownInv, Shown
<1>7. NetInv'
  BY <1>1, <1>2, <1>5 DEF ClientInv, NetInv, MessageOK
<1>8. NewInv'
  BY <1>1, <1>5, ReplacedNew DEF ClientInv
<1>9. TabInv'
  BY <1>1, <1>2 DEF ClientInv, TabInv
<1> QED
  BY <1>2, <1>6, <1>7, <1>8, <1>9 DEF ClientInv

\* A message that is gone was the only one for a mounted component, if it was for
\* one, that could be for a new session.
LEMMA FewerNew ==
    ASSUME NewInv, NEW m \in net, NEW more, net' \subseteq (net \ {m}) \cup more,
           \A n \in more : n.op # "NEWSESSION" /\ n.reader = m.reader,
           m.reader # "mounted" => tab' = tab
    PROVE  NewInv'
<1> SUFFICES ASSUME NEW p \in net', p.op = "NEWSESSION", p.reader = "mounted"
             PROVE  /\ tab' = Mounted("survey")
                    /\ \A n \in net' : n.reader = "mounted" => n = p
  BY DEF NewInv
<1>1. p \in net \ {m}
  OBVIOUS
<1>2. /\ tab = Mounted("survey")
      /\ \A n \in net : n.reader = "mounted" => n = p
  BY <1>1 DEF NewInv
<1>3. m.reader # "mounted"
  BY <1>1, <1>2
<1> QED
  BY <1>2, <1>3

\* A message that fails: the error is shown, the view stays.
LEMMA FailInv ==
    ASSUME ClientInv, NEW m \in net, Fail(m), UNCHANGED <<files, etag, cache, known>>
    PROVE  ClientInv'
<1>1. /\ FileInv' /\ ClosedSids' = ClosedSids /\ CacheInv' /\ KnownInv'
  BY DEF ClientInv, FileInv, ClosedSids, CacheInv, KnownInv
<1>2. net' = net \ {m}
  BY DEF Fail
<1>3. NetInv'
  BY <1>1, <1>2 DEF ClientInv, NetInv
<1>4. NewInv'
  <2>1. m.reader # "mounted" => tab' = tab
    BY DEF Fail
  <2> DEFINE more == {}
  <2>2. net' \subseteq (net \ {m}) \cup more
    BY <1>2
  <2>3. \A n \in more : n.op # "NEWSESSION" /\ n.reader = m.reader
    OBVIOUS
  <2> HIDE DEF more
  <2>4. NewInv
    BY DEF ClientInv
  <2> QED
    BY <2>1, <2>2, <2>3, <2>4, FewerNew
<1>5. TabInv'
  <2>1. tab \in View /\ tab.page # "none"
    BY DEF ClientInv, TabInv, TabOK
  <2>2. ASSUME NEW b \in BOOLEAN, NEW c \in BOOLEAN
        PROVE  LET w == [tab EXCEPT !.busy = b, !.alert = c]
               IN /\ w \in View /\ w.page = tab.page /\ w.state = tab.state
                  /\ w.sid = tab.sid /\ w.next = tab.next /\ w.done = tab.done
    BY <2>1 DEF View
  <2>3. \/ tab' = tab
        \/ \E b \in BOOLEAN, c \in BOOLEAN : tab' = [tab EXCEPT !.busy = b, !.alert = c]
    BY DEF Fail
  <2>4. /\ tab' \in View /\ tab'.page = tab.page /\ tab'.state = tab.state
        /\ tab'.sid = tab.sid /\ tab'.next = tab.next /\ tab'.done = tab.done
    BY <2>1, <2>2, <2>3
  <2> QED
    BY <1>1, <2>1, <2>4 DEF ClientInv, TabInv, TabOK
<1> QED
  BY <1>1, <1>3, <1>4, <1>5 DEF ClientInv

\* The state a response puts the session in is closed only when the backend's is.
LEMMA MergedState ==
    ASSUME NEW C, NEW m, ResponseOK(C, m), m.ok
    PROVE  Merged(m) \in SessionState /\ (Merged(m) = SESSION_CLOSED => m.sid \in C)
<1>1. m \in ResponseRecord(m.nr) /\ StateOK(C, m) /\ (m.op = "ANALYSIS" => m.sid \in C)
  BY DEF ResponseOK
<1>2. m.state \in SessionState /\ (m.state = SESSION_CLOSED => m.sid \in C)
  BY <1>1 DEF ResponseRecord, StateOK
<1>3. /\ SESSION_CLOSED \in SessionState /\ SESSION_OPEN \in SessionState
      /\ SESSION_FINISHED \in SessionState
      /\ SESSION_OPEN # SESSION_CLOSED /\ SESSION_FINISHED # SESSION_CLOSED
  BY DEF SessionState, SESSION_NULL, SESSION_OPEN, SESSION_FINISHED, SESSION_CLOSED
<1>4. Merged(m) \in {SESSION_CLOSED, m.state, SESSION_OPEN, SESSION_FINISHED}
      /\ (Merged(m) = SESSION_CLOSED => m.op = "ANALYSIS" \/ m.state = SESSION_CLOSED)
  BY <1>3 DEF Merged
<1> QED
  BY <1>1, <1>2, <1>3, <1>4

\* The body of the response to GET /session: the new session is cached.
LEMMA DeliverNewInv ==
    ASSUME ClientInv, NEW m \in net, m.step = "body", DeliverNew(m),
           UNCHANGED <<files, etag, known>>
    PROVE  ClientInv'
<1> DEFINE q0 == Request("NEXTQUESTIONS", m.sid, m.state, <<>>)
           q1 == [q0 EXCEPT !.reader = m.reader]
           q  == Numbered(net \ {m}, q1)
<1>1. /\ FileInv' /\ ClosedSids' = ClosedSids /\ KnownInv' /\ KnownInv
  BY DEF ClientInv, FileInv, ClosedSids, KnownInv
<1>2. /\ m.op = "NEWSESSION" /\ cache' = {[sid |-> m.sid, state |-> m.state]}
      /\ net' = (net \ {m}) \cup {q}
      /\ tab' = IF m.reader = "left" THEN tab ELSE [tab EXCEPT !.sid = m.sid]
  BY DEF DeliverNew, With
<1>3. ResponseOK(ClosedSids, m)
  BY ReaderChanged DEF ClientInv, NetInv, MessageOK
<1>4. /\ m.reader \in {"mounted", "left"} /\ m.sid \in Sid
      /\ m.state \in SessionState /\ m.state = SESSION_NULL /\ m.state # SESSION_CLOSED
  <2>1. m \in ResponseRecord(m.nr) /\ m.state = SESSION_NULL
    BY <1>2, <1>3 DEF ResponseOK, StateOK
  <2> QED
    BY <2>1 DEF ResponseRecord, SESSION_NULL, SESSION_CLOSED
<1>5. RequestOK(ClosedSids, q0) /\ q0.op = "NEXTQUESTIONS"
  <2>1. "NEXTQUESTIONS" \in Op /\ AnswerFits("NEXTQUESTIONS", <<>>)
    BY DEF Op, AnswerFits
  <2>2. ASSUME NEW s \in {0} \cup Sid, NEW state \in SessionState, s \in Sid,
               state # SESSION_CLOSED
        PROVE  LET r == Request("NEXTQUESTIONS", s, state, <<>>)
               IN RequestOK(ClosedSids, r) /\ r.op = "NEXTQUESTIONS"
    BY <1>1, <2>1, <2>2, SentRequest
  <2> QED
    BY <1>4, <2>2
<1> HIDE DEF q0
<1>6. RequestOK(ClosedSids, q1) /\ q1.op = "NEXTQUESTIONS" /\ q1.reader = m.reader
  <2>1. m.reader \in {"mounted", "left", "gone"}
    BY <1>4
  <2>2. MessageOK(ClosedSids, q0)
    BY <1>5 DEF MessageOK
  <2> QED
    BY <1>5, <2>1, <2>2, ReaderChanged
<1> HIDE DEF q1
<1>7. RequestOK(ClosedSids, q) /\ q.op = "NEXTQUESTIONS" /\ q.reader = m.reader
  BY <1>6, NumberedRequest
<1> HIDE DEF q
<1>8. NetInv'
  BY <1>1, <1>2, <1>7 DEF ClientInv, NetInv, MessageOK
<1>9. NewInv'
  <2> DEFINE more == {q}
  <2>1. /\ net' \subseteq (net \ {m}) \cup more
        /\ \A n \in more : n.op # "NEWSESSION" /\ n.reader = m.reader
    BY <1>2, <1>7
  <2>2. m.reader # "mounted" => tab' = tab
    BY <1>2, <1>4
  <2> HIDE DEF more
  <2>3. NewInv
    BY DEF ClientInv
  <2> QED
    BY <2>1, <2>2, <2>3, FewerNew
<1>10. CacheInv'
  <2>1. [sid |-> m.sid, state |-> m.state] \in [sid : Sid, state : SessionState]
    BY <1>4
  <2> QED
    BY <1>2, <1>4, <2>1 DEF CacheInv, CacheOK
<1>11. TabInv'
  <2>1. TabOK(ClosedSids, tab) /\ tab.page # "none"
    BY DEF ClientInv, TabInv
  <2>2. CASE tab' = tab
    BY <1>1, <2>1, <2>2 DEF TabInv
  <2>3. CASE m.reader = "mounted"
    <3>1. tab' = [tab EXCEPT !.sid = m.sid] /\ tab \in View
      BY <1>2, <2>1, <2>3 DEF TabOK
    <3>2. tab = Mounted("survey")
      BY <1>2, <2>3 DEF ClientInv, NewInv
    <3>3. tab.state = SESSION_NULL /\ tab.next = <<>> /\ ~tab.done
      <4>1. ~Mounted("survey").done
        BY DEF Mounted, Closed
      <4> QED
        BY <3>2, <4>1, MountedOK
    <3>4. /\ tab' \in View /\ tab'.page = tab.page /\ tab'.state = tab.state
          /\ tab'.next = tab.next /\ tab'.done = tab.done
      BY <1>4, <3>1 DEF View
    <3> QED
      BY <1>4, <2>1, <3>3, <3>4 DEF TabInv, TabOK
  <2> QED
    BY <1>2, <1>4, <2>2, <2>3
<1> QED
  BY <1>1, <1>8, <1>9, <1>10, <1>11 DEF ClientInv

\* The body of any other response: the session is merged and cached.
LEMMA DeliverSessionInv ==
    ASSUME ClientInv, NEW m \in net, m.step = "body", DeliverSession(m),
           UNCHANGED <<files, etag, known>>
    PROVE  ClientInv'
<1>1. /\ FileInv' /\ ClosedSids' = ClosedSids /\ KnownInv'
  BY DEF ClientInv, FileInv, ClosedSids, KnownInv
<1>2. /\ cache' = {[sid |-> m.sid, state |-> Merged(m)]} /\ net' = net \ {m}
      /\ tab' = IF m.reader = "left" THEN tab
                ELSE [page |-> tab.page, sid |-> m.sid, state |-> Merged(m), next |-> m.next,
                      count |-> m.count, busy |-> FALSE, alert |-> FALSE,
                      done |-> m.op = "ANALYSIS"]
  BY DEF DeliverSession
<1>3. ResponseOK(ClosedSids, m)
  BY ReaderChanged DEF ClientInv, NetInv, MessageOK
<1>4. /\ m.ok /\ m.reader \in {"mounted", "left"} /\ m.sid \in Sid
      /\ m.next \in Seq(Question) /\ m.count \in 0..N
      /\ m.op = "ANALYSIS" => m.sid \in ClosedSids
  <2>1. m \in ResponseRecord(m.nr) /\ m.ok /\ (m.op = "ANALYSIS" => m.sid \in ClosedSids)
    BY <1>3 DEF ResponseOK
  <2> QED
    BY <2>1 DEF ResponseRecord
<1>5. /\ Merged(m) \in SessionState
      /\ Merged(m) = SESSION_CLOSED => m.sid \in ClosedSids
  BY <1>3, <1>4, MergedState
<1>6. NetInv'
  BY <1>1, <1>2 DEF ClientInv, NetInv
<1>7. NewInv'
  <2> DEFINE more == {}
  <2>1. /\ net' \subseteq (net \ {m}) \cup more
        /\ \A n \in more : n.op # "NEWSESSION" /\ n.reader = m.reader
    BY <1>2
  <2>2. m.reader # "mounted" => tab' = tab
    BY <1>2, <1>4
  <2> HIDE DEF more
  <2>3. NewInv
    BY DEF ClientInv
  <2> QED
    BY <2>1, <2>2, <2>3, FewerNew
<1>8. CacheInv'
  <2> DEFINE c == [sid |-> m.sid, state |-> Merged(m)]
  <2>1. c \in [sid : Sid, state : SessionState] /\ c.sid = m.sid /\ c.state = Merged(m)
    BY <1>4, <1>5
  <2>2. cache' = {c}
    BY <1>2
  <2> HIDE DEF c
  <2> QED
    BY <1>1, <1>5, <2>1, <2>2 DEF CacheInv, CacheOK
<1>9. TabInv'
  <2>1. TabOK(ClosedSids, tab) /\ tab.page # "none"
    BY DEF ClientInv, TabInv
  <2>2. CASE tab' = tab
    BY <1>1, <2>1, <2>2 DEF TabInv
  <2>3. CASE m.reader = "mounted"
    <3>1. tab.page \in {"none", "survey", "analysis"} /\ m.count \in -1..N
      BY <1>4, <2>1, SurveyFacts DEF TabOK, View
    <3>2. ASSUME NEW p \in {"none", "survey", "analysis"}, NEW s \in Sid,
                 NEW state \in SessionState, NEW next \in Seq(Question), NEW k \in -1..N,
                 NEW b \in BOOLEAN, NEW c \in BOOLEAN, NEW d \in BOOLEAN
          PROVE  LET w == [page |-> p, sid |-> s, state |-> state, next |-> next,
                           count |-> k, busy |-> b, alert |-> c, done |-> d]
                 IN w \in View /\ w.page = p /\ w.sid = s /\ w.state = state /\ w.done = d
      BY DEF View
    <3>3. PICK b \in BOOLEAN, c \in BOOLEAN, d \in BOOLEAN :
             /\ tab' = [page |-> tab.page, sid |-> m.sid, state |-> Merged(m), next |-> m.next,
                        count |-> m.count, busy |-> b, alert |-> c, done |-> d]
             /\ d => m.op = "ANALYSIS"
      BY <1>2, <2>3
    <3>4. /\ tab' \in View /\ tab'.page = tab.page /\ tab'.sid = m.sid
          /\ tab'.state = Merged(m) /\ (tab'.done => m.op = "ANALYSIS")
      BY <1>4, <1>5, <3>1, <3>2, <3>3
    <3> QED
      BY <1>1, <1>4, <1>5, <2>1, <3>4 DEF TabInv, TabOK
  <2> QED
    BY <1>2, <1>4, <2>2, <2>3
<1> QED
  BY <1>1, <1>6, <1>7, <1>8, <1>9 DEF ClientInv

(***************************************************************************)
(* The invariant.                                                          *)
(***************************************************************************)

\* Nothing is stored, known or under way at first.
LEMMA InitClientInv == Init => ClientInv
<1> SUFFICES ASSUME Init
             PROVE  ClientInv
  OBVIOUS
<1>1. GoodFile(NoFile)
  BY LinearEmpty, LoadSaveType DEF GoodFile, LinearFile, NoFile
<1>2. FileInv
  BY <1>1 DEF Init, FileInv, GoodFile
<1>3. KnownInv
  BY DEF Init, KnownInv, Known, Shown
<1>4. TabInv
  BY SurveyFacts DEF Init, TabInv, TabOK, Closed, View, SessionState, SESSION_NULL, SESSION_CLOSED
<1>5. CacheInv /\ NetInv /\ NewInv
  BY DEF Init, CacheInv, CacheOK, NetInv, NewInv
<1> QED
  BY <1>2, <1>3, <1>4, <1>5 DEF ClientInv

\* Every step keeps the invariant.
LEMMA NextClientInv == ClientInv /\ [Next]_vars => ClientInv'
<1> SUFFICES ASSUME ClientInv, [Next]_vars
             PROVE  ClientInv'
  OBVIOUS
<1>1. CASE User
  BY <1>1, UserInv
<1>2. ASSUME NEW m \in net, Arrive(m) \/ Lose(m)
      PROVE  ClientInv'
  <2>1. CASE ServeRequest(m)
    BY <2>1, ServeSteps
  <2>2. CASE CacheResponse(m)
    BY <2>2, CacheResponseInv
  <2>3. CASE Refused(m) \/ Lose(m)
    BY <2>3, FailInv DEF Refused, Lose
  <2>4. CASE Deliver(m)
    BY <2>4, DeliverNewInv, DeliverSessionInv DEF Deliver
  <2> QED
    BY <1>2, <2>1, <2>2, <2>3, <2>4 DEF Arrive
<1>3. CASE UNCHANGED vars
  BY <1>3 DEF vars, ClientInv, FileInv, KnownInv, TabInv, CacheInv, NetInv, NewInv, ClosedSids
<1> QED
  BY <1>1, <1>2, <1>3 DEF Next

\* The invariant holds in every state.
LEMMA ClientInvariant == Spec => []ClientInv
<1> QED
  BY InitClientInv, NextClientInv, PTL DEF Spec

(***************************************************************************)
(* The theorems.                                                           *)
(***************************************************************************)

\* Every variable holds what the program keeps in it.
THEOREM ClientTypes == Spec => []TypeOK
<1>1. ClientInv => TypeOK
  <2> SUFFICES ASSUME ClientInv
               PROVE  TypeOK
    OBVIOUS
  <2>1. files \in [Sid -> File] /\ tab \in View
    BY DEF ClientInv, FileInv, TabInv, TabOK
  <2>2. \A n \in net : n.op \in Op
    <3> SUFFICES ASSUME NEW n \in net
                 PROVE  n.op \in Op
      OBVIOUS
    <3>1. n \in RequestRecord(n.nr) \/ n \in ResponseRecord(n.nr)
      BY DEF ClientInv, NetInv, MessageOK, RequestOK, ResponseOK
    <3> QED
      BY <3>1 DEF RequestRecord, ResponseRecord
  <2>3. /\ \A e \in etag : e.sid \in Sid /\ e.tag.state \in SessionState
        /\ etag = {} \/ \E e : etag = {e}
    BY DEF ClientInv, KnownInv, Shown, ETag
  <2>4. /\ \A c \in cache : c.sid \in Sid /\ c.state \in SessionState
        /\ cache = {} \/ \E c : cache = {c}
    BY DEF ClientInv, CacheInv, CacheOK
  <2>5. ASSUME NEW X, X = {} \/ \E e : X = {e}
        PROVE  Cardinality(X) <= 1
    <3>1. CASE X = {}
      BY <3>1, FS_EmptySet
    <3>2. CASE \E e : X = {e}
      <4>1. PICK e : X = {e}
        BY <3>2
      <4>2. Cardinality({e}) = 1
        BY FS_Singleton
      <4> QED
        BY <4>1, <4>2
    <3> QED
      BY <2>5, <3>1, <3>2
  <2> QED
    BY <2>1, <2>2, <2>3, <2>4, <2>5 DEF TypeOK
<1> QED
  BY <1>1, ClientInvariant, PTL

\* What the browser takes for closed is closed in the backend, and complete, whatever
\* was lost, cut off, repeated or late (Session.close, Analysis.jsx, get_analysis).
THEOREM ClosedSessionsAreFinal == Spec => []ClosedIsFinal
<1>1. ClientInv => ClosedIsFinal
  <2> SUFFICES ASSUME ClientInv
               PROVE  ClosedIsFinal
    OBVIOUS
  <2>1. ASSUME NEW s \in ClosedSids
        PROVE  files[s].state = SESSION_CLOSED /\ Given(files[s].answers) = Question
    <3>1. s \in Sid /\ files[s].state = SESSION_CLOSED
      BY DEF ClosedSids
    <3>2. GoodFile(files[s])
      BY <3>1 DEF ClientInv, FileInv
    <3>3. Progress(files[s].answers) = N
      BY <3>1, <3>2, GoodFileFacts DEF SESSION_NULL, SESSION_FINISHED, SESSION_CLOSED
    <3> QED
      BY <3>1, <3>2, <3>3, GoodFileFacts, SurveyFacts
  <2>2. \A c \in cache : c.state = SESSION_CLOSED => c.sid \in ClosedSids
    BY DEF ClientInv, CacheInv, CacheOK
  <2>3. tab.done => tab.sid \in ClosedSids
    BY DEF ClientInv, TabInv, TabOK
  <2> QED
    BY <2>1, <2>2, <2>3 DEF ClosedIsFinal
<1> QED
  BY <1>1, ClientInvariant, PTL

\* A step that writes a session file is a request that is handled.
LEMMA FileWritten ==
    ASSUME ClientInv, [Next]_vars
    PROVE  \/ files' = files
           \/ \E m \in net : ServeRequest(m)
<1>1. User => files' = files
  BY DEF User, Open, Reload, ReloadEarly, ReloadPage, FromList, HandleAddAnswers,
         HandleDelAnswer, HandleGetAnalysis, BackToSurvey
<1>2. \A m \in net : Arrive(m) \/ Lose(m) => ServeRequest(m) \/ files' = files
  BY DEF Arrive, CacheResponse, Refused, Deliver, Lose
<1> QED
  BY <1>1, <1>2 DEF Next, vars

\* A DELETE /answers that is accepted was sent with the ETag of the very progress it
\* deletes from: the browser had been told of that progress of that session.
LEMMA DeleteKnows ==
    ASSUME ClientInv, NEW m \in net, ServeRequest(m), m.op = "DELETEANSWER",
           NEW s \in Sid, s = m.sid, Accepted(m, files[s])
    PROVE  m.known = [sid |-> s, given |-> Given(files[s].answers)]
<1> DEFINE f == files[s]
<1>1. RequestOK(ClosedSids, m)
  BY WaitingRequest DEF ServeRequest
<1>2. m.known \in Known /\ Shown(m.match, m.known)
  BY <1>1 DEF RequestOK, RequestRecord
<1>3. m.match = {EtagOf(s, f)}
  BY DEF Accepted
<1>4. PICK e \in ETag : m.match = {e} /\ e.sid = m.known.sid /\ Shows(e.tag.last, m.known.given)
  BY <1>2, <1>3 DEF Shown
<1>5. e = EtagOf(s, f)
  BY <1>3, <1>4
<1>6. e.sid = s /\ e.tag.last = LastGiven(f.answers)
  BY <1>5 DEF EtagOf, ConsistencyHash
<1>7. f.answers \in Seq(Answer) /\ Linear(f.answers)
  BY GoodFileFacts DEF ClientInv, FileInv
<1>8. Shows(LastGiven(f.answers), Given(f.answers))
  BY <1>7, LinearShows
<1>9. m.known.given = Given(f.answers) /\ m.known.sid = s
  BY <1>4, <1>6, <1>8, ShowsOne
<1> QED
  BY <1>2, <1>9 DEF Known

\* Whatever DELETE /answers arrives, late, twice or for a session that the browser no
\* longer shows: it takes the last answer of the progress that the browser knew, and
\* nothing else (If-Match in del_answer, and the hash of session_consistency_hash).
THEOREM OnlyAcknowledgedDeleted == Spec => DeletesOnlyAcknowledged
<1> DEFINE Gone(s) == Given(files[s].answers) \ Given(files'[s].answers)
           Acknowledged(s) ==
               Gone(s) # {} => /\ Gone(s) = {LastGiven(files[s].answers)[1].uid}
                               /\ \E m \in net \ net' :
                                     /\ m.op = "DELETEANSWER"
                                     /\ m.known = [sid   |-> s,
                                                   given |-> Given(files[s].answers)]
<1>1. ASSUME ClientInv, [Next]_vars, NEW s \in Sid
      PROVE  Acknowledged(s)
  <2>1. CASE files' = files
    BY <2>1
  <2>2. ASSUME NEW m \in net, ServeRequest(m)
        PROVE  Acknowledged(s)
    <3>1. PICK r \in Sid : \E f :
                 /\ files' = [files EXCEPT ![r] = f]
                 /\ FileStep(files[r], f) /\ DeletesLast(files[r], f)
                 /\ \/ Given(files[r].answers) \subseteq Given(f.answers)
                    \/ r = m.sid /\ m.op = "DELETEANSWER" /\ Accepted(m, files[r])
      BY <1>1, <2>2, ServeSteps
    <3>2. PICK f :
                 /\ files' = [files EXCEPT ![r] = f]
                 /\ FileStep(files[r], f) /\ DeletesLast(files[r], f)
                 /\ \/ Given(files[r].answers) \subseteq Given(f.answers)
                    \/ r = m.sid /\ m.op = "DELETEANSWER" /\ Accepted(m, files[r])
      BY <3>1
    <3>3. files'[r] = f /\ (s # r => files'[s] = files[s])
      BY <1>1, <3>2 DEF ClientInv, FileInv
    <3>4. CASE s # r \/ Given(files[r].answers) \subseteq Given(f.answers)
      BY <3>3, <3>4
    <3>5. CASE s = r /\ r = m.sid /\ m.op = "DELETEANSWER" /\ Accepted(m, files[r])
      <4>1. m.known = [sid |-> s, given |-> Given(files[s].answers)]
        BY <1>1, <2>2, <3>5, DeleteKnows
      <4>2. m \in net \ net'
        BY <1>1, <2>2, ServeSteps
      <4>3. Gone(s) # {} => Gone(s) = {LastGiven(files[s].answers)[1].uid}
        BY <3>2, <3>3, <3>5 DEF DeletesLast
      <4> QED
        BY <3>5, <4>1, <4>2, <4>3
    <3> QED
      BY <3>2, <3>4, <3>5
  <2> QED
    BY <1>1, <2>1, <2>2, FileWritten
<1>2. ClientInv /\ [Next]_vars => [\A s \in Sid : Acknowledged(s)]_vars
  BY <1>1
<1> QED
  BY <1>2, ClientInvariant, PTL DEF Spec, DeletesOnlyAcknowledged

\* The phases of the states.
LEMMA Phases ==
    /\ PhaseOf(SESSION_NULL) = "none" /\ PhaseOf(SESSION_NEW) = "new"
    /\ PhaseOf(SESSION_OPEN) = "open" /\ PhaseOf(SESSION_FINISHED) = "finished"
    /\ PhaseOf(SESSION_CLOSED) = "closed"
BY DEF PhaseOf, SESSION_NULL, SESSION_NEW, SESSION_OPEN, SESSION_FINISHED, SESSION_CLOSED

\* A step of a file is a step of the life cycle, or nothing that it tells apart.
LEMMA FileStepLifecycle ==
    ASSUME NEW s \in Sid, FileStep(files[s], files'[s])
    PROVE  Lifecycle(s)!LNext \/ UNCHANGED Lifecycle(s)!lvars
<1> DEFINE f == files[s]
           g == files'[s]
           k == Progress(f.answers)
           l == Progress(g.answers)
<1>1. /\ Cardinality(GivenSlots(files[s].answers)) = k
      /\ Cardinality(GivenSlots(files'[s].answers)) = l
  BY DEF Progress
<1> HIDE DEF k, l
<1>2. CASE g.state = f.state /\ l = k
  BY <1>1, <1>2 DEF Lifecycle!lvars
<1>3. CASE f.state = SESSION_NULL /\ g.state = SESSION_NEW /\ l = 0
  BY <1>1, <1>3, Phases DEF Lifecycle!LNext, Lifecycle!Create
<1>4. CASE /\ f.state \in {SESSION_NEW, SESSION_OPEN} /\ l = k + 1
           /\ g.state = IF l = N THEN SESSION_FINISHED ELSE SESSION_OPEN
  <2>1. /\ PhaseOf(f.state) \in {"new", "open"}
        /\ PhaseOf(g.state) = IF l = N THEN "finished" ELSE "open"
    BY <1>4, Phases
  <2> QED
    BY <1>1, <1>4, <2>1 DEF Lifecycle!LNext, Lifecycle!Answer
<1>5. CASE /\ f.state \in {SESSION_OPEN, SESSION_FINISHED} /\ l \in 0..(k - 1)
           /\ g.state = SESSION_OPEN
  <2>1. PhaseOf(f.state) \in {"open", "finished"} /\ PhaseOf(g.state) = "open"
    BY <1>5, Phases
  <2> QED
    BY <1>1, <1>5, <2>1 DEF Lifecycle!LNext, Lifecycle!Delete
<1>6. CASE f.state = SESSION_FINISHED /\ g.state = SESSION_CLOSED /\ l = k
  BY <1>1, <1>6, Phases DEF Lifecycle!LNext, Lifecycle!Close
<1> QED
  BY <1>2, <1>3, <1>4, <1>5, <1>6 DEF FileStep, k, l

\* Every session implements the life cycle of docs/sessions.md, whatever the browser
\* sends late, twice or to the wrong session, and whatever is lost on the way.
THEOREM LifecycleOfEverySession == Spec => SessionsImplementLifecycle
<1>1. Init => \A s \in Sid : Lifecycle(s)!LInit
  <2> SUFFICES ASSUME Init, NEW s \in Sid
               PROVE  Lifecycle(s)!LInit
    OBVIOUS
  <2>1. files[s].state = SESSION_NULL /\ files[s].answers = <<>>
    BY DEF Init, NoFile
  <2>2. Cardinality(GivenSlots(files[s].answers)) = 0
    BY <2>1, LinearEmpty DEF Progress
  <2> QED
    BY <2>1, <2>2, Phases DEF Lifecycle!LInit
<1>2. ASSUME ClientInv, [Next]_vars, NEW s \in Sid
      PROVE  Lifecycle(s)!LNext \/ UNCHANGED Lifecycle(s)!lvars
  <2>1. FileStep(files[s], files'[s])
    <3>1. FileStep(files[s], files[s])
      BY DEF FileStep
    <3>2. ASSUME NEW m \in net, ServeRequest(m)
          PROVE  \E r \in Sid : \E f : /\ files' = [files EXCEPT ![r] = f]
                                       /\ FileStep(files[r], f)
      BY <1>2, <3>2, ServeSteps
    <3>3. \A r \in Sid : \A f : files' = [files EXCEPT ![r] = f] =>
              files'[r] = f /\ (r # s => files'[s] = files[s])
      BY <1>2 DEF ClientInv, FileInv
    <3> QED
      BY <1>2, <3>1, <3>2, <3>3, FileWritten
  <2> QED
    BY <2>1, FileStepLifecycle
<1>3. ClientInv /\ [Next]_vars =>
          [\A s \in Sid : Lifecycle(s)!LNext \/ UNCHANGED Lifecycle(s)!lvars]_files
  BY <1>2
<1> QED
  BY <1>1, <1>3, ClientInvariant, PTL DEF Spec, SessionsImplementLifecycle
=============================================================================
