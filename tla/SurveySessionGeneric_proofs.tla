--------------------- MODULE SurveySessionGeneric_proofs ---------------------
(***************************************************************************)
(* Theorems about SurveySession with the generic controller, for every     *)
(* survey, set of values and limit of answers: interviews advance question *)
(* by question, and the session goes through the life cycle of the docs.   *)
(***************************************************************************)
EXTENDS SurveySession_proofs

(***************************************************************************)
(* The inductive invariant.                                                *)
(***************************************************************************)

\* Between two requests nothing is loaded.
RestInv == work.op = "IDLE" => work = Idle

\* One answer is posted, to the question that is served; once it is stored, the
\* session in memory is one answer ahead of the file.
AddingInv ==
    work.op = "ADDANSWER" =>
        /\ Len(work.vals) = 1
        /\ work.at <= 1
        /\ work.at = 0 => work.mem = Load(file) /\ work.affected = 0
        /\ work.at = 1 =>
               /\ work.mem.answers =
                      Stored(file.answers, [uid     |-> Survey[Progress(file.answers) + 1],
                                            val     |-> work.vals[1],
                                            deleted |-> FALSE])
               /\ work.mem.state = SESSION_OPEN

\* A tag shows the questions that were answered when it was issued.
HeldInv == Shows(held.tag.last, held.given)

GenericInv == LinearFile(file) /\ RestInv /\ AddingInv /\ HeldInv

\* What was proved for every controller.
AnyInv == TypeInv /\ SessionInv /\ LoadedInv

\* A file that takes an answer has a question left, and serves just that one.
LEMMA UnfinishedServesOne ==
    ASSUME TypeInv, GenericInv, file.state \in {SESSION_NEW, SESSION_OPEN}
    PROVE  /\ Progress(file.answers) < N
           /\ file.next = <<Survey[Progress(file.answers) + 1]>>
           /\ Len(file.next) = 1 /\ file.next[1] = Survey[Progress(file.answers) + 1]
           /\ Survey[Progress(file.answers) + 1] \in Question
<1> DEFINE k == Progress(file.answers)
<1>1. file.answers \in Seq(Answer)
  BY DEF TypeInv, TypeOK, File
<1>2. k \in 0..N /\ N \in Nat
  BY <1>1, LinearSlots, SurveyFacts DEF GenericInv, LinearFile
<1>3. file.next = NextAfter(k) /\ k # N
  BY DEF GenericInv, LinearFile, SESSION_NULL, SESSION_NEW, SESSION_OPEN, SESSION_FINISHED
<1> HIDE DEF k
<1>4. k < N /\ k + 1 \in 1..N
  BY <1>2, <1>3
<1>5. file.next = <<Survey[k + 1]>>
  BY <1>3 DEF NextAfter
<1>6. Len(file.next) = 1 /\ file.next[1] = Survey[k + 1]
  BY <1>5
<1>7. Survey[k + 1] \in Question
  BY <1>4, SurveyFacts
<1> QED
  BY <1>4, <1>5, <1>6, <1>7 DEF k

\* The answer that a POST stores makes the interview one question longer.
LEMMA AddedAnswer ==
    ASSUME AnyInv, GenericInv, work.op = "ADDANSWER", work.at = 1
    PROVE  /\ Linear(work.mem.answers)
           /\ Progress(work.mem.answers) = Progress(file.answers) + 1
           /\ work.mem.answers[Progress(file.answers) + 1] =
                  [uid |-> Survey[Progress(file.answers) + 1], val |-> work.vals[1],
                   deleted |-> FALSE]
<1> DEFINE a == [uid |-> Survey[Progress(file.answers) + 1], val |-> work.vals[1],
                 deleted |-> FALSE]
<1>1. file.answers \in Seq(Answer) /\ work.vals \in Seq(Value) /\ Linear(file.answers)
  BY DEF AnyInv, TypeInv, TypeOK, File, Work, GenericInv, LinearFile
<1>2. /\ file.state \in {SESSION_NEW, SESSION_OPEN}
      /\ Len(work.vals) = 1 /\ work.mem.answers = Stored(file.answers, a)
  BY DEF AnyInv, LoadedInv, GenericInv, AddingInv
<1>3. Progress(file.answers) < N /\ Survey[Progress(file.answers) + 1] \in Question
  BY <1>2, UnfinishedServesOne DEF AnyInv
<1>4. work.vals[1] \in Value
  BY <1>1, <1>2
<1>5. a \in Answer /\ ~a.deleted /\ a.uid = Survey[Progress(file.answers) + 1]
  BY <1>3, <1>4 DEF Answer
<1> HIDE DEF a
<1>6. /\ Linear(Stored(file.answers, a))
      /\ Progress(Stored(file.answers, a)) = Progress(file.answers) + 1
      /\ Stored(file.answers, a)[Progress(file.answers) + 1] = a
  BY <1>1, <1>3, <1>5, LinearStored
<1> QED
  BY <1>2, <1>6 DEF a

\* Memory holds a linear interview too: that of the file, one answer more after a
\* POST, or fewer after a DELETE; and only a complete one is closed.
LEMMA MemoryLinear ==
    ASSUME AnyInv, GenericInv
    PROVE  /\ Linear(work.mem.answers)
           /\ work.op # "IDLE" /\ work.mem.state = SESSION_CLOSED =>
                  Progress(work.mem.answers) = N
           /\ work.op = "DELETEANSWER" /\ work.mem.answers # file.answers =>
                  Progress(work.mem.answers) < Progress(file.answers)
<1>1. /\ work \in Work /\ work.mem \in Memory /\ work.mem.answers \in Seq(Answer)
      /\ file \in File /\ file.answers \in Seq(Answer) /\ Linear(file.answers)
      /\ Load(file).answers = file.answers /\ Load(file).state = file.state
  BY LoadSaveType
  DEF AnyInv, TypeInv, TypeOK, Work, Memory, File, GenericInv, LinearFile
<1>2. file.state = SESSION_CLOSED => Progress(file.answers) = N
  BY DEF GenericInv, LinearFile, SESSION_NULL, SESSION_FINISHED, SESSION_CLOSED
<1>3. CASE work.op = "IDLE"
  <2>1. work.mem.answers = <<>>
    BY <1>3, LoadSaveType DEF GenericInv, RestInv, Idle, NoFile
  <2> QED
    BY <1>3, <2>1, LinearEmpty
<1>4. CASE work.op = "NEWSESSION"
  <2>1. work.mem.answers = <<>> /\ work.mem.state = SESSION_NEW
    BY <1>4 DEF AnyInv, LoadedInv
  <2> QED
    BY <1>4, <2>1, LinearEmpty DEF SESSION_NEW, SESSION_CLOSED
<1>5. CASE work.op = "NEXTQUESTIONS"
  BY <1>1, <1>2, <1>5 DEF AnyInv, LoadedInv
<1>6. CASE work.op = "ADDANSWER"
  <2>1. work.at \in Nat /\ work.at <= 1 /\ file.state # SESSION_CLOSED
    BY <1>1, <1>6 DEF AnyInv, LoadedInv, GenericInv, AddingInv, SESSION_NEW, SESSION_OPEN,
                      SESSION_CLOSED, Work
  <2>2. CASE work.at = 0
    BY <1>1, <1>2, <1>6, <2>1, <2>2 DEF GenericInv, AddingInv
  <2>3. CASE work.at = 1
    BY <1>6, <2>3, AddedAnswer DEF GenericInv, AddingInv, SESSION_OPEN, SESSION_CLOSED
  <2> QED
    BY <2>1, <2>2, <2>3
<1>7. CASE work.op = "DELETEANSWER"
  <2>1. CASE work.mem.answers = file.answers
    BY <1>1, <1>2, <1>7, <2>1 DEF AnyInv, LoadedInv
  <2>2. CASE work.mem.answers # file.answers
    <3>1. /\ work.mem.state = file.state
          /\ file.state \in {SESSION_OPEN, SESSION_FINISHED}
          /\ CutFrom(file.answers, work.mem.answers)
          /\ GivenSlots(work.mem.answers) # GivenSlots(file.answers)
      BY <1>7, <2>2 DEF AnyInv, LoadedInv
    <3> QED
      BY <1>1, <3>1, LinearCut DEF SESSION_OPEN, SESSION_FINISHED, SESSION_CLOSED
  <2> QED
    BY <2>1, <2>2
<1> QED
  BY <1>1, <1>3, <1>4, <1>5, <1>6, <1>7 DEF Work, Op

\* The end of a request of the generic controller.
LEMMA GenericFinish ==
    ASSUME Mode = "generic", AnyInv, GenericInv, Finish
    PROVE  /\ file' \in File /\ LinearFile(file')
           /\ file'.answers = work.mem.answers
           /\ file'.state = ServedState(work.mem.state, NextAfter(Progress(work.mem.answers)))
           /\ work' = Idle
           /\ held' = held \/ held' = TagOf(file')
<1>1. work.mem \in Memory /\ work.op # "IDLE"
  BY DEF AnyInv, TypeInv, TypeOK, Work, Finish
<1>2. /\ file' = Save(Serve(work.mem, work.op, GenericNext(work.mem)))
      /\ held' = held \/ held' = TagOf(file')
      /\ work' = Idle
  BY DEF Finish, Replies
<1>3. Linear(work.mem.answers) /\ (work.mem.state = SESSION_CLOSED => Progress(work.mem.answers) = N)
  BY <1>1, MemoryLinear
<1>4. work.mem.state # SESSION_NULL
  BY <1>1 DEF AnyInv, SessionInv, ExistsInv
<1> QED
  BY <1>1, <1>2, <1>3, <1>4, LinearServe, LinearFileServe

\* A tag that a response carries shows the questions that are answered.
LEMMA TagShows ==
    ASSUME NEW f \in File, LinearFile(f)
    PROVE  Shows(TagOf(f).tag.last, TagOf(f).given)
<1>1. f.answers \in Seq(Answer)
  BY DEF File
<1>2. TagOf(f).tag.last = LastGiven(f.answers) /\ TagOf(f).given = Given(f.answers)
  BY DEF TagOf, ConsistencyHash
<1> QED
  BY <1>1, <1>2, LinearShows DEF LinearFile

\* A file that is not there, or that stays as it is apart from its state.
LEMMA LinearNoFile == LinearFile(NoFile)
BY LinearEmpty DEF LinearFile, NoFile

\* The start: nothing there, nothing in progress, the tag of nothing.
LEMMA InitGenericInv == Init => GenericInv
<1> SUFFICES ASSUME Init PROVE GenericInv
  OBVIOUS
<1>1. LinearFile(file) /\ RestInv /\ AddingInv
  BY LinearNoFile, IdleType DEF Init, RestInv, AddingInv
<1>2. HeldInv
  BY LinearNoFile, TagShows, LoadSaveType DEF Init, HeldInv
<1> QED
  BY <1>1, <1>2 DEF GenericInv

\* POST /answers begins with the one question that is served.
LEMMA PostGenericInv ==
    ASSUME AnyInv, GenericInv, PostAnswers
    PROVE  GenericInv'
<1>1. PICK vals \in [1..Len(file.next) -> Value] : work' = Begin("ADDANSWER", Load(file), vals, 0)
  BY DEF PostAnswers
<1>2. UNCHANGED <<file, held>> /\ Verified("ADDANSWER")
  BY DEF PostAnswers
<1>3. Len(file.next) = 1
  BY <1>2, ChangeAllowed, UnfinishedServesOne DEF AnyInv, TypeInv
<1>4. Len(vals) = 1
  <2>1. vals \in Seq(Value) /\ Len(vals) = Len(file.next)
    BY DEF AnyInv, TypeInv, TypeOK, File
  <2> QED
    BY <1>3, <2>1
<1>5. /\ work'.op = "ADDANSWER" /\ work'.vals = vals /\ work'.at = 0
      /\ work'.mem = Load(file) /\ work'.affected = 0
  BY <1>1 DEF Begin
<1>6. AddingInv'
  <2>1. work'.at <= 1 /\ work'.at # 1
    BY <1>5
  <2>2. Len(work'.vals) = 1 /\ Load(file)' = Load(file)
    BY <1>2, <1>4, <1>5
  <2> QED
    BY <1>5, <2>1, <2>2 DEF AddingInv
<1>7. RestInv'
  BY <1>5 DEF RestInv
<1> QED
  BY <1>2, <1>6, <1>7 DEF GenericInv, HeldInv

\* One round of fcgi_session_add_answers: the only one there is.
LEMMA AddGenericInv ==
    ASSUME AnyInv, GenericInv, AddAnswerStep
    PROVE  GenericInv'
<1> DEFINE k == Progress(file.answers)
           u == work.mem.next[work.at + 1]
           v == work.vals[work.at + 1]
           a == [uid |-> u, val |-> v, deleted |-> FALSE]
<1>1. /\ work \in Work /\ work.at \in Nat /\ work.vals \in Seq(Value)
      /\ work.op \in Op \cup {"IDLE"}
      /\ file \in File /\ Load(file) \in Memory
      /\ Load(file).answers = file.answers /\ Load(file).next = file.next
  BY LoadSaveType DEF AnyInv, TypeInv, TypeOK, Work
<1>2. work.at < Len(work.vals) /\ UNCHANGED <<file, held>>
  BY DEF AddAnswerStep
<1>3. work.op = "ADDANSWER"
  <2>1. work.vals # <<>>
    BY <1>1, <1>2
  <2>2. work.op \notin Op \ {"ADDANSWER"}
    BY <2>1 DEF AnyInv, SessionInv, CopyInv
  <2>3. work.op # "IDLE"
    BY <2>1, IdleType DEF GenericInv, RestInv
  <2> QED
    BY <1>1, <2>2, <2>3
<1>4. /\ Len(work.vals) = 1 /\ work.at = 0
      /\ work.mem = Load(file) /\ work.affected = 0
      /\ file.state \in {SESSION_NEW, SESSION_OPEN}
  <2>1. Len(work.vals) = 1 /\ (work.at = 0 => work.mem = Load(file) /\ work.affected = 0)
    BY <1>3 DEF GenericInv, AddingInv
  <2>2. work.at = 0
    BY <1>1, <1>2, <2>1
  <2> QED
    BY <1>3, <2>1, <2>2 DEF AnyInv, LoadedInv
<1>5. u = Survey[k + 1] /\ u \in Question /\ v = work.vals[1] /\ v \in Value
  <2>1. file.next[1] = Survey[k + 1] /\ Survey[k + 1] \in Question
    BY <1>4, UnfinishedServesOne DEF AnyInv
  <2>2. work.at + 1 = 1
    BY <1>4
  <2> QED
    BY <1>1, <1>4, <2>1, <2>2
<1>6. \/ work' = Idle
      \/ /\ work'.op = "ADDANSWER" /\ work'.vals = work.vals /\ work'.at = 1
         /\ work'.mem = AddAnswer(work.mem, u, v)
  <2> DEFINE ok    == Addable(work.mem, u)
             count == IF ok THEN work.affected + 1 ELSE work.affected - 1
             next  == [work EXCEPT !.mem      = IF ok THEN AddAnswer(@, u, v) ELSE @,
                                   !.at       = @ + 1,
                                   !.affected = count]
  <2>1. work' = IF count < 0 THEN Idle ELSE next
    BY DEF AddAnswerStep
  <2>2. CASE ~ok
    <3>1. count = -1
      BY <1>4, <2>2
    <3> QED
      BY <2>1, <3>1
  <2>3. CASE ok
    <3>1. count = 1
      BY <1>4, <2>3
    <3> HIDE DEF count
    <3>2. work' = [work EXCEPT !.mem = AddAnswer(@, u, v), !.at = @ + 1, !.affected = count]
      BY <2>1, <2>3, <3>1
    <3> HIDE DEF u, v
    <3>3. /\ work'.op = work.op /\ work'.vals = work.vals /\ work'.at = work.at + 1
          /\ work'.mem = AddAnswer(work.mem, u, v)
      BY <1>1, <3>2 DEF Work
    <3> QED
      BY <1>3, <1>4, <3>3
  <2> QED
    BY <2>2, <2>3
<1> HIDE DEF u, v
<1>7. AddingInv' /\ RestInv'
  <2>1. CASE work' = Idle
    BY <2>1, IdleType DEF AddingInv, RestInv
  <2>2. CASE /\ work'.op = "ADDANSWER" /\ work'.vals = work.vals /\ work'.at = 1
             /\ work'.mem = AddAnswer(work.mem, u, v)
    <3>1. work'.mem.answers = Stored(file.answers, a) /\ work'.mem.state = SESSION_OPEN
      BY <1>1, <1>4, <1>5, <2>2, AddAnswerType
    <3> QED
      BY <1>2, <1>4, <1>5, <2>2, <3>1 DEF AddingInv, RestInv
  <2> QED
    BY <1>6, <2>1, <2>2
<1> QED
  BY <1>2, <1>7 DEF GenericInv, HeldInv

\* Every step of every handler keeps the invariant.
LEMMA NextGenericInv ==
    ASSUME Mode = "generic"
    PROVE  AnyInv /\ GenericInv /\ [Next]_vars => GenericInv'
<1> SUFFICES ASSUME AnyInv, GenericInv, [Next]_vars
             PROVE  GenericInv'
  OBVIOUS
<1>0. file \in File /\ LinearFile(file) /\ TypeOK
  BY DEF AnyInv, TypeInv, TypeOK, GenericInv
<1>1. ASSUME work'.op \notin {"ADDANSWER", "IDLE"}, UNCHANGED <<file, held>>
      PROVE  GenericInv'
  BY <1>1 DEF GenericInv, RestInv, AddingInv, HeldInv
<1>2. ASSUME work' = Idle, LinearFile(file'), HeldInv'
      PROVE  GenericInv'
  BY <1>2, IdleType DEF GenericInv, RestInv, AddingInv
<1>3. CASE CreateSession
  BY <1>1, <1>3 DEF CreateSession, Begin
<1>4. CASE GetQuestions
  BY <1>1, <1>4 DEF GetQuestions, Begin
<1>5. CASE PostAnswers
  BY <1>5, PostGenericInv
<1>6. CASE CliAddAnswer
  BY <1>5, <1>6, CliAddsLikePost
<1>7. CASE AddAnswerStep
  BY <1>7, AddGenericInv
<1>8. CASE DeleteAnswer \/ DeletePrevious \/ CliDeleteAnswer \/ CliDeletePrevious
  <2>1. work'.op = "DELETEANSWER" /\ UNCHANGED <<file, held>>
    BY <1>0, <1>8, BeginDeleteType, BeginDeleteNothingType
    DEF DeleteAnswer, DeletePrevious, CliDeleteAnswer, CliDeletePrevious
  <2> QED
    BY <1>1, <2>1
<1>9. CASE Finish
  BY <1>2, <1>9, GenericFinish, TagShows DEF GenericInv, HeldInv
<1>10. CASE Abandon
  BY <1>0, <1>2, <1>10 DEF Abandon, GenericInv, HeldInv
<1>11. CASE HeadRequest
  <2>1. held' = TagOf(file) /\ file' = file /\ work' = work
    BY <1>11 DEF HeadRequest
  <2> QED
    BY <1>0, <2>1, TagShows DEF GenericInv, RestInv, AddingInv, HeldInv
<1>12. CASE Analyse
  <2>1. LinearFile(file')
    BY <1>0, <1>12, AnalyseFacts
    DEF AnyInv, LinearFile, SESSION_NULL, SESSION_FINISHED, SESSION_CLOSED
  <2>2. file' \in File
    <3>1. file' = file \/ file' = [file EXCEPT !.state = SESSION_CLOSED]
      BY <1>12 DEF Analyse
    <3>2. SESSION_CLOSED \in SessionState
      BY DEF SESSION_CLOSED, SessionState, SESSION_NULL
    <3> HIDE DEF SESSION_CLOSED
    <3> QED
      BY <1>0, <3>1, <3>2 DEF File
  <2>3. held' = held \/ held' = TagOf(file')
    BY <1>12 DEF Analyse
  <2>4. work' = Idle
    BY <1>12, AnalyseFacts DEF AnyInv
  <2> QED
    BY <1>2, <2>1, <2>2, <2>3, <2>4, TagShows DEF GenericInv, HeldInv
<1>13. CASE RemoveSession
  <2>1. work' = Idle /\ file' = NoFile /\ held' = held
    BY <1>13 DEF RemoveSession
  <2> QED
    BY <1>2, <2>1, LinearNoFile DEF GenericInv, HeldInv
<1>14. CASE UNCHANGED vars
  BY <1>14 DEF vars, GenericInv, RestInv, AddingInv, HeldInv
<1> QED
  BY <1>3, <1>4, <1>5, <1>6, <1>7, <1>8, <1>9, <1>10, <1>11, <1>12, <1>13, <1>14 DEF Next

\* So it holds in every reachable state, together with what was proved before.
LEMMA GenericInvariant ==
    ASSUME Mode = "generic"
    PROVE  Spec => [](AnyInv /\ GenericInv)
<1>1. AnyInv /\ GenericInv /\ [Next]_vars => GenericInv'
  BY NextGenericInv
<1> QED
  BY <1>1, InitGenericInv, LoadedInvariant, PTL DEF Spec, AnyInv

(***************************************************************************)
(* The invariants of the generic controller.                               *)
(***************************************************************************)

\* In the file and in memory, slot i is the one of question i and the given answers
\* are the first ones: no order of answers, deletions and answers again leaves a gap.
THEOREM PrefixGiven ==
    ASSUME Mode = "generic"
    PROVE  Spec => []GivenIsPrefix
<1>1. AnyInv /\ GenericInv => GivenIsPrefix
  <2> SUFFICES ASSUME AnyInv, GenericInv
               PROVE  Linear(file.answers) /\ Linear(work.mem.answers)
    BY DEF GivenIsPrefix, Sessions, Save, Linear
  <2> QED
    BY MemoryLinear DEF GenericInv, LinearFile
<1> QED
  BY <1>1, GenericInvariant, PTL

\* get_next_questions_generic goes on after the last given answer; the question that
\* is in the file is the first one without an answer all the same.
THEOREM FirstIsServed ==
    ASSUME Mode = "generic"
    PROVE  Spec => []NextIsFirstUnanswered
<1>1. GenericInv => NextIsFirstUnanswered
  BY DEF GenericInv, LinearFile, NextIsFirstUnanswered, Exists, NextAfter, Progress
<1> QED
  BY <1>1, GenericInvariant, PTL

\* A session file is finished or closed exactly when every question of the survey is
\* answered in it.
THEOREM FinishedComplete ==
    ASSUME Mode = "generic"
    PROVE  Spec => []FinishedIffComplete
<1>1. TypeInv /\ GenericInv => FinishedIffComplete
  <2> SUFFICES ASSUME TypeInv, GenericInv, file.state # SESSION_NULL
               PROVE  file.state >= SESSION_FINISHED <=> Given(file.answers) = Question
    BY DEF FinishedIffComplete, Exists
  <2>1. file.answers \in Seq(Answer) /\ Linear(file.answers)
    BY DEF TypeInv, TypeOK, File, GenericInv, LinearFile
  <2>2. Given(file.answers) = Question <=> Progress(file.answers) = N
    BY <2>1, LinearSlots, FirstQuestionsGrow
  <2> QED
    BY <2>2 DEF GenericInv, LinearFile
<1> QED
  BY <1>1, GenericInvariant, PTL DEF AnyInv

\* If-Match protects what the client saw: the hash covers the state and the last
\* answer, and that is enough to tell which questions were answered.
THEOREM TagIsProgress ==
    ASSUME Mode = "generic"
    PROVE  Spec => []TagMeansSameProgress
<1>1. TypeInv /\ GenericInv => TagMeansSameProgress
  <2> SUFFICES ASSUME TypeInv, GenericInv, held.tag = ConsistencyHash(file)
               PROVE  held.given = Given(file.answers)
    BY DEF TagMeansSameProgress, TagMatches
  <2>1. file.answers \in Seq(Answer) /\ Linear(file.answers)
    BY DEF TypeInv, TypeOK, File, GenericInv, LinearFile
  <2>2. held.tag.last = LastGiven(file.answers)
    BY DEF ConsistencyHash
  <2>3. Shows(held.tag.last, Given(file.answers))
    BY <2>1, <2>2, LinearShows
  <2> QED
    BY <2>3, ShowsOne DEF GenericInv, HeldInv
<1> QED
  BY <1>1, GenericInvariant, PTL DEF AnyInv

\* A POST that is not refused has stored its answer, although a refused answer only
\* counts down: with one question at a time the count falls below zero.
THEOREM AcceptedStored ==
    ASSUME Mode = "generic"
    PROVE  Spec => []AcceptedIsStored
<1>1. AnyInv /\ GenericInv => AcceptedIsStored
  <2> SUFFICES ASSUME AnyInv, GenericInv, work.op = "ADDANSWER", work.at = Len(work.vals),
                      NEW i \in 1..work.at
               PROVE  \E j \in GivenSlots(work.mem.answers) :
                          /\ work.mem.answers[j].uid = work.mem.next[i]
                          /\ work.mem.answers[j].val = work.vals[i]
    BY DEF AcceptedIsStored
  <2> DEFINE k == Progress(file.answers)
  <2>1. work.at = 1 /\ i = 1
    BY DEF GenericInv, AddingInv
  <2>2. /\ Linear(work.mem.answers) /\ Progress(work.mem.answers) = k + 1
        /\ work.mem.answers[k + 1].uid = Survey[k + 1]
        /\ work.mem.answers[k + 1].val = work.vals[1]
    BY <2>1, AddedAnswer
  <2>3. /\ work.mem.answers \in Seq(Answer) /\ file.answers \in Seq(Answer)
        /\ Linear(file.answers)
    BY DEF AnyInv, TypeInv, TypeOK, Work, Memory, File, GenericInv, LinearFile
  <2>4. k + 1 \in GivenSlots(work.mem.answers)
    <3>1. k \in Nat /\ N \in Nat
      BY <2>3, LinearSlots, SurveyFacts
    <3>2. GivenSlots(work.mem.answers) = 1..(k + 1)
      BY <2>2, <2>3, LinearSlots
    <3> HIDE DEF k
    <3> QED
      BY <3>1, <3>2
  <2>5. work.mem.next[1] = Survey[k + 1]
    BY UnfinishedServesOne DEF AnyInv, LoadedInv
  <2> QED
    BY <2>1, <2>2, <2>4, <2>5
<1> QED
  BY <1>1, GenericInvariant, PTL

(***************************************************************************)
(* The life cycle.                                                         *)
(***************************************************************************)

\* The phases of the states.
LEMMA Phases ==
    /\ PhaseOf(SESSION_NULL) = "none" /\ PhaseOf(SESSION_NEW) = "new"
    /\ PhaseOf(SESSION_OPEN) = "open" /\ PhaseOf(SESSION_FINISHED) = "finished"
    /\ PhaseOf(SESSION_CLOSED) = "closed"
    /\ \A s \in SessionState : s \in {SESSION_NULL, SESSION_NEW, SESSION_OPEN,
                                      SESSION_FINISHED, SESSION_CLOSED}
BY DEF PhaseOf, SessionState, SESSION_NULL, SESSION_NEW, SESSION_OPEN, SESSION_FINISHED,
       SESSION_CLOSED

\* How the state of a linear interview follows from its progress.
LEMMA ServedPhase ==
    ASSUME NEW state \in SessionState, state # SESSION_NULL, NEW k,
           state = SESSION_CLOSED => k = N
    PROVE  /\ k = N /\ state # SESSION_CLOSED =>
                  ServedState(state, NextAfter(k)) = SESSION_FINISHED
           /\ k = N /\ state = SESSION_CLOSED =>
                  ServedState(state, NextAfter(k)) = SESSION_CLOSED
           /\ k # N /\ state = SESSION_NEW => ServedState(state, NextAfter(k)) = SESSION_NEW
           /\ k # N /\ state # SESSION_NEW => ServedState(state, NextAfter(k)) = SESSION_OPEN
<1>1. k = N => NextAfter(k) = <<>>
  BY DEF NextAfter
<1>2. k # N => NextAfter(k) # <<>>
  BY DEF NextAfter
<1> QED
  BY <1>1, <1>2
  DEF ServedState, SessionState, SESSION_NULL, SESSION_NEW, SESSION_OPEN, SESSION_FINISHED,
      SESSION_CLOSED

\* What Finish writes is a step of the life cycle or changes nothing that it sees.
LEMMA FinishLifecycle ==
    ASSUME Mode = "generic", AnyInv, GenericInv, Finish
    PROVE  Lifecycle!LNext \/ UNCHANGED Lifecycle!lvars
<1> DEFINE k == Progress(file.answers)
           l == Progress(work.mem.answers)
<1>1. /\ file \in File /\ file.state \in SessionState /\ file.answers \in Seq(Answer)
      /\ work \in Work /\ work.mem.state \in SessionState /\ work.mem.answers \in Seq(Answer)
      /\ work.op \in Op
  BY DEF AnyInv, TypeInv, TypeOK, File, Work, Memory, Finish
<1>2. /\ file'.answers = work.mem.answers
      /\ file'.state = ServedState(work.mem.state, NextAfter(l))
  BY GenericFinish
<1>3. /\ Linear(file.answers) /\ Linear(work.mem.answers)
      /\ work.mem.state = SESSION_CLOSED => l = N
  BY <1>1, MemoryLinear DEF GenericInv, LinearFile, Finish
<1>4. k \in 0..N /\ l \in 0..N /\ N \in Nat /\ N >= 1
  BY <1>1, <1>3, LinearSlots, SurveyFacts
<1>5. work.mem.state # SESSION_NULL
  BY DEF AnyInv, SessionInv, ExistsInv, Finish
<1>6. file.state # SESSION_NULL => (file.state >= SESSION_FINISHED <=> k = N)
  BY DEF GenericInv, LinearFile
<1> HIDE DEF k, l
<1>7. /\ Cardinality(GivenSlots(file.answers)) = k
      /\ Cardinality(GivenSlots(file'.answers)) = l
  BY <1>2 DEF Progress, k, l
<1>8. /\ l = N /\ work.mem.state # SESSION_CLOSED => file'.state = SESSION_FINISHED
      /\ l = N /\ work.mem.state = SESSION_CLOSED => file'.state = SESSION_CLOSED
      /\ l # N /\ work.mem.state = SESSION_NEW => file'.state = SESSION_NEW
      /\ l # N /\ work.mem.state # SESSION_NEW => file'.state = SESSION_OPEN
  BY <1>1, <1>2, <1>3, <1>5, ServedPhase
<1>9. ASSUME work.mem.answers = file.answers, work.mem.state = file.state
      PROVE  UNCHANGED Lifecycle!lvars
  <2>1. l = k
    BY <1>9 DEF k, l
  <2>2. file'.state = file.state
    BY <1>1, <1>3, <1>5, <1>6, <1>8, <1>9, <2>1
    DEF SessionState, SESSION_NULL, SESSION_NEW, SESSION_OPEN, SESSION_FINISHED, SESSION_CLOSED
  <2> QED
    BY <1>7, <2>1, <2>2 DEF Lifecycle!lvars
<1>10. CASE work.op = "NEWSESSION"
  <2>1. file = NoFile /\ work.mem.state = SESSION_NEW /\ work.mem.answers = <<>>
    BY <1>10 DEF AnyInv, LoadedInv
  <2>2. l = 0 /\ file.state = SESSION_NULL
    BY <2>1, LinearEmpty DEF l, NoFile
  <2>3. file'.state = SESSION_NEW
    BY <1>4, <1>8, <2>1, <2>2
  <2> QED
    BY <1>7, <2>2, <2>3, Phases DEF Lifecycle!LNext, Lifecycle!Create
<1>11. CASE work.op = "NEXTQUESTIONS"
  BY <1>1, <1>9, <1>11, LoadSaveType DEF AnyInv, LoadedInv
<1>12. CASE work.op = "ADDANSWER"
  <2>1. /\ file.state \in {SESSION_NEW, SESSION_OPEN}
        /\ work.at = 1 /\ work.mem.state = SESSION_OPEN
    BY <1>12 DEF AnyInv, LoadedInv, GenericInv, AddingInv, Finish
  <2>2. l = k + 1
    BY <1>12, <2>1, AddedAnswer DEF k, l
  <2>3. file'.state = IF l = N THEN SESSION_FINISHED ELSE SESSION_OPEN
    BY <1>8, <2>1 DEF SESSION_NEW, SESSION_OPEN, SESSION_CLOSED
  <2>4. /\ PhaseOf(file.state) \in {"new", "open"}
        /\ PhaseOf(file'.state) = IF l = N THEN "finished" ELSE "open"
    BY <2>1, <2>3, Phases
  <2> QED
    BY <1>7, <2>2, <2>4 DEF Lifecycle!LNext, Lifecycle!Answer
<1>13. CASE work.op = "DELETEANSWER"
  <2>1. CASE work.mem.answers = file.answers
    BY <1>9, <1>13, <2>1 DEF AnyInv, LoadedInv
  <2>2. CASE work.mem.answers # file.answers
    <3>1. /\ work.mem.state = file.state
          /\ file.state \in {SESSION_OPEN, SESSION_FINISHED}
      BY <1>13, <2>2 DEF AnyInv, LoadedInv
    <3>2. l < k
      BY <1>13, <2>2, MemoryLinear DEF k, l
    <3>3. l \in 0..(k - 1) /\ l # N
      BY <1>4, <3>2
    <3>4. file'.state = SESSION_OPEN
      BY <1>8, <3>1, <3>3 DEF SESSION_NEW, SESSION_OPEN, SESSION_FINISHED
    <3>5. PhaseOf(file.state) \in {"open", "finished"} /\ PhaseOf(file'.state) = "open"
      BY <3>1, <3>4, Phases
    <3> QED
      BY <1>7, <3>3, <3>5 DEF Lifecycle!LNext, Lifecycle!Delete
  <2> QED
    BY <2>1, <2>2
<1> QED
  BY <1>1, <1>10, <1>11, <1>12, <1>13 DEF Op

\* The session file implements the life cycle of docs/sessions.md, for surveys of any
\* length: every request, whatever it was, is one of the documented steps or none.
THEOREM LifecycleImplemented ==
    ASSUME Mode = "generic"
    PROVE  Spec => ImplementsLifecycle
<1>1. Init => Lifecycle!LInit
  <2> SUFFICES ASSUME Init PROVE Lifecycle!LInit
    OBVIOUS
  <2>1. file.state = SESSION_NULL /\ file.answers = <<>>
    BY DEF Init, NoFile
  <2>2. Cardinality(GivenSlots(file.answers)) = 0
    BY <2>1, LinearEmpty DEF Progress
  <2> QED
    BY <2>1, <2>2, Phases DEF Lifecycle!LInit
<1>2. AnyInv /\ GenericInv /\ [Next]_vars => [Lifecycle!LNext]_(Lifecycle!lvars)
  <2> SUFFICES ASSUME AnyInv, GenericInv, [Next]_vars
               PROVE  Lifecycle!LNext \/ UNCHANGED Lifecycle!lvars
    OBVIOUS
  <2>1. CASE file' = file
    BY <2>1 DEF Lifecycle!lvars
  <2>2. CASE Finish
    BY <2>2, FinishLifecycle
  <2>3. CASE Analyse
    <3>1. /\ file'.state = SESSION_CLOSED /\ file'.answers = file.answers
          /\ file.state \in {SESSION_FINISHED, SESSION_CLOSED}
      BY <2>3, AnalyseFacts DEF AnyInv
    <3>2. CASE file.state = SESSION_FINISHED
      BY <3>1, <3>2, Phases DEF Lifecycle!LNext, Lifecycle!Close
    <3>3. CASE file.state = SESSION_CLOSED
      BY <3>1, <3>3 DEF Lifecycle!lvars
    <3> QED
      BY <3>1, <3>2, <3>3
  <2>4. CASE RemoveSession
    <3>1. file' = NoFile /\ file.state # SESSION_NULL /\ file.state \in SessionState
      BY <2>4 DEF RemoveSession, Exists, AnyInv, TypeInv, TypeOK, File
    <3>2. Cardinality(GivenSlots(file'.answers)) = 0 /\ PhaseOf(file'.state) = "none"
      BY <3>1, LinearEmpty, Phases DEF NoFile, Progress
    <3>3. PhaseOf(file.state) # "none"
      BY <3>1, Phases
    <3> QED
      BY <3>2, <3>3 DEF Lifecycle!LNext, Lifecycle!Remove
  <2> QED
    BY <2>1, <2>2, <2>3, <2>4, FileSteps
<1> QED
  BY <1>1, <1>2, GenericInvariant, PTL DEF Spec, ImplementsLifecycle, Lifecycle!LSpec
=============================================================================
