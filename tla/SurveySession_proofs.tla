------------------------ MODULE SurveySession_proofs ------------------------
(***************************************************************************)
(* Theorems about SurveySession, for every survey, set of values, limit of *)
(* answers, and kind of controller.                                        *)
(***************************************************************************)
EXTENDS SurveySession, Session_proofs

(***************************************************************************)
(* Types.                                                                  *)
(***************************************************************************)

\* The posted values belong to the loaded next questions, one by one, so that
\* AddAnswerStep never reads past their end.
ValsFitNext == work.vals = <<>> \/ Len(work.vals) = Len(work.mem.next)

TypeInv == TypeOK /\ ValsFitNext

\* What addanswer begins, POST /answers could have begun.
LEMMA CliAddsLikePost == CliAddAnswer => PostAnswers
<1> SUFFICES ASSUME CliAddAnswer
             PROVE  PostAnswers
  OBVIOUS
<1>1. PICK v \in Value : work' = Begin("ADDANSWER", Load(file), <<v>>, 0)
  BY DEF CliAddAnswer
<1>2. Len(file.next) = 1 /\ <<v>> \in [1..1 -> Value]
  BY DEF CliAddAnswer
<1>3. file.next # <<>>
  BY <1>2
<1> QED
  BY <1>1, <1>2, <1>3 DEF CliAddAnswer, PostAnswers

\* What a controller returns is a list of questions of the survey.
LEMMA RepliesType ==
    ASSUME NEW m \in Memory, NEW list \in Replies(m)
    PROVE  list \in Seq(Question)
<1>1. CASE Mode = "generic"
  BY <1>1, GenericNextType DEF Replies
<1>2. CASE Mode # "generic"
  <2>1. PICK n \in 0..MaxNext : list \in [1..n -> Question]
    BY <1>2 DEF Replies
  <2>2. n \in Nat
    BY ModeAssumption
  <2> QED
    BY <2>1, <2>2
<1> QED
  BY <1>1, <1>2

\* The ETag of a session, and what it was issued for.
LEMMA TagOfType ==
    ASSUME NEW s, s.state \in SessionState, s.answers \in Seq(Answer)
    PROVE  TagOf(s) \in Held
<1>1. ConsistencyHash(s) \in Tag
  BY ConsistencyHashType DEF ConsistencyHash, Tag
<1>2. Given(s.answers) \subseteq Question
  <2> SUFFICES ASSUME NEW i \in GivenSlots(s.answers)
               PROVE  s.answers[i].uid \in Question
    BY DEF Given
  <2>1. i \in 1..Len(s.answers)
    BY GivenSlotsFinite
  <2>2. s.answers[i] \in Answer
    BY <2>1
  <2> QED
    BY <2>2 DEF Answer
<1> QED
  BY <1>1, <1>2 DEF TagOf, Held

\* A request that has begun is of the type of a request.
LEMMA BeginType ==
    ASSUME NEW op \in Op, NEW mem \in Memory, NEW vals \in Seq(Value), NEW affected \in Int
    PROVE  Begin(op, mem, vals, affected) \in Work
BY DEF Begin, Work

\* Between two requests nothing is loaded and nothing is posted.
LEMMA IdleType == Idle \in Work /\ Idle.op = "IDLE" /\ Idle.vals = <<>>
<1>1. Load(NoFile) \in Memory
  BY LoadSaveType
<1> QED
  BY <1>1 DEF Idle, Work

\* A session store without the session is well-formed.
LEMMA InitTypeInv == Init => TypeInv
<1> SUFFICES ASSUME Init PROVE TypeInv
  OBVIOUS
<1>1. file \in File
  BY LoadSaveType DEF Init
<1>2. work \in Work /\ work.vals = <<>>
  BY IdleType DEF Init
<1>3. held \in Held
  BY LoadSaveType, TagOfType DEF Init, File
<1> QED
  BY <1>1, <1>2, <1>3 DEF TypeInv, TypeOK, ValsFitNext

\* The end of every DELETE: the request goes on with answers cut off.
LEMMA BeginDeleteType ==
    ASSUME TypeOK, NEW u, BeginDelete(u)
    PROVE  /\ TypeOK' /\ work'.vals = <<>>
           /\ work'.op = "DELETEANSWER"
           /\ work'.mem = DeleteAnswers(Load(file), {u})
           /\ UNCHANGED <<file, held>>
<1> DEFINE mem == DeleteAnswers(Load(file), {u})
           affected == Cardinality(GivenSlots(file.answers) \ GivenSlots(mem.answers))
<1>1. Load(file) \in Memory /\ Load(file).answers = file.answers
  BY LoadSaveType DEF TypeOK
<1>2. mem \in Memory
  BY <1>1, DeleteAnswersType
<1>3. affected \in Nat
  BY <1>1, DeleteAnswersType
<1>4. /\ work' = Begin("DELETEANSWER", mem, <<>>, affected)
      /\ UNCHANGED <<file, held>>
  BY DEF BeginDelete
<1> HIDE DEF mem, affected
<1>5. work' \in Work
  <2>1. "DELETEANSWER" \in Op /\ <<>> \in Seq(Value) /\ affected \in Int
    BY <1>3 DEF Op
  <2> QED
    BY <2>1, <1>2, <1>4, BeginType
<1>6. work'.vals = <<>> /\ work'.op = "DELETEANSWER" /\ work'.mem = mem
  BY <1>4 DEF Begin
<1> QED
  BY <1>4, <1>5, <1>6 DEF TypeOK, mem

\* A DELETE that finds nothing to delete goes on with the session as loaded.
LEMMA BeginDeleteNothingType ==
    ASSUME TypeOK, BeginDeleteNothing
    PROVE  /\ TypeOK' /\ work'.vals = <<>>
           /\ work'.op = "DELETEANSWER"
           /\ work'.mem = Load(file)
           /\ UNCHANGED <<file, held>>
<1>1. Load(file) \in Memory
  BY LoadSaveType DEF TypeOK
<1>2. /\ work' = Begin("DELETEANSWER", Load(file), <<>>, 0)
      /\ UNCHANGED <<file, held>>
  BY DEF BeginDeleteNothing
<1>3. work' \in Work
  <2>1. "DELETEANSWER" \in Op /\ <<>> \in Seq(Value) /\ 0 \in Int
    BY DEF Op
  <2> QED
    BY <2>1, <1>1, <1>2, BeginType
<1> QED
  BY <1>2, <1>3 DEF TypeOK, Begin

\* One round over the posted answers.
LEMMA AddAnswerStepType ==
    ASSUME TypeInv, AddAnswerStep
    PROVE  TypeInv'
<1> DEFINE u     == work.mem.next[work.at + 1]
           v     == work.vals[work.at + 1]
           ok    == Addable(work.mem, u)
           count == IF ok THEN work.affected + 1 ELSE work.affected - 1
           mem   == IF ok THEN AddAnswer(work.mem, u, v) ELSE work.mem
           at    == work.at + 1
           next  == [work EXCEPT !.mem = mem, !.at = at, !.affected = count]
<1>1. /\ work \in Work /\ work.mem \in Memory
      /\ work.vals \in Seq(Value) /\ work.at \in Nat /\ work.affected \in Int
      /\ work.mem.next \in Seq(Question)
  BY DEF TypeInv, TypeOK, Work, Memory
<1>2. /\ work.at < Len(work.vals)
      /\ work' = IF count < 0 THEN Idle ELSE next
      /\ UNCHANGED <<file, held>>
  BY DEF AddAnswerStep
<1>3. Len(work.vals) = Len(work.mem.next)
  <2>1. Len(work.vals) > 0
    BY <1>1, <1>2
  <2> QED
    BY <1>1, <2>1 DEF TypeInv, ValsFitNext
<1>4. u \in Question /\ v \in Value
  <2>1. work.at + 1 \in 1..Len(work.vals)
    BY <1>1, <1>2
  <2> QED
    BY <1>1, <1>3, <2>1
<1>5. mem \in Memory /\ mem.next = work.mem.next
  BY <1>1, <1>4, AddAnswerType
<1>6. count \in Int /\ at \in Nat
  BY <1>1
<1> HIDE DEF u, v, ok, count, mem, at
<1>7. next \in Work /\ next.vals = work.vals /\ next.mem = mem
  BY <1>1, <1>5, <1>6 DEF Work
<1>8. work' \in Work /\ ValsFitNext'
  <2>1. CASE count < 0
    BY <1>2, <2>1, IdleType DEF ValsFitNext
  <2>2. CASE ~ (count < 0)
    <3>1. work' = next
      BY <1>2, <2>2
    <3> HIDE DEF next
    <3> QED
      BY <1>3, <1>5, <1>7, <3>1 DEF ValsFitNext
  <2> QED
    BY <2>1, <2>2
<1> QED
  BY <1>2, <1>8 DEF TypeInv, TypeOK

\* The end of a request: what it leaves in the file.
LEMMA FinishType ==
    ASSUME TypeInv, Finish
    PROVE  TypeInv'
<1>1. work.mem \in Memory
  BY DEF TypeInv, TypeOK, Work
<1>2. PICK list \in Replies(work.mem) :
          /\ file' = Save(Serve(work.mem, work.op, list))
          /\ held' \in {held, TagOf(file')}
  BY DEF Finish
<1>3. list \in Seq(Question)
  BY <1>1, RepliesType
<1>4. Serve(work.mem, work.op, list) \in Memory
  BY <1>1, <1>3, ServeType
<1>5. file' \in File
  BY <1>2, <1>4, LoadSaveType
<1>6. TagOf(file') \in Held
  BY <1>5, TagOfType DEF File
<1>7. work' \in Work /\ work'.vals = <<>>
  BY IdleType DEF Finish
<1> QED
  BY <1>2, <1>5, <1>6, <1>7 DEF TypeInv, TypeOK, ValsFitNext

\* Every step of every handler keeps file, request and tag well-formed.
LEMMA NextTypeInv == TypeInv /\ [Next]_vars => TypeInv'
<1> SUFFICES ASSUME TypeInv, [Next]_vars
             PROVE  TypeInv'
  OBVIOUS
<1> USE DEF TypeInv
<1>0. /\ Load(file) \in Memory /\ Load(file).next = file.next
      /\ <<>> \in Seq(Value) /\ 0 \in Int
  BY LoadSaveType DEF TypeOK
<1>1. CASE CreateSession
  <2> DEFINE mem == [Load(NoFile) EXCEPT !.state = SESSION_NEW]
  <2>1. Load(NoFile) \in Memory
    BY LoadSaveType
  <2>2. SESSION_NEW \in SessionState
    BY DEF SESSION_NEW, SessionState, SESSION_NULL, SESSION_CLOSED
  <2>3. mem \in Memory
    BY <2>1, <2>2 DEF Memory
  <2>4. work' = Begin("NEWSESSION", mem, <<>>, 0) /\ UNCHANGED <<file, held>>
    BY <1>1 DEF CreateSession
  <2> HIDE DEF mem
  <2>5. "NEWSESSION" \in Op
    BY DEF Op
  <2>6. work' \in Work /\ work'.vals = <<>>
    BY <1>0, <2>3, <2>4, <2>5, BeginType DEF Begin
  <2> QED
    BY <2>4, <2>6 DEF TypeOK, ValsFitNext
<1>2. CASE GetQuestions
  <2>1. work' = Begin("NEXTQUESTIONS", Load(file), <<>>, 0) /\ UNCHANGED <<file, held>>
    BY <1>2 DEF GetQuestions
  <2>2. "NEXTQUESTIONS" \in Op
    BY DEF Op
  <2>3. work' \in Work /\ work'.vals = <<>>
    BY <1>0, <2>1, <2>2, BeginType DEF Begin
  <2> QED
    BY <2>1, <2>3 DEF TypeOK, ValsFitNext
<1>3. CASE PostAnswers
  <2>1. PICK vals \in [1..Len(file.next) -> Value] :
            work' = Begin("ADDANSWER", Load(file), vals, 0)
    BY <1>3 DEF PostAnswers
  <2>2. vals \in Seq(Value) /\ Len(vals) = Len(file.next)
    BY DEF TypeOK, File
  <2>3. "ADDANSWER" \in Op
    BY DEF Op
  <2>4. work' \in Work /\ work'.vals = vals /\ work'.mem = Load(file)
    BY <1>0, <2>1, <2>2, <2>3, BeginType DEF Begin
  <2> QED
    BY <1>0, <1>3, <2>2, <2>4 DEF TypeOK, ValsFitNext, PostAnswers
<1>15. CASE CliAddAnswer
  BY <1>3, <1>15, CliAddsLikePost
<1>4. CASE AddAnswerStep
  BY <1>4, AddAnswerStepType
<1>5. CASE DeleteAnswer
  BY <1>5, BeginDeleteType DEF DeleteAnswer, ValsFitNext
<1>6. CASE DeletePrevious
  BY <1>6, BeginDeleteType, BeginDeleteNothingType DEF DeletePrevious, ValsFitNext
<1>7. CASE CliDeleteAnswer
  BY <1>7, BeginDeleteType DEF CliDeleteAnswer, ValsFitNext
<1>8. CASE CliDeletePrevious
  BY <1>8, BeginDeleteType, BeginDeleteNothingType DEF CliDeletePrevious, ValsFitNext
<1>9. CASE Finish
  BY <1>9, FinishType
<1>10. CASE Abandon
  BY <1>10, IdleType DEF Abandon, TypeOK, ValsFitNext
<1>11. CASE HeadRequest
  <2>1. TagOf(file) \in Held
    BY TagOfType DEF TypeOK, File
  <2> QED
    BY <1>11, <2>1 DEF HeadRequest, TypeOK, ValsFitNext
<1>12. CASE Analyse
  <2>1. SESSION_CLOSED \in SessionState
    BY DEF SESSION_CLOSED, SessionState, SESSION_NULL
  <2>2. file' \in File
    <3>1. file' = file \/ file' = [file EXCEPT !.state = SESSION_CLOSED]
      BY <1>12 DEF Analyse
    <3> HIDE DEF SESSION_CLOSED
    <3> QED
      BY <2>1, <3>1 DEF TypeOK, File
  <2>3. TagOf(file') \in Held
    BY <2>2, TagOfType DEF File
  <2> QED
    BY <1>12, <2>2, <2>3 DEF Analyse, TypeOK, ValsFitNext
<1>13. CASE RemoveSession
  BY <1>13, LoadSaveType DEF RemoveSession, TypeOK, ValsFitNext
<1>14. CASE UNCHANGED vars
  BY <1>14 DEF vars, TypeOK, ValsFitNext
<1> QED
  BY <1>1, <1>2, <1>3, <1>4, <1>5, <1>6, <1>7, <1>8, <1>9, <1>10, <1>11, <1>12,
     <1>13, <1>14, <1>15 DEF Next

\* So they are well-formed in every reachable state.
LEMMA TypeInvariant == Spec => []TypeInv
<1> QED
  BY InitTypeInv, NextTypeInv, PTL DEF Spec

\* Whatever requests arrive, fail or are dropped half way, file, request and tag
\* stay well-formed: the answers in memory are answers to questions of the survey,
\* and no posted value is read that is not there.
THEOREM TypeCorrect == Spec => []TypeOK
<1> QED
  BY TypeInvariant, PTL DEF TypeInv

(***************************************************************************)
(* Slots, and what a request in progress knows of the file.                *)
(***************************************************************************)

\* Only a file that is there has a state, and only a session that was created or
\* loaded is worked on.
ExistsInv == /\ file.state = SESSION_NULL => file = NoFile
             /\ work.op # "IDLE" => work.mem.state # SESSION_NULL

\* Adding answers leaves the given answers of the file given in memory; all other
\* requests leave in memory what is in the file, or less of it.
CopyInv ==
    /\ work.op = "ADDANSWER" =>
           \A i \in GivenSlots(file.answers) :
               i \in GivenSlots(work.mem.answers) /\ work.mem.answers[i] = file.answers[i]
    /\ work.op \in Op \ {"ADDANSWER"} =>
           /\ work.vals = <<>>
           /\ \A j \in GivenSlots(work.mem.answers) :
                  j \in GivenSlots(file.answers) /\ work.mem.answers[j] = file.answers[j]

\* A request to a closed session has changed nothing, and will not.
ClosedInv ==
    file.state = SESSION_CLOSED /\ work.op # "IDLE" =>
        /\ work.mem.state = SESSION_CLOSED
        /\ work.mem.answers = file.answers
        /\ work.vals = <<>>
        /\ work.op = "DELETEANSWER" => GivenSlots(file.answers) = {}

SlotsInv == UniqueSlots(file.answers) /\ UniqueSlots(work.mem.answers)

SessionInv == SlotsInv /\ ExistsInv /\ CopyInv /\ ClosedInv

\* With no request in progress there is little to say.
LEMMA IdleInv ==
    ASSUME file \in File, UniqueSlots(file.answers), file.state = SESSION_NULL => file = NoFile,
           work = Idle
    PROVE  SessionInv
<1>1. Idle.mem = Load(NoFile) /\ Idle.op = "IDLE"
  BY DEF Idle
<1>2. Load(NoFile).answers = <<>>
  BY LoadSaveType DEF NoFile
<1>3. UniqueSlots(<<>>)
  BY DEF UniqueSlots
<1> QED
  BY <1>1, <1>2, <1>3 DEF SessionInv, SlotsInv, ExistsInv, CopyInv, ClosedInv, Op

\* Without a session file the invariant holds.
LEMMA InitSessionInv == Init => SessionInv
<1> SUFFICES ASSUME Init PROVE SessionInv
  OBVIOUS
<1>1. file = NoFile /\ file \in File /\ work = Idle
  BY LoadSaveType DEF Init
<1>2. UniqueSlots(file.answers)
  BY <1>1 DEF NoFile, UniqueSlots
<1> QED
  BY <1>1, <1>2, IdleInv

\* What validate_session_action makes sure of, as far as it is needed here.
LEMMA VerifiedFacts ==
    ASSUME TypeOK, NEW op, Verified(op)
    PROVE  /\ work = Idle /\ file.state # SESSION_NULL
           /\ op \in {"ADDANSWER", "DELETEANSWER"} => file.state # SESSION_CLOSED
<1>1. file.state \in SessionState
  BY DEF TypeOK, File
<1>2. op = "ADDANSWER" => file.state < SESSION_CLOSED
  BY DEF Verified, ActionAllowed
<1>3. op = "DELETEANSWER" => file.state < SESSION_CLOSED
  BY DEF Verified, ActionAllowed
<1> QED
  BY <1>1, <1>2, <1>3 DEF Verified, Exists, SessionState, SESSION_NULL, SESSION_CLOSED

\* A DELETE begins with a session that validate_session_action let through, with
\* some given answers cut off and none added.
LEMMA BeginDeleteInv ==
    ASSUME TypeInv, SessionInv, NEW u, BeginDelete(u), Verified("DELETEANSWER")
    PROVE  SessionInv'
<1> DEFINE mem == DeleteAnswers(Load(file), {u})
<1>1. /\ Load(file) \in Memory
      /\ Load(file).answers = file.answers /\ Load(file).state = file.state
      /\ file.answers \in Seq(Answer)
  BY LoadSaveType DEF TypeInv, TypeOK, File
<1>2. mem.answers = Cut(file.answers, {u}) /\ mem.state = file.state
  BY <1>1, DeleteAnswersType
<1>3. work'.vals = <<>> /\ work'.op = "DELETEANSWER" /\ work'.mem = mem /\ file' = file
  BY BeginDeleteType DEF TypeInv
<1>4. file.state # SESSION_CLOSED /\ file.state # SESSION_NULL
  BY VerifiedFacts DEF TypeInv
<1> HIDE DEF mem
<1>5. SlotsInv'
  BY <1>1, <1>2, <1>3, CutUnique DEF SessionInv, SlotsInv
<1>6. ExistsInv'
  BY <1>2, <1>3, <1>4 DEF ExistsInv
<1>7. CopyInv'
  BY <1>1, <1>2, <1>3, CutGiven DEF CopyInv
<1>8. ClosedInv'
  BY <1>3, <1>4 DEF ClosedInv
<1> QED
  BY <1>5, <1>6, <1>7, <1>8 DEF SessionInv

\* A request that begins with the session as it was loaded.
LEMMA BeginLoadedInv ==
    ASSUME TypeInv, SessionInv, file.state # SESSION_NULL,
           work'.mem = Load(file), file' = file,
           \/ work'.op = "NEXTQUESTIONS" /\ work'.vals = <<>>
           \/ work'.op = "DELETEANSWER" /\ work'.vals = <<>> /\ GivenSlots(file.answers) = {}
           \/ work'.op = "ADDANSWER" /\ file.state # SESSION_CLOSED
    PROVE  SessionInv'
<1>1. Load(file).answers = file.answers /\ Load(file).state = file.state
  BY LoadSaveType DEF TypeInv, TypeOK
<1>2. SlotsInv'
  BY <1>1 DEF SessionInv, SlotsInv
<1>3. ExistsInv'
  BY <1>1 DEF SessionInv, ExistsInv
<1>4. CopyInv'
  BY <1>1 DEF CopyInv
<1>5. ClosedInv'
  BY <1>1 DEF ClosedInv
<1> QED
  BY <1>2, <1>3, <1>4, <1>5 DEF SessionInv

\* session_add_answer refuses a question that is answered and reuses the slot of
\* a deleted answer, so the loop over the posted answers keeps the invariant.
LEMMA AddAnswerStepInv ==
    ASSUME TypeInv, SessionInv, AddAnswerStep
    PROVE  SessionInv'
<1> DEFINE u == work.mem.next[work.at + 1]
           v == work.vals[work.at + 1]
           a == [uid |-> u, val |-> v, deleted |-> FALSE]
<1>1. /\ work \in Work /\ work.mem \in Memory /\ work.mem.answers \in Seq(Answer)
      /\ work.vals \in Seq(Value) /\ work.at \in Nat
      /\ work.mem.next \in Seq(Question)
  BY DEF TypeInv, TypeOK, Work, Memory
<1>2. file' = file /\ work.at < Len(work.vals)
  BY DEF AddAnswerStep
<1>3. work.vals # <<>> /\ Len(work.vals) = Len(work.mem.next)
  BY <1>1, <1>2 DEF TypeInv, ValsFitNext
<1>4. u \in Question /\ v \in Value
  <2>1. work.at + 1 \in 1..Len(work.vals)
    BY <1>1, <1>2
  <2> QED
    BY <1>1, <1>3, <2>1
<1>5. work.op \notin Op \ {"ADDANSWER"}
  BY <1>3 DEF SessionInv, CopyInv
<1>6. \/ work' = Idle
      \/ work'.mem = work.mem /\ work'.op = work.op
      \/ /\ Addable(work.mem, u)
         /\ work'.mem = AddAnswer(work.mem, u, v) /\ work'.op = work.op
  BY <1>1 DEF AddAnswerStep, Work
<1> HIDE DEF u, v
<1>7. CASE work' = Idle
  <2>1. file' \in File /\ UniqueSlots(file'.answers) /\ (file'.state = SESSION_NULL => file' = NoFile)
    BY <1>2 DEF TypeInv, TypeOK, SessionInv, SlotsInv, ExistsInv
  <2>2. /\ Idle.op = "IDLE" /\ Idle.mem.answers = <<>>
    BY LoadSaveType DEF Idle, NoFile
  <2> QED
    BY <1>7, <2>1, <2>2 DEF SessionInv, SlotsInv, ExistsInv, CopyInv, ClosedInv, Op, UniqueSlots
<1>8. CASE work'.mem = work.mem /\ work'.op = work.op
  BY <1>2, <1>3, <1>5, <1>8 DEF SessionInv, SlotsInv, ExistsInv, CopyInv, ClosedInv
<1>9. CASE /\ Addable(work.mem, u)
           /\ work'.mem = AddAnswer(work.mem, u, v) /\ work'.op = work.op
  <2>1. /\ a \in Answer /\ work'.mem.answers = Stored(work.mem.answers, a)
        /\ work'.mem.state = SESSION_OPEN
    BY <1>1, <1>4, <1>9, AddAnswerType
  <2>2. \A i \in SlotsOf(work.mem.answers, a.uid) : work.mem.answers[i].deleted
    BY <1>9 DEF Addable
  <2> HIDE DEF a
  <2>3. SlotsInv'
    BY <1>1, <1>2, <2>1, StoredUnique DEF SessionInv, SlotsInv
  <2>4. ExistsInv'
    BY <1>2, <2>1 DEF SessionInv, ExistsInv, SESSION_OPEN, SESSION_NULL
  <2>5. CopyInv'
    <3>1. \A i \in GivenSlots(work.mem.answers) :
              /\ i \in GivenSlots(work'.mem.answers)
              /\ work'.mem.answers[i] = work.mem.answers[i]
      BY <1>1, <2>1, <2>2, StoredKeepsGiven
    <3> QED
      BY <1>2, <1>5, <1>9, <3>1 DEF SessionInv, CopyInv
  <2>6. ClosedInv'
    BY <1>2, <1>3, <1>9 DEF SessionInv, ClosedInv
  <2> QED
    BY <2>3, <2>4, <2>5, <2>6 DEF SessionInv
<1> QED
  BY <1>6, <1>7, <1>8, <1>9

\* What Finish writes, by kind of request.
LEMMA FinishFacts ==
    ASSUME TypeInv, SessionInv, Finish
    PROVE  /\ work' = Idle /\ file' \in File /\ file'.state # SESSION_NULL
           /\ \/ work.op # "DELETEANSWER" /\ file'.answers = work.mem.answers
              \/ /\ work.op = "DELETEANSWER"
                 /\ \E us : file'.answers = Cut(work.mem.answers, us)
           /\ work.mem.state = SESSION_CLOSED => file'.state = SESSION_CLOSED
<1>1. work.mem \in Memory
  BY DEF TypeInv, TypeOK, Work
<1>2. PICK list \in Replies(work.mem) : file' = Save(Serve(work.mem, work.op, list))
  BY DEF Finish
<1>3. list \in Seq(Question)
  BY <1>1, RepliesType
<1> DEFINE m == Serve(work.mem, work.op, list)
<1>4. /\ m \in Memory
      /\ work.op = "DELETEANSWER" => m.answers = Cut(work.mem.answers, Listed(list))
      /\ work.op # "DELETEANSWER" => m.answers = work.mem.answers
      /\ work.mem.state = SESSION_CLOSED => m.state = SESSION_CLOSED
      /\ work.mem.state # SESSION_NULL => m.state # SESSION_NULL
  BY <1>1, <1>3, ServeType
<1> HIDE DEF m
<1>5. file' = Save(m)
  BY <1>2 DEF m
<1>6. file' \in File /\ file'.answers = m.answers /\ file'.state = m.state
  BY <1>4, <1>5, LoadSaveType DEF Save
<1>7. work.mem.state # SESSION_NULL
  BY DEF Finish, SessionInv, ExistsInv
<1>8. work' = Idle
  BY DEF Finish
<1> QED
  BY <1>4, <1>6, <1>7, <1>8

\* Saving the session at the end of a request keeps the invariant.
LEMMA FinishInv ==
    ASSUME TypeInv, SessionInv, Finish
    PROVE  SessionInv'
<1>1. work.mem.answers \in Seq(Answer)
  BY DEF TypeInv, TypeOK, Work, Memory
<1>2. UniqueSlots(file'.answers)
  BY <1>1, FinishFacts, CutUnique DEF SessionInv, SlotsInv
<1>3. /\ file' \in File /\ work' = Idle
      /\ file'.state # SESSION_NULL
  BY FinishFacts
<1>4. Idle.op = "IDLE" /\ Idle.mem.answers = <<>>
  BY LoadSaveType DEF Idle, NoFile
<1> QED
  BY <1>2, <1>3, <1>4 DEF SessionInv, SlotsInv, ExistsInv, CopyInv, ClosedInv, Op, UniqueSlots

\* Every step of every handler keeps the invariant.
LEMMA NextSessionInv == TypeInv /\ SessionInv /\ [Next]_vars => SessionInv'
<1> SUFFICES ASSUME TypeInv, SessionInv, [Next]_vars
             PROVE  SessionInv'
  OBVIOUS
<1> USE DEF TypeInv
<1>1. CASE CreateSession
  <2> DEFINE mem == [Load(NoFile) EXCEPT !.state = SESSION_NEW]
  <2>1. Load(NoFile) \in Memory /\ Load(NoFile).answers = <<>>
    BY LoadSaveType DEF NoFile
  <2>2. mem.answers = <<>> /\ mem.state = SESSION_NEW
    <3> HIDE DEF SESSION_NEW
    <3> QED
      BY <2>1 DEF Memory
  <2>3. work' = Begin("NEWSESSION", mem, <<>>, 0) /\ file' = file /\ file.state = SESSION_NULL
    BY <1>1 DEF CreateSession, Exists
  <2> HIDE DEF mem
  <2>4. work'.op = "NEWSESSION" /\ work'.vals = <<>> /\ work'.mem = mem
    BY <2>3 DEF Begin
  <2>5. GivenSlots(<<>>) = {}
    BY DEF GivenSlots
  <2> QED
    BY <2>2, <2>3, <2>4, <2>5
    DEF SessionInv, SlotsInv, ExistsInv, CopyInv, ClosedInv, UniqueSlots,
        SESSION_NULL, SESSION_NEW, SESSION_CLOSED
<1>2. CASE GetQuestions
  <2>1. /\ work' = Begin("NEXTQUESTIONS", Load(file), <<>>, 0)
        /\ file' = file /\ file.state # SESSION_NULL
    BY <1>2 DEF GetQuestions, Verified, Exists
  <2> QED
    BY <2>1, BeginLoadedInv DEF Begin
<1>3. CASE PostAnswers
  <2>1. PICK vals \in [1..Len(file.next) -> Value] :
            work' = Begin("ADDANSWER", Load(file), vals, 0)
    BY <1>3 DEF PostAnswers
  <2>2. file' = file /\ Verified("ADDANSWER")
    BY <1>3 DEF PostAnswers
  <2>3. file.state # SESSION_NULL /\ file.state # SESSION_CLOSED
    BY <2>2, VerifiedFacts
  <2> QED
    BY <2>1, <2>2, <2>3, BeginLoadedInv DEF Begin
<1>17. CASE CliAddAnswer
  BY <1>3, <1>17, CliAddsLikePost
<1>4. CASE AddAnswerStep
  BY <1>4, AddAnswerStepInv
<1>5. CASE DeleteAnswer
  BY <1>5, BeginDeleteInv DEF DeleteAnswer
<1>6. ASSUME BeginDeleteNothing, file.state # SESSION_NULL
      PROVE  SessionInv'
  BY <1>6, BeginDeleteNothingType, BeginLoadedInv DEF BeginDeleteNothing
<1>7. CASE DeletePrevious
  BY <1>6, <1>7, BeginDeleteInv DEF DeletePrevious, Verified, Exists
<1>8. CASE CliDeleteAnswer
  BY <1>8, BeginDeleteInv DEF CliDeleteAnswer
<1>9. CASE CliDeletePrevious
  BY <1>6, <1>9, BeginDeleteInv DEF CliDeletePrevious, Verified, Exists
<1>10. CASE Finish
  BY <1>10, FinishInv
<1>11. ASSUME work' = Idle, file' \in File, UniqueSlots(file'.answers),
              file'.state = SESSION_NULL => file' = NoFile
       PROVE  SessionInv'
  <2>1. Idle.op = "IDLE" /\ Idle.mem.answers = <<>>
    BY LoadSaveType DEF Idle, NoFile
  <2> QED
    BY <1>11, <2>1 DEF SessionInv, SlotsInv, ExistsInv, CopyInv, ClosedInv, Op, UniqueSlots
<1>12. CASE Abandon
  BY <1>11, <1>12 DEF Abandon, TypeOK, SessionInv, SlotsInv, ExistsInv
<1>13. CASE HeadRequest
  BY <1>13 DEF HeadRequest, SessionInv, SlotsInv, ExistsInv, CopyInv, ClosedInv
<1>14. CASE Analyse
  <2>1. file.state # SESSION_NULL /\ work = Idle /\ work' = work
    BY <1>14, VerifiedFacts DEF Analyse
  <2>2. file' = file \/ file' = [file EXCEPT !.state = SESSION_CLOSED]
    BY <1>14 DEF Analyse
  <2>3. /\ file'.answers = file.answers /\ file'.state # SESSION_NULL
        /\ file' \in File
    <3>1. SESSION_CLOSED \in SessionState /\ SESSION_CLOSED # SESSION_NULL
      BY DEF SESSION_CLOSED, SessionState, SESSION_NULL
    <3> HIDE DEF SESSION_CLOSED, SESSION_NULL
    <3> QED
      BY <2>1, <2>2, <3>1 DEF TypeOK, File
  <2> QED
    BY <1>11, <2>1, <2>3 DEF SessionInv, SlotsInv
<1>15. CASE RemoveSession
  <2>1. UniqueSlots(NoFile.answers)
    BY DEF UniqueSlots, NoFile
  <2> QED
    BY <1>11, <1>15, <2>1, LoadSaveType DEF RemoveSession
<1>16. CASE UNCHANGED vars
  BY <1>16 DEF vars, SessionInv, SlotsInv, ExistsInv, CopyInv, ClosedInv
<1> QED
  BY <1>1, <1>2, <1>3, <1>4, <1>5, <1>7, <1>8, <1>9, <1>10, <1>12, <1>13, <1>14,
     <1>15, <1>16, <1>17 DEF Next

\* So it holds in every reachable state, together with the types.
LEMMA SessionInvariant == Spec => [](TypeInv /\ SessionInv)
<1> QED
  BY InitTypeInv, NextTypeInv, InitSessionInv, NextSessionInv, PTL DEF Spec

\* No sequence of additions, deletions and re-additions, over any number of
\* requests, gives a question two slots, in the file or in memory.
THEOREM OneSlot == Spec => []OneSlotPerQuestion
<1>1. TypeInv /\ SessionInv => OneSlotPerQuestion
  BY DEF SessionInv, SlotsInv, UniqueSlots, OneSlotPerQuestion, Sessions, Save
<1> QED
  BY <1>1, SessionInvariant, PTL

\* A closed session is never changed again, by any request in any interface: the
\* ones that validate_session_action lets through find nothing to change.
THEOREM ClosedFrozen == Spec => ClosedIsFrozen
<1> DEFINE Frozen == file.state = SESSION_CLOSED /\ file' # NoFile =>
                         file'.state = SESSION_CLOSED /\ file'.answers = file.answers
<1>1. TypeInv /\ SessionInv /\ [Next]_vars => Frozen
  <2> SUFFICES ASSUME TypeInv, SessionInv, [Next]_vars, file.state = SESSION_CLOSED,
                      file' # NoFile
               PROVE  file'.state = SESSION_CLOSED /\ file'.answers = file.answers
    OBVIOUS
  <2>1. CASE file' = file
    BY <2>1
  <2>2. CASE Finish
    <3>1. work.op # "IDLE"
      BY <2>2 DEF Finish
    <3>2. /\ work.mem.state = SESSION_CLOSED /\ work.mem.answers = file.answers
          /\ work.op = "DELETEANSWER" => GivenSlots(file.answers) = {}
      BY <3>1 DEF SessionInv, ClosedInv
    <3>3. file.answers \in Seq(Answer)
      BY DEF TypeInv, TypeOK, File
    <3> QED
      BY <2>2, <3>2, <3>3, FinishFacts, CutNothing
  <2>3. CASE Analyse
    BY <2>3 DEF Analyse
  <2>4. CASE RemoveSession
    BY <2>4 DEF RemoveSession
  <2> QED
    BY <2>1, <2>2, <2>3, <2>4
    DEF Next, vars, CreateSession, GetQuestions, PostAnswers, CliAddAnswer, AddAnswerStep,
        DeleteAnswer, DeletePrevious, CliDeleteAnswer, CliDeletePrevious, BeginDelete, BeginDeleteNothing,
        Abandon, HeadRequest
<1> QED
  BY <1>1, SessionInvariant, PTL DEF Spec, ClosedIsFrozen

\* No request overwrites an answer: while a question stays answered, from one
\* version of the file to the next, it is the same answer.
THEOREM GivenKept == Spec => GivenAnswersKept
<1> DEFINE Kept == \A i \in GivenSlots(file.answers) : \A j \in GivenSlots(file'.answers) :
                       file.answers[i].uid = file'.answers[j].uid =>
                           file.answers[i] = file'.answers[j]
<1>1. TypeInv /\ SessionInv /\ [Next]_vars => Kept
  <2> SUFFICES ASSUME TypeInv, SessionInv, [Next]_vars,
                      NEW i \in GivenSlots(file.answers), NEW j \in GivenSlots(file'.answers),
                      file.answers[i].uid = file'.answers[j].uid
               PROVE  file.answers[i] = file'.answers[j]
    OBVIOUS
  <2>0. /\ i \in 1..Len(file.answers)
        /\ file.answers \in Seq(Answer) /\ work.mem.answers \in Seq(Answer)
    BY DEF GivenSlots, TypeInv, TypeOK, File, Work, Memory
  <2>1. CASE file'.answers = file.answers
    BY <2>0, <2>1 DEF GivenSlots, SessionInv, SlotsInv, UniqueSlots
  <2>2. CASE Finish
    <3>1. work.op \in Op
      BY <2>2 DEF Finish, TypeInv, TypeOK, Work
    <3>2. j \in GivenSlots(work.mem.answers) /\ file'.answers[j] = work.mem.answers[j]
      BY <2>0, <2>2, FinishFacts, CutGiven
    <3>3. CASE work.op = "ADDANSWER"
      <4>1. i \in GivenSlots(work.mem.answers) /\ work.mem.answers[i] = file.answers[i]
        BY <3>3 DEF SessionInv, CopyInv
      <4> QED
        BY <3>2, <4>1 DEF GivenSlots, SessionInv, SlotsInv, UniqueSlots
    <3>4. CASE work.op # "ADDANSWER"
      <4>1. j \in GivenSlots(file.answers) /\ work.mem.answers[j] = file.answers[j]
        BY <3>1, <3>2, <3>4 DEF SessionInv, CopyInv
      <4> QED
        BY <3>2, <4>1 DEF GivenSlots, SessionInv, SlotsInv, UniqueSlots
    <3> QED
      BY <3>3, <3>4
  <2>3. CASE Analyse
    <3>1. file'.answers = file.answers
      BY <2>3 DEF Analyse, TypeInv, TypeOK, File
    <3> QED
      BY <2>1, <3>1
  <2>4. CASE RemoveSession
    <3>1. GivenSlots(file'.answers) = {}
      BY <2>4 DEF RemoveSession, NoFile, GivenSlots
    <3> QED
      BY <3>1
  <2> QED
    BY <2>1, <2>2, <2>3, <2>4
    DEF Next, vars, CreateSession, GetQuestions, PostAnswers, CliAddAnswer, AddAnswerStep,
        DeleteAnswer, DeletePrevious, CliDeleteAnswer, CliDeletePrevious, BeginDelete, BeginDeleteNothing,
        Abandon, HeadRequest
<1> QED
  BY <1>1, SessionInvariant, PTL DEF Spec, GivenAnswersKept

(***************************************************************************)
(* The count of given answers.                                             *)
(***************************************************************************)

Exact(m) == m.count = Cardinality(GivenSlots(m.answers))

\* load_session counts what it has read.
LEMMA LoadExact == \A f \in File : Exact(Load(f))
BY DEF Load, Exact

\* session_add_answer counts one up, for the slot that it gives.
LEMMA AddAnswerExact ==
    ASSUME NEW m \in Memory, NEW u \in Question, NEW v \in Value,
           UniqueSlots(m.answers), Addable(m, u), Exact(m)
    PROVE  Exact(AddAnswer(m, u, v))
<1> DEFINE a == [uid |-> u, val |-> v, deleted |-> FALSE]
<1>1. a \in Answer /\ ~a.deleted /\ a.uid = u
  BY DEF Answer
<1>2. \A i \in SlotsOf(m.answers, a.uid) : m.answers[i].deleted
  BY DEF Addable
<1>3. m.answers \in Seq(Answer)
  BY DEF Memory
<1>4. /\ AddAnswer(m, u, v).answers = Stored(m.answers, a)
      /\ AddAnswer(m, u, v).count = m.count + 1
  BY DEF AddAnswer, Memory
<1> HIDE DEF a
<1> QED
  BY <1>1, <1>2, <1>3, <1>4, StoredCount DEF Exact

\* session_delete_answer counts down what it takes away.
LEMMA DeleteAnswersExact ==
    ASSUME NEW m \in Memory, NEW us, Exact(m)
    PROVE  Exact(DeleteAnswers(m, us))
<1> DEFINE cut == Cut(m.answers, us)
           D   == GivenSlots(m.answers) \ GivenSlots(cut)
           kept == DeleteAnswers(m, us)
<1>1. m.answers \in Seq(Answer)
  BY DEF Memory
<1>2. kept.answers = cut /\ kept.count = m.count - Cardinality(D)
  BY DeleteAnswersType, Zenon
<1>3. Cardinality(GivenSlots(cut)) = Cardinality(GivenSlots(m.answers)) - Cardinality(D)
  BY <1>1, CutCount, Zenon
<1> HIDE DEF cut, D, kept
<1>4. Exact(kept)
  BY <1>2, <1>3 DEF Exact
<1> QED
  BY <1>4 DEF kept

\* One round over the posted answers counts one up or nothing.
LEMMA AddAnswerStepExact ==
    ASSUME TypeInv, SessionInv, CountIsExact, AddAnswerStep
    PROVE  CountIsExact'
<1> DEFINE u == work.mem.next[work.at + 1]
           v == work.vals[work.at + 1]
<1>1. /\ work \in Work /\ work.mem \in Memory
      /\ work.vals \in Seq(Value) /\ work.at \in Nat
      /\ work.mem.next \in Seq(Question)
  BY DEF TypeInv, TypeOK, Work, Memory
<1>2. work.at + 1 \in 1..Len(work.vals) /\ work.vals # <<>>
  BY <1>1 DEF AddAnswerStep
<1>3. u \in Question /\ v \in Value
  BY <1>1, <1>2 DEF TypeInv, ValsFitNext
<1>4. \/ work' = Idle
      \/ work'.mem = work.mem
      \/ Addable(work.mem, u) /\ work'.mem = AddAnswer(work.mem, u, v)
  BY <1>1 DEF AddAnswerStep, Work
<1> HIDE DEF u, v
<1>5. CASE work' = Idle
  BY <1>5, LoadExact, LoadSaveType DEF CountIsExact, Exact, Idle
<1>6. CASE work'.mem = work.mem
  BY <1>6 DEF CountIsExact
<1>7. CASE Addable(work.mem, u) /\ work'.mem = AddAnswer(work.mem, u, v)
  BY <1>1, <1>3, <1>7, AddAnswerExact DEF CountIsExact, Exact, SessionInv, SlotsInv
<1> QED
  BY <1>4, <1>5, <1>6, <1>7

\* Every step of every handler keeps the count exact.
LEMMA NextExact == TypeInv /\ SessionInv /\ CountIsExact /\ [Next]_vars => CountIsExact'
<1> SUFFICES ASSUME TypeInv, SessionInv, CountIsExact, [Next]_vars
             PROVE  CountIsExact'
  OBVIOUS
<1>1. file \in File /\ Load(file) \in Memory
  BY LoadSaveType DEF TypeInv, TypeOK
<1>2. ASSUME work'.mem = Load(file) PROVE CountIsExact'
  BY <1>1, <1>2, LoadExact DEF CountIsExact, Exact
<1>3. ASSUME work' = Idle PROVE CountIsExact'
  BY <1>3, LoadExact, LoadSaveType DEF CountIsExact, Exact, Idle
<1>4. CASE CreateSession
  <2>1. /\ Load(NoFile) \in Memory /\ Exact(Load(NoFile))
        /\ work'.mem = [Load(NoFile) EXCEPT !.state = SESSION_NEW]
    BY <1>4, LoadExact, LoadSaveType DEF CreateSession, Begin
  <2>2. work'.mem.count = Load(NoFile).count /\ work'.mem.answers = Load(NoFile).answers
    BY <2>1 DEF Memory
  <2> QED
    BY <2>1, <2>2 DEF CountIsExact, Exact
<1>5. CASE GetQuestions
  BY <1>2, <1>5 DEF GetQuestions, Begin
<1>6. CASE PostAnswers
  BY <1>2, <1>6 DEF PostAnswers, Begin
<1>13. CASE CliAddAnswer
  BY <1>6, <1>13, CliAddsLikePost
<1>7. CASE AddAnswerStep
  BY <1>7, AddAnswerStepExact
<1>8. ASSUME NEW u, BeginDelete(u) PROVE CountIsExact'
  <2>1. work'.mem = DeleteAnswers(Load(file), {u})
    BY <1>8 DEF BeginDelete, Begin
  <2> QED
    BY <1>1, <2>1, LoadExact, DeleteAnswersExact DEF CountIsExact, Exact
<1>9. ASSUME BeginDeleteNothing PROVE CountIsExact'
  BY <1>2, <1>9 DEF BeginDeleteNothing, Begin
<1>10. CASE DeleteAnswer \/ DeletePrevious \/ CliDeleteAnswer \/ CliDeletePrevious
  BY <1>8, <1>9, <1>10 DEF DeleteAnswer, DeletePrevious, CliDeleteAnswer, CliDeletePrevious
<1>11. CASE Finish \/ Abandon
  BY <1>3, <1>11 DEF Finish, Abandon
<1>12. CASE HeadRequest \/ Analyse \/ RemoveSession \/ UNCHANGED vars
  BY <1>12 DEF HeadRequest, Analyse, RemoveSession, vars, CountIsExact
<1> QED
  BY <1>4, <1>5, <1>6, <1>7, <1>10, <1>11, <1>12, <1>13 DEF Next

\* given_answer_count, kept by counting up and down beside the answers, is their
\* number whatever is answered, deleted and answered again: the list that
\* py_create_answers_list makes of it has the right size.
THEOREM CountExact == Spec => []CountIsExact
<1>1. Init => CountIsExact
  BY LoadExact, LoadSaveType DEF Init, CountIsExact, Exact, Idle
<1> QED
  BY <1>1, NextExact, SessionInvariant, PTL DEF Spec

(***************************************************************************)
(* The list of next questions in the file.                                 *)
(***************************************************************************)

\* Only the end of a request, the analysis and delsession touch the file.
LEMMA FileSteps == [Next]_vars => file' = file \/ Finish \/ Analyse \/ RemoveSession
BY DEF Next, vars, CreateSession, GetQuestions, PostAnswers, CliAddAnswer, AddAnswerStep,
       DeleteAnswer, DeletePrevious, CliDeleteAnswer, CliDeletePrevious, BeginDelete,
       BeginDeleteNothing, Abandon, HeadRequest

\* The file that Finish writes, from the list that the controller returned.
LEMMA FinishServes ==
    ASSUME TypeInv, Finish
    PROVE  \E list \in Replies(work.mem) :
               /\ list \in Seq(Question)
               /\ file' = Save(Serve(work.mem, work.op, list))
               /\ file' \in File
               /\ file'.next = list
               /\ file'.state = ServedState(work.mem.state, list)
               /\ file'.answers = IF work.op = "DELETEANSWER"
                                  THEN Cut(work.mem.answers, Listed(list))
                                  ELSE work.mem.answers
<1>1. work.mem \in Memory
  BY DEF TypeInv, TypeOK, Work
<1>2. PICK list \in Replies(work.mem) : file' = Save(Serve(work.mem, work.op, list))
  BY DEF Finish
<1>3. list \in Seq(Question)
  BY <1>1, RepliesType
<1> DEFINE m == Serve(work.mem, work.op, list)
<1>4. /\ m \in Memory /\ m.next = list
      /\ work.op = "DELETEANSWER" => m.answers = Cut(work.mem.answers, Listed(list))
      /\ work.op # "DELETEANSWER" => m.answers = work.mem.answers
  BY <1>1, <1>3, ServeType
<1>5. m.state = ServedState(work.mem.state, list)
  BY <1>1, <1>3, ServeState
<1>6. file' = Save(m)
  BY <1>2
<1> HIDE DEF m
<1>7. /\ file' \in File /\ file'.next = m.next
      /\ file'.answers = m.answers /\ file'.state = m.state
  BY <1>4, <1>6, LoadSaveType DEF Save
<1> QED
  BY <1>2, <1>3, <1>4, <1>5, <1>7

\* The first analysis closes the session and leaves the rest of it alone.
LEMMA AnalyseFacts ==
    ASSUME TypeInv, Analyse
    PROVE  /\ file.state \in {SESSION_FINISHED, SESSION_CLOSED}
           /\ file'.state = SESSION_CLOSED
           /\ file'.answers = file.answers /\ file'.next = file.next
           /\ work = Idle /\ work' = Idle
<1>1. file \in File /\ file.state \in SessionState
  BY DEF TypeInv, TypeOK, File
<1>2. file.state >= SESSION_FINISHED
  BY DEF Analyse, Verified, ActionAllowed
<1>3. file.state \in {SESSION_FINISHED, SESSION_CLOSED}
  BY <1>1, <1>2 DEF SessionState, SESSION_NULL, SESSION_FINISHED, SESSION_CLOSED
<1>4. \/ file.state = SESSION_CLOSED /\ file' = file
      \/ file' = [file EXCEPT !.state = SESSION_CLOSED]
  BY <1>3 DEF Analyse, SESSION_FINISHED, SESSION_CLOSED
<1>5. file'.state = SESSION_CLOSED /\ file'.answers = file.answers /\ file'.next = file.next
  <2> HIDE DEF SESSION_CLOSED
  <2> QED
    BY <1>1, <1>4 DEF File
<1> QED
  BY <1>3, <1>5 DEF Analyse, Verified

\* Whatever list a controller returns, and in whatever state it is asked, the file
\* says of an unfinished session which question is next and of a finished one that
\* there is none: get_next_questions sets the list and the state together.
THEOREM NextFits == Spec => []StateFitsNext
<1>1. Init => StateFitsNext
  BY DEF Init, StateFitsNext, NoFile, SESSION_NULL, SESSION_NEW, SESSION_OPEN, SESSION_FINISHED
<1>2. TypeInv /\ StateFitsNext /\ [Next]_vars => StateFitsNext'
  <2> SUFFICES ASSUME TypeInv, StateFitsNext, [Next]_vars
               PROVE  StateFitsNext'
    OBVIOUS
  <2>1. CASE file' = file
    BY <2>1 DEF StateFitsNext
  <2>2. CASE Finish
    <3>1. PICK list \in Seq(Question) :
              file'.next = list /\ file'.state = ServedState(work.mem.state, list)
      BY <2>2, FinishServes
    <3> QED
      BY <3>1 DEF StateFitsNext, ServedState, SESSION_NEW, SESSION_OPEN, SESSION_FINISHED
  <2>3. CASE Analyse
    BY <2>3, AnalyseFacts DEF StateFitsNext, SESSION_NEW, SESSION_OPEN, SESSION_FINISHED,
                              SESSION_CLOSED
  <2>4. CASE RemoveSession
    BY <2>4 DEF RemoveSession, NoFile, StateFitsNext, SESSION_NULL, SESSION_NEW, SESSION_OPEN,
                SESSION_FINISHED
  <2> QED
    BY <2>1, <2>2, <2>3, <2>4, FileSteps
<1> QED
  BY <1>1, <1>2, TypeInvariant, PTL DEF Spec

(***************************************************************************)
(* What each kind of request has in memory, compared with the file.        *)
(***************************************************************************)

\* A new session is empty, a query has the file, answers are only added where
\* validate_session_action lets them, and a deletion holds what the first cut
\* left of the file: all of it, or less.
LoadedInv ==
    /\ work.op = "NEWSESSION" =>
           /\ file = NoFile
           /\ work.mem.state = SESSION_NEW /\ work.mem.answers = <<>>
    /\ work.op = "NEXTQUESTIONS" => work.mem = Load(file)
    /\ work.op = "ADDANSWER" =>
           /\ file.state \in {SESSION_NEW, SESSION_OPEN}
           /\ work.mem.next = file.next
    /\ work.op = "DELETEANSWER" =>
           /\ work.mem.state = file.state
           /\ \/ work.mem.answers = file.answers
              \/ /\ file.state \in {SESSION_OPEN, SESSION_FINISHED}
                 /\ CutFrom(file.answers, work.mem.answers)
                 /\ GivenSlots(work.mem.answers) # GivenSlots(file.answers)

\* Which states validate_session_action lets an answer be added or deleted in.
LEMMA ChangeAllowed ==
    ASSUME TypeOK
    PROVE  /\ Verified("ADDANSWER") => file.state \in {SESSION_NEW, SESSION_OPEN}
           /\ Verified("DELETEANSWER") => file.state \in {SESSION_OPEN, SESSION_FINISHED}
<1>1. file.state \in SessionState
  BY DEF TypeOK, File
<1>2. Verified("ADDANSWER") => /\ file.state # SESSION_NULL
                               /\ file.state # SESSION_FINISHED /\ file.state < SESSION_CLOSED
  BY DEF Verified, Exists, ActionAllowed
<1>3. Verified("DELETEANSWER") => file.state > SESSION_NEW /\ file.state < SESSION_CLOSED
  BY DEF Verified, ActionAllowed
<1> QED
  BY <1>1, <1>2, <1>3 DEF SessionState, SESSION_NULL, SESSION_NEW, SESSION_OPEN,
                          SESSION_FINISHED, SESSION_CLOSED

\* A DELETE with something to delete holds a real cut of the file.
LEMMA BeginDeleteLoaded ==
    ASSUME TypeOK, NEW u, BeginDelete(u), Verified("DELETEANSWER")
    PROVE  LoadedInv'
<1> DEFINE mem == DeleteAnswers(Load(file), {u})
<1>1. /\ Load(file) \in Memory
      /\ Load(file).answers = file.answers /\ Load(file).state = file.state
      /\ file.answers \in Seq(Answer)
  BY LoadSaveType DEF TypeOK, File
<1>2. mem.answers = Cut(file.answers, {u}) /\ mem.state = file.state
  BY <1>1, DeleteAnswersType
<1>3. work'.op = "DELETEANSWER" /\ work'.mem = mem /\ file' = file
  BY BeginDeleteType
<1>4. u \in Given(file.answers)
  BY DEF BeginDelete
<1> HIDE DEF mem
<1>5. CutFrom(file.answers, mem.answers)
  BY <1>1, <1>2, CutIsFrom
<1>6. GivenSlots(mem.answers) # GivenSlots(file.answers)
  BY <1>1, <1>2, <1>4, CutTakes
<1> QED
  BY <1>2, <1>3, <1>5, <1>6, ChangeAllowed DEF LoadedInv

\* Every step of every handler keeps it.
LEMMA NextLoadedInv == TypeInv /\ SessionInv /\ LoadedInv /\ [Next]_vars => LoadedInv'
<1> SUFFICES ASSUME TypeInv, SessionInv, LoadedInv, [Next]_vars
             PROVE  LoadedInv'
  OBVIOUS
<1>1. /\ TypeOK /\ file \in File /\ Load(file) \in Memory
      /\ Load(file).answers = file.answers /\ Load(file).state = file.state
      /\ Load(file).next = file.next
  BY LoadSaveType DEF TypeInv, TypeOK
<1>2. ASSUME work' = Idle PROVE LoadedInv'
  BY <1>2, IdleType DEF LoadedInv
<1>3. CASE CreateSession
  <2> DEFINE mem == [Load(NoFile) EXCEPT !.state = SESSION_NEW]
  <2>1. Load(NoFile) \in Memory /\ Load(NoFile).answers = <<>>
    BY LoadSaveType DEF NoFile
  <2>2. mem.answers = <<>> /\ mem.state = SESSION_NEW
    <3> HIDE DEF SESSION_NEW
    <3> QED
      BY <2>1 DEF Memory
  <2>3. work' = Begin("NEWSESSION", mem, <<>>, 0) /\ file' = file /\ file.state = SESSION_NULL
    BY <1>3 DEF CreateSession, Exists
  <2> HIDE DEF mem
  <2>4. work'.op = "NEWSESSION" /\ work'.mem = mem
    BY <2>3 DEF Begin
  <2> QED
    BY <2>2, <2>3, <2>4 DEF LoadedInv, SessionInv, ExistsInv
<1>4. CASE GetQuestions
  BY <1>1, <1>4 DEF GetQuestions, Begin, LoadedInv
<1>5. CASE PostAnswers
  BY <1>1, <1>5, ChangeAllowed DEF PostAnswers, Begin, LoadedInv
<1>6. CASE CliAddAnswer
  BY <1>5, <1>6, CliAddsLikePost
<1>7. CASE AddAnswerStep
  <2> DEFINE u == work.mem.next[work.at + 1]
             v == work.vals[work.at + 1]
  <2>1. /\ work \in Work /\ work.mem \in Memory
        /\ work.vals \in Seq(Value) /\ work.at \in Nat
        /\ work.mem.next \in Seq(Question)
    BY DEF TypeInv, TypeOK, Work, Memory
  <2>2. work.at + 1 \in 1..Len(work.vals) /\ work.vals # <<>> /\ file' = file
    BY <1>7, <2>1 DEF AddAnswerStep
  <2>3. u \in Question /\ v \in Value
    BY <2>1, <2>2 DEF TypeInv, ValsFitNext
  <2>4. \/ work' = Idle
        \/ /\ work'.op = work.op
           /\ work'.mem \in {work.mem, AddAnswer(work.mem, u, v)}
    BY <1>7, <2>1 DEF AddAnswerStep, Work
  <2> HIDE DEF u, v
  <2>5. AddAnswer(work.mem, u, v).next = work.mem.next
    BY <2>1, <2>3, AddAnswerType
  <2>6. work.op \in Op \cup {"IDLE"} /\ work.op \notin Op \ {"ADDANSWER"}
    BY <2>1, <2>2 DEF Work, SessionInv, CopyInv
  <2>7. work.op \in {"ADDANSWER", "IDLE"}
    BY <2>6 DEF Op
  <2> QED
    BY <1>2, <2>2, <2>4, <2>5, <2>7 DEF LoadedInv
<1>8. ASSUME BeginDeleteNothing PROVE LoadedInv'
  BY <1>1, <1>8, BeginDeleteNothingType DEF LoadedInv
<1>9. CASE DeleteAnswer \/ DeletePrevious \/ CliDeleteAnswer \/ CliDeletePrevious
  BY <1>1, <1>8, <1>9, BeginDeleteLoaded
  DEF DeleteAnswer, DeletePrevious, CliDeleteAnswer, CliDeletePrevious
<1>10. CASE Finish \/ Abandon
  BY <1>2, <1>10 DEF Finish, Abandon
<1>11. CASE HeadRequest
  BY <1>11 DEF HeadRequest, LoadedInv
<1>12. CASE Analyse \/ RemoveSession
  BY <1>2, <1>12 DEF Analyse, RemoveSession, Verified
<1>13. CASE UNCHANGED vars
  BY <1>13 DEF vars, LoadedInv
<1> QED
  BY <1>3, <1>4, <1>5, <1>6, <1>7, <1>9, <1>10, <1>11, <1>12, <1>13 DEF Next

\* So it holds in every reachable state, together with what was proved before.
LEMMA LoadedInvariant == Spec => [](TypeInv /\ SessionInv /\ LoadedInv)
<1>1. Init => LoadedInv
  BY IdleType DEF Init, LoadedInv
<1> QED
  BY <1>1, NextLoadedInv, SessionInvariant, PTL DEF Spec

(***************************************************************************)
(* Deletions.                                                              *)
(***************************************************************************)

\* A DELETE only cuts the file, the deletions of add_next_question included; a
\* query writes the answers back, the other requests keep the given answers.
LEMMA FinishCuts ==
    ASSUME TypeInv, SessionInv, LoadedInv, Finish
    PROVE  /\ file.answers \in Seq(Answer) /\ file'.answers \in Seq(Answer)
           /\ \/ /\ work.op \in {"DELETEANSWER", "NEXTQUESTIONS"}
                 /\ CutFrom(file.answers, file'.answers)
              \/ /\ work.op \in {"NEWSESSION", "ADDANSWER"}
                 /\ \A i \in GivenSlots(file.answers) :
                        i \in GivenSlots(file'.answers) /\ file'.answers[i] = file.answers[i]
<1>1. /\ work \in Work /\ work.mem.answers \in Seq(Answer)
      /\ file \in File /\ file.answers \in Seq(Answer)
  BY DEF TypeInv, TypeOK, Work, Memory, File
<1>2. PICK list : /\ file' \in File
                  /\ file'.answers = IF work.op = "DELETEANSWER"
                                     THEN Cut(work.mem.answers, Listed(list))
                                     ELSE work.mem.answers
  BY FinishServes
<1>3. file'.answers \in Seq(Answer)
  BY <1>2 DEF File
<1>4. CASE work.op = "DELETEANSWER"
  <2>1. CutFrom(file.answers, work.mem.answers)
    BY <1>4, CutFromSame DEF LoadedInv
  <2>2. CutFrom(work.mem.answers, file'.answers)
    BY <1>1, <1>2, <1>4, CutIsFrom
  <2> QED
    BY <1>1, <1>3, <1>4, <2>1, <2>2, CutFromTwice
<1>5. CASE work.op = "NEXTQUESTIONS"
  <2>1. file'.answers = file.answers
    BY <1>1, <1>2, <1>5, LoadSaveType DEF LoadedInv
  <2> QED
    BY <1>1, <1>3, <1>5, <2>1, CutFromSame
<1>6. CASE work.op = "ADDANSWER"
  BY <1>1, <1>2, <1>3, <1>6 DEF SessionInv, CopyInv
<1>7. CASE work.op = "NEWSESSION"
  <2>1. GivenSlots(file.answers) = {}
    BY <1>7 DEF LoadedInv, NoFile, GivenSlots
  <2> QED
    BY <1>1, <1>3, <1>7, <2>1
<1> QED
  BY <1>1, <1>4, <1>5, <1>6, <1>7 DEF Finish, Work, Op

\* Deletion is never selective: whichever answer disappears from the file, by the
\* request's own deletion, by the next questions or by both one after the other,
\* the answers stored after it disappear with it (#462).
THEOREM RestIsTaken == Spec => DeletionTakesTheRest
<1> DEFINE Taken == file' # NoFile =>
                      \A i \in GivenSlots(file.answers) :
                        file.answers[i].uid \notin Given(file'.answers) =>
                          \A j \in GivenSlots(file.answers) : j > i =>
                            file.answers[j].uid \notin Given(file'.answers)
<1>1. TypeInv /\ SessionInv /\ LoadedInv /\ [Next]_vars => Taken
  <2> SUFFICES ASSUME TypeInv, SessionInv, LoadedInv, [Next]_vars, file' # NoFile,
                      NEW i \in GivenSlots(file.answers),
                      file.answers[i].uid \notin Given(file'.answers),
                      NEW j \in GivenSlots(file.answers), j > i,
                      file.answers[j].uid \in Given(file'.answers)
               PROVE  FALSE
    OBVIOUS
  <2>1. CASE file'.answers = file.answers
    BY <2>1 DEF Given
  <2>2. CASE Finish
    <3>1. CASE CutFrom(file.answers, file'.answers)
      <4>1. j \in GivenSlots(file'.answers) /\ i \notin GivenSlots(file'.answers)
        BY <2>2, <3>1, FinishCuts, CutFromUids DEF SessionInv, SlotsInv
      <4>2. i <= j
        BY <2>2, FinishCuts, GivenSlotsFinite
      <4> QED
        BY <3>1, <4>1, <4>2 DEF CutFrom
    <3>2. CASE \A h \in GivenSlots(file.answers) :
                   h \in GivenSlots(file'.answers) /\ file'.answers[h] = file.answers[h]
      BY <3>2 DEF Given
    <3> QED
      BY <2>2, <3>1, <3>2, FinishCuts
  <2>3. CASE Analyse
    BY <2>1, <2>3, AnalyseFacts
  <2>4. CASE RemoveSession
    BY <2>4 DEF RemoveSession
  <2> QED
    BY <2>1, <2>2, <2>3, <2>4, FileSteps
<1> QED
  BY <1>1, LoadedInvariant, PTL DEF Spec, DeletionTakesTheRest

\* Only Finish writes the file while a request is in progress.
LEMMA BusyWrites ==
    ASSUME [Next]_vars, work.op # "IDLE", file' # file
    PROVE  Finish
BY FileSteps, IdleType DEF Analyse, Verified, RemoveSession

\* A DELETE that took an answer cannot be sent again with the tag it was sent
\* with: the last given answer is always among those it takes, and no question has
\* a second slot that could stand in for it.
THEOREM TagChanges == Spec => DeletionChangesTag
<1> DEFINE Changed == work.op = "DELETEANSWER" /\ Given(file'.answers) # Given(file.answers) =>
                          ConsistencyHash(file') # ConsistencyHash(file)
<1>1. TypeInv /\ SessionInv /\ LoadedInv /\ [Next]_vars => Changed
  <2> SUFFICES ASSUME TypeInv, SessionInv, LoadedInv, [Next]_vars,
                      work.op = "DELETEANSWER", Given(file'.answers) # Given(file.answers)
               PROVE  ConsistencyHash(file') # ConsistencyHash(file)
    OBVIOUS
  <2>1. Finish
    BY BusyWrites
  <2>2. /\ file.answers \in Seq(Answer) /\ file'.answers \in Seq(Answer)
        /\ CutFrom(file.answers, file'.answers)
    BY <2>1, FinishCuts
  <2>3. UniqueSlots(file.answers)
    BY DEF SessionInv, SlotsInv
  <2>4. GivenSlots(file'.answers) # GivenSlots(file.answers)
    BY <2>2, <2>3, CutFromUids
  <2>5. LastGiven(file'.answers) # LastGiven(file.answers)
    BY <2>2, <2>3, <2>4, CutFromChangesLast
  <2> QED
    BY <2>5 DEF ConsistencyHash
<1> QED
  BY <1>1, LoadedInvariant, PTL DEF Spec, DeletionChangesTag

\* After a DELETE every question the file serves can be answered: whatever list
\* the controller returned, add_next_question has deleted the answers to it, and
\* later deletions in the same list bring none back.
THEOREM ServedAreOpen == Spec => DeleteServesOpenQuestions
<1> DEFINE Open == work.op = "DELETEANSWER" /\ file' # file =>
                       \A i \in 1..Len(file'.next) : file'.next[i] \notin Given(file'.answers)
<1>1. TypeInv /\ [Next]_vars => Open
  <2> SUFFICES ASSUME TypeInv, [Next]_vars, work.op = "DELETEANSWER", file' # file,
                      NEW i \in 1..Len(file'.next), file'.next[i] \in Given(file'.answers)
               PROVE  FALSE
    OBVIOUS
  <2>1. work.mem.answers \in Seq(Answer)
    BY DEF TypeInv, TypeOK, Work, Memory
  <2>2. PICK list : /\ file'.next = list
                    /\ file'.answers = Cut(work.mem.answers, Listed(list))
    BY BusyWrites, FinishServes
  <2>3. PICK j \in GivenSlots(file'.answers) : file'.answers[j].uid = file'.next[i]
    BY DEF Given
  <2>4. j \in GivenSlots(work.mem.answers) /\ file'.answers[j] = work.mem.answers[j]
        /\ (j <= j => work.mem.answers[j].uid \notin Listed(list))
    BY <2>1, <2>2, CutGiven
  <2>5. j <= j
    BY <2>1, <2>4, GivenSlotsFinite
  <2>6. file'.next[i] \in Listed(list)
    BY <2>2 DEF Listed
  <2> QED
    BY <2>3, <2>4, <2>5, <2>6
<1> QED
  BY <1>1, TypeInvariant, PTL DEF Spec, DeleteServesOpenQuestions
=============================================================================
