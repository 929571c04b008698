------------------------------- MODULE Session -------------------------------
(***************************************************************************)
(* The session structure of the backend and the operations of sessions.c   *)
(* and nextquestion.c on it: pure functions from a loaded session to the   *)
(* session they leave in memory.  The header answers (@user, @group,       *)
(* @authority) are not part of it; of @state the value and the text (the   *)
(* list of next questions) are the fields state and next.                  *)
(***************************************************************************)
EXTENDS Integers, Sequences, FiniteSets

CONSTANTS
    Survey,      \* the uids of ses->questions, in the order of the survey file
    Value,       \* what an answer may hold (text, numbers, times: the payload)
    MaxAnswers   \* MAX_ANSWERS, the size of ses->answers, headers included

N == Len(Survey)
Question == {Survey[i] : i \in 1..N}

\* A survey without questions can be neither created nor loaded; two questions
\* with one uid are not refused, the form's author has to avoid them.
ASSUME SurveyAssumption ==
    /\ Survey \in Seq(Question)
    /\ N >= 1
    /\ \A i, j \in 1..N : Survey[i] = Survey[j] => i = j

\* The four header answers every session file starts with (answer_offset).
HeaderCount == 4
ASSUME MaxAnswersAssumption == MaxAnswers \in Nat

-----------------------------------------------------------------------------
\* enum session_state.  SESSION_NULL is "no session file".
SESSION_NULL     == 0
SESSION_NEW      == 1
SESSION_OPEN     == 2
SESSION_FINISHED == 3
SESSION_CLOSED   == 4

SessionState == SESSION_NULL..SESSION_CLOSED
Answer  == [uid : Question, val : Value, deleted : BOOLEAN]
Memory  == [state : SessionState, answers : Seq(Answer), next : Seq(Question),
            count : Int]
File    == [state : SessionState, answers : Seq(Answer), next : Seq(Question)]

NoFile == [state |-> SESSION_NULL, answers |-> <<>>, next |-> <<>>]

-----------------------------------------------------------------------------
\* Queries.  The slots of a session are the answers in storage order.

GivenSlots(answers) == {i \in 1..Len(answers) : ~answers[i].deleted}
Given(answers)      == {answers[i].uid : i \in GivenSlots(answers)}
SlotsOf(answers, u) == {i \in 1..Len(answers) : answers[i].uid = u}
LastSlot(answers)   == CHOOSE i \in GivenSlots(answers) :
                           \A j \in GivenSlots(answers) : j <= i

\* A bug for the mutation tests: the search runs from the front.
Mut_LastGiven(answers) == IF GivenSlots(answers) = {} THEN <<>>
                          ELSE <<answers[CHOOSE i \in GivenSlots(answers) :
                                            \A j \in GivenSlots(answers) : i <= j]>>

\* session_get_last_given_answer: no answer or one, as a sequence.
LastGiven(answers) == IF GivenSlots(answers) = {} THEN <<>>
                      ELSE <<answers[LastSlot(answers)]>>

\* session_get_question_index
IndexOf(u) == CHOOSE i \in 1..N : Survey[i] = u

-----------------------------------------------------------------------------
\* load_session counts the given answers anew; save_session does not store the
\* count.  The consistency hash covers the state and the last given answer.

Load(file) == [state |-> file.state, answers |-> file.answers,
               next |-> file.next, count |-> Cardinality(GivenSlots(file.answers))]

Save(m) == [state |-> m.state, answers |-> m.answers, next |-> m.next]

\* A bug for the mutation tests: the hash leaves out the answers.
Mut_ConsistencyHash(s) == [state |-> s.state, last |-> <<>>]

ConsistencyHash(s) == [state |-> s.state, last |-> LastGiven(s.answers)]

\* A bug for the mutation tests: a closed session lets deletions through.
Mut_DeletionAllowed(op, state) ==
    CASE op = "DELETE"        -> FALSE
      [] op = "ADDANSWER"     -> state # SESSION_FINISHED /\ state < SESSION_CLOSED
      [] op = "DELETEANSWER"  -> state > SESSION_NEW
      [] op = "ANALYSIS"      -> state >= SESSION_FINISHED
      [] OTHER                -> TRUE

\* A bug for the mutation tests: an open session may be analysed.
Mut_AnalysisAllowed(op, state) ==
    CASE op = "DELETE"        -> FALSE
      [] op = "ADDANSWER"     -> state # SESSION_FINISHED /\ state < SESSION_CLOSED
      [] op = "DELETEANSWER"  -> state > SESSION_NEW /\ state < SESSION_CLOSED
      [] op = "ANALYSIS"      -> state >= SESSION_OPEN
      [] OTHER                -> TRUE

\* A bug for the mutation tests: a session is analysed once.
Mut_AnalysisOnce(op, state) ==
    CASE op = "DELETE"        -> FALSE
      [] op = "ADDANSWER"     -> state # SESSION_FINISHED /\ state < SESSION_CLOSED
      [] op = "DELETEANSWER"  -> state > SESSION_NEW /\ state < SESSION_CLOSED
      [] op = "ANALYSIS"      -> state = SESSION_FINISHED
      [] OTHER                -> TRUE

\* validate_session_action
ActionAllowed(op, state) ==
    CASE op = "DELETE"        -> FALSE
      [] op = "ADDANSWER"     -> state # SESSION_FINISHED /\ state < SESSION_CLOSED
      [] op = "DELETEANSWER"  -> state > SESSION_NEW /\ state < SESSION_CLOSED
      [] op = "ANALYSIS"      -> state >= SESSION_FINISHED
      [] OTHER                -> TRUE

-----------------------------------------------------------------------------
\* A bug for the mutation tests: an answer that is there is replaced.
Mut_Addable(m, u) == HeaderCount + Len(m.answers) < MaxAnswers

\* session_add_answer.  An answer to the same question must not be there, or be
\* deleted: then the new answer takes over its slot.
Addable(m, u) ==
    /\ \A i \in SlotsOf(m.answers, u) : m.answers[i].deleted
    /\ HeaderCount + Len(m.answers) < MaxAnswers

\* A bug for the mutation tests: a deleted answer keeps its slot and gets a second one.
Mut_StoredTwice(answers, a) == Append(answers, a)

\* A bug for the mutation tests: undeletion clears the flag and keeps the old value.
Mut_StoredStale(answers, a) ==
    IF SlotsOf(answers, a.uid) = {} THEN Append(answers, a)
    ELSE [i \in 1..Len(answers) |-> IF answers[i].uid = a.uid
                                    THEN [answers[i] EXCEPT !.deleted = FALSE]
                                    ELSE answers[i]]

Stored(answers, a) ==
    IF SlotsOf(answers, a.uid) = {} THEN Append(answers, a)
    ELSE [i \in 1..Len(answers) |-> IF answers[i].uid = a.uid THEN a ELSE answers[i]]

AddAnswer(m, u, v) ==
    [m EXCEPT !.answers = Stored(m.answers, [uid |-> u, val |-> v, deleted |-> FALSE]),
              !.count   = m.count + 1,
              !.state   = SESSION_OPEN]

\* A bug for the mutation tests: only the answer itself is deleted.
Mut_Cut(answers, us) ==
    [j \in 1..Len(answers) |-> IF answers[j].uid \in us
                               THEN [answers[j] EXCEPT !.deleted = TRUE]
                               ELSE answers[j]]

\* session_delete_answer for every question of a set: a given answer is marked
\* as deleted together with all answers stored after it; an answer that is
\* deleted already takes nothing with it.
Cut(answers, us) ==
    [j \in 1..Len(answers) |->
        IF \E i \in GivenSlots(answers) : i <= j /\ answers[i].uid \in us
        THEN [answers[j] EXCEPT !.deleted = TRUE]
        ELSE answers[j]]

\* A bug for the mutation tests: a deletion counts as one, whatever it takes with it.
Mut_DeleteAnswers(m, us) ==
    LET cut == Cut(m.answers, us)
    IN [m EXCEPT !.answers = cut,
                 !.count   = IF cut = m.answers THEN @ ELSE @ - 1]

DeleteAnswers(m, us) ==
    LET cut == Cut(m.answers, us)
    IN [m EXCEPT !.answers = cut,
                 !.count   = m.count - Cardinality(GivenSlots(m.answers) \ GivenSlots(cut))]

-----------------------------------------------------------------------------
\* A bug for the mutation tests: deleted answers count as progress.
Mut_GenericNext(m) ==
    IF m.answers = <<>> THEN <<Survey[1]>>
    ELSE LET index == IndexOf(m.answers[Len(m.answers)].uid)
         IN IF index >= N THEN <<>> ELSE <<Survey[index + 1]>>

\* get_next_questions_generic: the question after the one answered last.
GenericNext(m) ==
    IF GivenSlots(m.answers) = {} THEN <<Survey[1]>>
    ELSE LET index == IndexOf(m.answers[LastSlot(m.answers)].uid)
         IN IF index >= N THEN <<>> ELSE <<Survey[index + 1]>>

\* The questions of a list.
Listed(list) == {list[i] : i \in 1..Len(list)}

\* A bug for the mutation tests: a finished session is not opened again.
Mut_ServeFinished(m, op, list) ==
    LET kept == IF op = "DELETEANSWER" THEN DeleteAnswers(m, Listed(list)) ELSE m
    IN [kept EXCEPT !.next  = list,
                    !.state = IF list = <<>> /\ m.state < SESSION_FINISHED
                              THEN SESSION_FINISHED ELSE m.state]

\* A bug for the mutation tests: a session is finished one answer early.
Mut_ServeEarly(m, op, list) ==
    LET kept == IF op = "DELETEANSWER" THEN DeleteAnswers(m, Listed(list)) ELSE m
    IN [kept EXCEPT !.next  = list,
                    !.state = IF m.count >= N - 1
                              THEN IF m.state < SESSION_FINISHED THEN SESSION_FINISHED ELSE m.state
                              ELSE IF m.state = SESSION_FINISHED THEN SESSION_OPEN ELSE m.state]

\* A bug for the mutation tests: a DELETE serves questions without deleting their answers.
Mut_ServeAnswered(m, op, list) ==
    [m EXCEPT !.next  = list,
              !.state = IF list = <<>>
                        THEN IF m.state < SESSION_FINISHED THEN SESSION_FINISHED ELSE m.state
                        ELSE IF m.state = SESSION_FINISHED THEN SESSION_OPEN ELSE m.state]

\* get_next_questions and add_next_question, for a list that the controller
\* (generic or Python) returned.
Serve(m, op, list) ==
    LET kept == IF op = "DELETEANSWER" THEN DeleteAnswers(m, Listed(list)) ELSE m
    IN [kept EXCEPT !.next  = list,
                    !.state = IF list = <<>>
                              THEN IF m.state < SESSION_FINISHED THEN SESSION_FINISHED ELSE m.state
                              ELSE IF m.state = SESSION_FINISHED THEN SESSION_OPEN ELSE m.state]
=============================================================================
