---------------------------- MODULE SurveySession ----------------------------
(***************************************************************************)
(* One session of the survey backend: the file that keeps it, the worker   *)
(* that handles one request at a time for it (an FCGI process holding the  *)
(* session's lock, or the CLI alone), and what a client remembers of it.   *)
(*                                                                         *)
(* A request is: load and verify the session, change it in memory          *)
(* (AddAnswerStep once per posted answer, or one deletion), ask the        *)
(* controller for the next questions and save (Finish).  Until Finish the  *)
(* file is untouched, whatever fails.  What several processes do to the    *)
(* same file is the subject of SessionStore.                               *)
(***************************************************************************)
EXTENDS Session

CONSTANTS
    Mode,        \* "generic" or "python": ses->nextquestions_flag
    MaxNext      \* longest list a Python controller returns here

ASSUME ModeAssumption == Mode \in {"generic", "python"} /\ MaxNext \in Nat

VARIABLES
    file,   \* the session file; NoFile when there is none
    work,   \* the request in progress
    held    \* the ETag a client keeps, and the answers given when it was issued

vars == <<file, work, held>>

-----------------------------------------------------------------------------
Op == {"NEWSESSION", "NEXTQUESTIONS", "ADDANSWER", "DELETEANSWER"}

\* op: the action; mem: the loaded session; vals: the posted values, one per
\* question of mem.next; at: how many were handled; affected: affected_count.
Work == [op : Op \cup {"IDLE"}, mem : Memory, vals : Seq(Value), at : Nat,
         affected : Int]

Idle == [op |-> "IDLE", mem |-> Load(NoFile), vals |-> <<>>, at |-> 0, affected |-> 0]

Tag  == [state : SessionState, last : Seq(Answer)]
Held == [tag : Tag, given : SUBSET Question]

Exists == file.state # SESSION_NULL
TagOf(s) == [tag |-> ConsistencyHash(s), given |-> Given(s.answers)]

Begin(op, mem, vals, affected) ==
    [op |-> op, mem |-> mem, vals |-> vals, at |-> 0, affected |-> affected]

\* fcgi_request_load_and_verify_session, and the same checks in the CLI.
Verified(op) == /\ work = Idle
                /\ Exists
                /\ ActionAllowed(op, file.state)

-----------------------------------------------------------------------------
Init == /\ file = NoFile
        /\ work = Idle
        /\ held = TagOf(NoFile)

\* POST or GET /session, newsession: the new session stays in memory until the
\* first next questions are known.
CreateSession ==
    /\ work = Idle
    /\ ~Exists
    /\ work' = Begin("NEWSESSION", [Load(NoFile) EXCEPT !.state = SESSION_NEW], <<>>, 0)
    /\ UNCHANGED <<file, held>>

\* GET /questions, nextquestion.
GetQuestions ==
    /\ Verified("NEXTQUESTIONS")
    /\ work' = Begin("NEXTQUESTIONS", Load(file), <<>>, 0)
    /\ UNCHANGED <<file, held>>

\* POST and PUT /answers: the posted uids must be the stored next questions, in
\* that order.
PostAnswers ==
    /\ Verified("ADDANSWER")
    /\ file.next # <<>>
    /\ \E vals \in [1..Len(file.next) -> Value] :
           work' = Begin("ADDANSWER", Load(file), vals, 0)
    /\ UNCHANGED <<file, held>>

\* addanswer and addanswervalue: one uid is compared with the whole stored list, so
\* that the CLI can go on only where a single question is next.
CliAddAnswer ==
    /\ Verified("ADDANSWER")
    /\ Len(file.next) = 1
    /\ \E v \in Value : work' = Begin("ADDANSWER", Load(file), <<v>>, 0)
    /\ UNCHANGED <<file, held>>

\* One round of the loop in fcgi_session_add_answers.  A refused answer counts
\* -1 and ends the request only when the running count is below zero.
AddAnswerStep ==
    /\ work.at < Len(work.vals)
    /\ LET u     == work.mem.next[work.at + 1]
           v     == work.vals[work.at + 1]
           ok    == Addable(work.mem, u)
           count == IF ok THEN work.affected + 1 ELSE work.affected - 1
       IN work' = IF count < 0 THEN Idle
                  ELSE [work EXCEPT !.mem      = IF ok THEN AddAnswer(@, u, v) ELSE @,
                                    !.at       = @ + 1,
                                    !.affected = count]
    /\ UNCHANGED <<file, held>>

\* The common end of the DELETE handlers: validate_session_delete_answer and
\* session_delete_answer.
BeginDelete(u) ==
    /\ u \in Given(file.answers)
    /\ LET mem == DeleteAnswers(Load(file), {u})
       IN work' = Begin("DELETEANSWER", mem, <<>>,
                        Cardinality(GivenSlots(file.answers) \ GivenSlots(mem.answers)))
    /\ UNCHANGED <<file, held>>

\* With no answer given there is nothing to delete and the request goes on.
BeginDeleteNothing ==
    /\ GivenSlots(file.answers) = {}
    /\ work' = Begin("DELETEANSWER", Load(file), <<>>, 0)
    /\ UNCHANGED <<file, held>>

TagMatches == held.tag = ConsistencyHash(file)

\* DELETE /answers with a question id: that answer and all after it.
DeleteAnswer ==
    /\ Verified("DELETEANSWER")
    /\ TagMatches
    /\ \E u \in Question : BeginDelete(u)

\* DELETE /answers without one: the last given answer.
DeletePrevious ==
    /\ Verified("DELETEANSWER")
    /\ TagMatches
    /\ \/ \E a \in {LastGiven(file.answers)} : a # <<>> /\ BeginDelete(a[1].uid)
       \/ BeginDeleteNothing

\* delanswer: the CLI asks for no checksum.
CliDeleteAnswer ==
    /\ Verified("DELETEANSWER")
    /\ \E u \in Question : BeginDelete(u)

\* delprevanswer: with nothing to delete it is validated as a query for the next
\* questions, so that a new or a closed session passes too.
CliDeletePrevious ==
    /\ TagMatches
    /\ \/ /\ Verified("DELETEANSWER")
          /\ \E a \in {LastGiven(file.answers)} : a # <<>> /\ BeginDelete(a[1].uid)
       \/ /\ Verified("NEXTQUESTIONS")
          /\ BeginDeleteNothing

\* The lists the controller may return for a session.
Replies(m) == IF Mode = "generic" THEN {GenericNext(m)}
              ELSE UNION {[1..n -> Question] : n \in 0..MaxNext}

\* get_next_questions, save_session and the response, whose ETag the client keeps
\* or never sees.
Finish ==
    /\ work.op # "IDLE"
    /\ work.at = Len(work.vals)
    /\ \E list \in Replies(work.mem) :
           /\ file' = Save(Serve(work.mem, work.op, list))
           /\ held' \in {held, TagOf(file')}
    /\ work' = Idle

\* The controller fails, the save fails or the process dies: the loaded session
\* is dropped.
Abandon ==
    /\ work.op # "IDLE"
    /\ work' = Idle
    /\ UNCHANGED <<file, held>>

\* HEAD /questions and HEAD /answers run on the loaded session without saving
\* it, and so does getchecksum; the ETag is the loaded one.
HeadRequest ==
    /\ Verified("NEXTQUESTIONS")
    /\ held' = TagOf(file)
    /\ UNCHANGED <<file, work>>

\* A bug for the mutation tests: the state is counted up by every analysis.
Mut_Analyse ==
    /\ Verified("ANALYSIS")
    /\ file' = [file EXCEPT !.state = @ + 1]
    /\ held' \in {held, TagOf(file')}
    /\ UNCHANGED work

\* GET and HEAD /analysis, analyse: the first one closes the session.
Analyse ==
    /\ Verified("ANALYSIS")
    /\ file' = IF file.state < SESSION_CLOSED THEN [file EXCEPT !.state = SESSION_CLOSED] ELSE file
    /\ held' \in {held, TagOf(file')}
    /\ UNCHANGED work

\* delsession: the CLI unlinks the file in any state.
RemoveSession ==
    /\ work = Idle
    /\ Exists
    /\ file' = NoFile
    /\ UNCHANGED <<work, held>>

Next == \/ CreateSession \/ GetQuestions \/ PostAnswers \/ CliAddAnswer \/ AddAnswerStep
        \/ DeleteAnswer \/ DeletePrevious \/ CliDeleteAnswer \/ CliDeletePrevious
        \/ Finish \/ Abandon \/ HeadRequest \/ Analyse \/ RemoveSession

Spec == Init /\ [][Next]_vars

-----------------------------------------------------------------------------
(* Properties of every session. *)

\* Every variable holds what the code keeps in it.
TypeOK == /\ file \in File
          /\ work \in Work
          /\ held \in Held

Sessions == {Save(work.mem), file}

\* No question ever has two slots, so that "the" answer to a question, deleted
\* or not, is well defined in session_get_answer (undeletion reuses the slot).
OneSlotPerQuestion ==
    \A s \in Sessions : \A i, j \in 1..Len(s.answers) :
        s.answers[i].uid = s.answers[j].uid => i = j

\* given_answer_count, kept by counting up and down, is the number of given
\* answers whenever a controller is asked: py_create_answers_list sizes the list
\* with it and fills it from the answers.
CountIsExact == work.mem.count = Cardinality(GivenSlots(work.mem.answers))

\* The stored list of next questions fits the stored state: an unfinished session
\* always has a question to serve, a finished one has none.
StateFitsNext == /\ file.state \in {SESSION_NEW, SESSION_OPEN} => file.next # <<>>
                 /\ file.state = SESSION_FINISHED => file.next = <<>>

\* Once closed, the answers and the state of a session never change again, except
\* that the file may be removed: validate_session_action rejects every request
\* that would (get_next_questions still replaces the list of next questions).
ClosedIsFrozen ==
    [][file.state = SESSION_CLOSED /\ file' # NoFile =>
           file'.state = SESSION_CLOSED /\ file'.answers = file.answers]_vars

\* A given answer is never overwritten: as long as a question stays answered its
\* answer stays the same, a new one needs a deletion first.
GivenAnswersKept ==
    [][\A i \in GivenSlots(file.answers) : \A j \in GivenSlots(file'.answers) :
           file.answers[i].uid = file'.answers[j].uid =>
               file.answers[i] = file'.answers[j]]_vars

\* When an answer stops being given, every answer stored after it does too:
\* deletion takes the rest of the interview with it (#462).
DeletionTakesTheRest ==
    [][file' # NoFile =>
         \A i \in GivenSlots(file.answers) : file.answers[i].uid \notin Given(file'.answers) =>
           \A j \in GivenSlots(file.answers) : j > i =>
               file.answers[j].uid \notin Given(file'.answers)]_vars

\* A DELETE that removed an answer cannot be repeated with the tag it was sent
\* with: the consistency hash of what it leaves differs from that of what it met.
DeletionChangesTag ==
    [][work.op = "DELETEANSWER" /\ Given(file'.answers) # Given(file.answers) =>
           ConsistencyHash(file') # ConsistencyHash(file)]_vars

\* After a DELETE no served question still has a given answer, whatever list the
\* controller returned: add_next_question deletes them.
DeleteServesOpenQuestions ==
    [][work.op = "DELETEANSWER" /\ file' # file =>
           \A i \in 1..Len(file'.next) : file'.next[i] \notin Given(file'.answers)]_vars

-----------------------------------------------------------------------------
(* Properties of the generic (linear) controller. *)

\* Slot i of a session always holds question i, and the given answers are the
\* first slots: an interview advances question by question and deletion cuts it.
GivenIsPrefix ==
    \A s \in Sessions :
        /\ \A i \in 1..Len(s.answers) : i <= N /\ s.answers[i].uid = Survey[i]
        /\ \A i \in GivenSlots(s.answers) : \A j \in 1..i : j \in GivenSlots(s.answers)

\* The question a client may answer is the first one without a given answer.
NextIsFirstUnanswered ==
    Exists => LET k == Cardinality(GivenSlots(file.answers))
              IN file.next = IF k = N THEN <<>> ELSE <<Survey[k + 1]>>

\* A session is finished or closed exactly when all its questions are answered.
FinishedIffComplete ==
    Exists => (file.state >= SESSION_FINISHED <=> Given(file.answers) = Question)

\* When a client's tag matches, the same questions are answered as when the tag
\* was issued, although the hash covers the last answer only: what it deletes is
\* what it saw.
TagMeansSameProgress == Exists /\ TagMatches => held.given = Given(file.answers)

-----------------------------------------------------------------------------
(* What a comment says of every session; kept for the generic controller only.  *)

\* An accepted list of answers was stored completely.
AcceptedIsStored ==
    work.op = "ADDANSWER" /\ work.at = Len(work.vals) =>
        \A i \in 1..work.at :
            \E j \in GivenSlots(work.mem.answers) :
                /\ work.mem.answers[j].uid = work.mem.next[i]
                /\ work.mem.answers[j].val = work.vals[i]

-----------------------------------------------------------------------------
(* The life cycle of the documents, as an abstraction of the file. *)

PhaseOf(state) == CASE state = SESSION_NULL     -> "none"
                    [] state = SESSION_NEW      -> "new"
                    [] state = SESSION_OPEN     -> "open"
                    [] state = SESSION_FINISHED -> "finished"
                    [] state = SESSION_CLOSED   -> "closed"

Lifecycle == INSTANCE SessionLifecycle
             WITH Total    <- N,
                  phase    <- PhaseOf(file.state),
                  progress <- Cardinality(GivenSlots(file.answers))

\* In generic mode the session file goes through the life cycle of
\* docs/sessions.md and no other: one answer forward at a time, any number back,
\* finished by the last answer only, closed for good.
ImplementsLifecycle == Lifecycle!LSpec
=============================================================================
