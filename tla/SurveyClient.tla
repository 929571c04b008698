----------------------------- MODULE SurveyClient -----------------------------
(***************************************************************************)
(* A browser tab that takes an interview: the frontend (Api.js,            *)
(* Session.js, Survey.jsx, Analysis.jsx) in front of the backend of module *)
(* Session.                                                                *)
(*                                                                         *)
(* localStorage keeps the ETag of the last response and the cached         *)
(* session.  Requests and responses may be lost, be cut off after the      *)
(* headers, and arrive in any order.  A reload drops the responses the tab *)
(* waits for, but not the requests that are under way; a component that    *)
(* is left for another one still handles its responses.  The backend       *)
(* handles one request for a session at a time (module SessionStore), here *)
(* in one step, in generic mode.                                           *)
(***************************************************************************)
EXTENDS Session

CONSTANTS
    MaxFault,  \* disturbances: losses, cuts, reloads without need, restarts
    MaxBack    \* presses of "Previous Question"

ASSUME BoundsAssumption == MaxFault \in Nat /\ MaxBack \in Nat

\* A session is created for the first page, and again at most once per disturbance.
Sid == 1..(MaxFault + 1)

VARIABLES
    files,   \* the session files
    etag,    \* localStorage: the ETag of the last response, {} or one
    cache,   \* localStorage: the cached session, {} or one record
    known,   \* history: the session and its answered questions as of etag
    tab,     \* what the tab shows
    net,     \* requests and responses under way
    faults,  \* disturbances so far
    backs    \* presses of "Previous Question" so far

vars == <<files, etag, cache, known, tab, net, faults, backs>>

-----------------------------------------------------------------------------
\* NEWSESSION is GET /session, RESUME and NEXTQUESTIONS are GET /questions (of
\* initNextQuestion and initNewSession), the others POST and DELETE /answers
\* and GET /analysis.
Op == {"NEWSESSION", "NEXTQUESTIONS", "RESUME", "ADDANSWER", "DELETEANSWER", "ANALYSIS"}

\* page: the mounted component; sid, state, next, count: its Session object
\* (count is progress[0]); busy: loading; alert: an error is shown; done: the
\* analysis is shown.
Closed == [page |-> "none", sid |-> 0, state |-> SESSION_NULL, next |-> <<>>, count |-> -1,
           busy |-> FALSE, alert |-> FALSE, done |-> FALSE]

\* A bug for the mutation tests: the hash does not cover the session's id.
Mut_EtagOf(s, f) == [sid |-> 1, tag |-> ConsistencyHash(f)]

\* The ETag of a session: the id is hashed with the state and the last answer.
EtagOf(s, f) == [sid |-> s, tag |-> ConsistencyHash(f)]

\* How far a request got: "request", "response", or "body" when only the body of
\* the response is still to come.  nr tells equal messages apart.
Numbered(ms, m) == [m EXCEPT !.nr = CHOOSE n \in 0..Cardinality(ms) :
                                        [m EXCEPT !.nr = n] \notin ms]
With(ms, m) == ms \cup {Numbered(ms, m)}

\* fetch: the session id, the answer and If-Match from localStorage.  state is that
\* of the Session object the response will be merged into.  reader: the component
\* that waits for the response is "mounted", was "left" for another one, or is
\* "gone" with a reload.
Request(op, s, state, answer) ==
    [step |-> "request", reader |-> "mounted", op |-> op, sid |-> s, state |-> state,
     answer |-> answer, match |-> etag, known |-> known, nr |-> 0]

-----------------------------------------------------------------------------
\* The backend.

\* A request is refused before anything is changed.
Accepted(m, f) ==
    /\ f # NoFile
    /\ ActionAllowed(m.op, f.state)
    /\ m.op = "ADDANSWER"    => f.next = <<m.answer[1]>> /\ Addable(Load(f), m.answer[1])
    /\ m.op = "DELETEANSWER" => m.match = {EtagOf(m.sid, f)}

\* The session in memory after the page handler's own part.
Changed(m, f) ==
    CASE m.op = "ADDANSWER" -> AddAnswer(Load(f), m.answer[1], m.answer[2])
      [] m.op = "DELETEANSWER" /\ GivenSlots(f.answers) # {} ->
             DeleteAnswers(Load(f), {LastGiven(f.answers)[1].uid})
      [] OTHER -> Load(f)

Served(mem, op) == Save(Serve(mem, op, GenericNext(mem)))

\* The file that an accepted request leaves, as a set of one.
Handled(m, f) ==
    IF m.op = "ANALYSIS" THEN {[f EXCEPT !.state = SESSION_CLOSED]}
    ELSE {Served(mem, m.op) : mem \in {Changed(m, f)}}

\* The response to a request on session s with file f: its ETag, the next
\* questions and the progress.
Response(m, s, f, ok) ==
    [step |-> "response", reader |-> m.reader, op |-> m.op, sid |-> s, state |-> m.state,
     ok |-> ok, tag |-> EtagOf(s, f), given |-> Given(f.answers), next |-> f.next,
     count |-> Cardinality(GivenSlots(f.answers)), nr |-> 0]

\* Nobody reads a response to a page that was reloaded.
Answered(m, r) == IF m.reader = "gone" THEN net \ {m} ELSE With(net \ {m}, r)

\* GET /session with a new id.
ServeNew(m) ==
    /\ m.op = "NEWSESSION"
    /\ \E s \in Sid :
          /\ \A r \in Sid : files[r] = NoFile <=> r >= s
          /\ \E f \in {Served(mem, m.op) : mem \in {[Load(NoFile) EXCEPT !.state = SESSION_NEW]}} :
                /\ files' = [files EXCEPT ![s] = f]
                /\ net' = Answered(m, Response(m, s, f, TRUE))

\* Every other request, accepted or refused.
ServeSession(m) ==
    /\ m.op # "NEWSESSION"
    /\ \E ok \in {Accepted(m, files[m.sid])} :
       \E f \in IF ok THEN Handled(m, files[m.sid]) ELSE {files[m.sid]} :
          /\ files' = [files EXCEPT ![m.sid] = f]
          /\ net' = Answered(m, Response(m, m.sid, f, ok))

ServeRequest(m) ==
    /\ m.step = "request"
    /\ ServeNew(m) \/ ServeSession(m)
    /\ UNCHANGED <<etag, cache, known, tab, faults, backs>>

-----------------------------------------------------------------------------
\* The tab.

\* What becomes of the messages when the page is reloaded: a request goes on
\* without a reader.
Orphaned == {[m EXCEPT !.reader = "gone"] : m \in {n \in net : n.step = "request"}}

\* ... and when another component is shown: the responses are still handled.
Left == {IF m.reader = "mounted" THEN [m EXCEPT !.reader = "left"] ELSE m : m \in net}

\* The Session object of a component that was just mounted is empty.
Mounted(page) == [Closed EXCEPT !.page = page, !.busy = TRUE]

\* componentDidMount of Survey: go on with the cached session or create one.
MountSurvey(ms) ==
    /\ tab' = Mounted("survey")
    /\ \/ /\ cache' = {}
          /\ net' = With(ms, Request("NEWSESSION", 0, SESSION_NULL, <<>>))
       \/ \E c \in cache' : net' = With(ms, Request("RESUME", c.sid, c.state, <<>>))

\* componentDidMount of Analysis: it takes the cached session, whichever that is.
\* (There is one: only another tab could have deleted it.)
MountAnalysis(ms) ==
    \E c \in cache :
        /\ tab' = Mounted("analysis")
        /\ net' = With(ms, Request("ANALYSIS", c.sid, c.state, <<>>))

\* "Start Survey" of the list of surveys.
Open ==
    /\ tab.page = "none"
    /\ UNCHANGED cache
    /\ MountSurvey(net)
    /\ UNCHANGED <<files, etag, known, faults, backs>>

\* A reload, of a page with an error or of any other (a disturbance).
ReloadPage ==
    /\ UNCHANGED <<cache, files, etag, known, backs>>
    /\ \/ tab.page = "survey"   /\ MountSurvey(Orphaned)
       \/ tab.page = "analysis" /\ MountAnalysis(Orphaned)

Reload     == tab.alert  /\ UNCHANGED faults /\ ReloadPage
ReloadEarly ==
    /\ ~tab.alert
    /\ faults < MaxFault
    /\ faults' = faults + 1
    /\ ReloadPage

\* "Continue Survey" and "Restart Survey" of the list of surveys; the latter forgets
\* the cached session.  The page is not loaded anew, and componentWillUnmount
\* cancels nothing.
FromList ==
    /\ tab.page # "none"
    /\ cache # {}
    /\ faults < MaxFault
    /\ faults' = faults + 1
    /\ cache' \in {cache, {}}
    /\ MountSurvey(Left)
    /\ UNCHANGED <<files, etag, known, backs>>

\* Session.isCompleted, isFirst
IsCompleted(v) == v.state >= SESSION_FINISHED
IsFirst(v)     == v.state = SESSION_OPEN /\ v.count = 0

\* The form is hidden while a request is under way.
FormShown(v) == v.page = "survey" /\ ~v.busy /\ ~IsCompleted(v)

Send(op, answer) ==
    /\ net' = With(net, Request(op, tab.sid, tab.state, answer))
    /\ tab' = [tab EXCEPT !.busy = TRUE]

\* handleAddAnswers
HandleAddAnswers ==
    /\ FormShown(tab)
    /\ tab.next # <<>>
    /\ \E v \in Value : Send("ADDANSWER", <<tab.next[1], v>>)
    /\ UNCHANGED <<files, etag, cache, known, faults, backs>>

\* handleDelAnswer.  The button of a finished survey stays there while a request
\* is under way, so that it can be pressed twice.  Without a session id the
\* backend refuses the request.
HandleDelAnswer ==
    /\ FormShown(tab) \/ (tab.page = "survey" /\ tab.state = SESSION_FINISHED)
    /\ ~IsFirst(tab)
    /\ tab.sid # 0
    /\ backs < MaxBack
    /\ backs' = backs + 1
    /\ Send("DELETEANSWER", <<>>)
    /\ UNCHANGED <<files, etag, cache, known, faults>>

\* handleGetAnalysis: only of a finished session; of a closed one the button does
\* nothing.
HandleGetAnalysis ==
    /\ tab.page = "survey"
    /\ tab.state = SESSION_FINISHED
    /\ MountAnalysis(Left)
    /\ UNCHANGED <<files, etag, cache, known, faults, backs>>

\* "Back to survey", shown with an error of the analysis.
BackToSurvey ==
    /\ tab.page = "analysis"
    /\ tab.alert
    /\ UNCHANGED cache
    /\ MountSurvey(Left)
    /\ UNCHANGED <<files, etag, known, faults, backs>>

-----------------------------------------------------------------------------
\* Responses.

\* cacheResponse: the headers of an accepted request are there.
CacheResponse(m) ==
    /\ m.step = "response"
    /\ m.ok
    /\ etag' = {m.tag}
    /\ known' = [sid |-> m.sid, given |-> m.given]
    /\ net' = With(net \ {m}, [m EXCEPT !.step = "body", !.nr = 0])
    /\ UNCHANGED <<files, cache, tab, faults, backs>>

\* alert: the view stays as it was.
Fail(m) ==
    /\ net' = net \ {m}
    /\ tab' = IF m.reader = "mounted" THEN [tab EXCEPT !.busy = FALSE, !.alert = TRUE] ELSE tab

\* responseError
Refused(m) ==
    /\ m.step = "response"
    /\ ~m.ok
    /\ Fail(m)
    /\ UNCHANGED <<files, etag, cache, known, faults, backs>>

\* A bug for the mutation tests: closing counts the state up.
Mut_Closing(m) ==
    IF m.op = "ANALYSIS" THEN IF m.state >= SESSION_FINISHED THEN m.state + 1 ELSE m.state
    ELSE IF m.next # <<>> THEN SESSION_OPEN
    ELSE IF m.state < SESSION_FINISHED THEN SESSION_FINISHED ELSE m.state

\* A bug for the mutation tests: a finished survey that is resumed counts as closed.
Mut_Merged(m) ==
    IF m.op = "ANALYSIS" THEN IF m.state >= SESSION_FINISHED THEN SESSION_CLOSED ELSE m.state
    ELSE IF m.next # <<>> THEN SESSION_OPEN
    ELSE IF m.state = SESSION_FINISHED THEN SESSION_CLOSED ELSE SESSION_FINISHED

\* Session.merge and close: the state follows from the next questions.
Merged(m) ==
    IF m.op = "ANALYSIS" THEN IF m.state >= SESSION_FINISHED THEN SESSION_CLOSED ELSE m.state
    ELSE IF m.next # <<>> THEN SESSION_OPEN
    ELSE IF m.state < SESSION_FINISHED THEN SESSION_FINISHED ELSE m.state

\* The new session is cached, and its first questions are asked for.
DeliverNew(m) ==
    /\ m.op = "NEWSESSION"
    /\ cache' = {[sid |-> m.sid, state |-> m.state]}
    /\ net' = With(net \ {m}, [Request("NEXTQUESTIONS", m.sid, m.state, <<>>)
                               EXCEPT !.reader = m.reader])
    /\ tab' = IF m.reader = "left" THEN tab ELSE [tab EXCEPT !.sid = m.sid]

\* The response is merged into the session, which is cached; a mounted component
\* shows it.
DeliverSession(m) ==
    /\ m.op # "NEWSESSION"
    /\ cache' = {[sid |-> m.sid, state |-> Merged(m)]}
    /\ net' = net \ {m}
    /\ tab' = IF m.reader = "left" THEN tab
              ELSE [page |-> tab.page, sid |-> m.sid, state |-> Merged(m), next |-> m.next,
                    count |-> m.count, busy |-> FALSE, alert |-> FALSE,
                    done |-> m.op = "ANALYSIS"]

Deliver(m) ==
    /\ m.step = "body"
    /\ DeliverNew(m) \/ DeliverSession(m)
    /\ UNCHANGED <<files, etag, known, faults, backs>>

\* A request or a response is lost, or the connection breaks within the body.
Lose(m) ==
    /\ faults < MaxFault
    /\ faults' = faults + 1
    /\ Fail(m)
    /\ UNCHANGED <<files, etag, cache, known, backs>>

-----------------------------------------------------------------------------
Init == /\ files = [s \in Sid |-> NoFile]
        /\ etag = {}
        /\ cache = {}
        /\ known = [sid |-> 0, given |-> {}]
        /\ tab = Closed
        /\ net = {}
        /\ faults = 0
        /\ backs = 0

User == \/ Open \/ Reload \/ ReloadEarly \/ FromList
        \/ HandleAddAnswers \/ HandleDelAnswer \/ HandleGetAnalysis \/ BackToSurvey

Arrive(m) == ServeRequest(m) \/ CacheResponse(m) \/ Refused(m) \/ Deliver(m)

Next == User \/ \E m \in net : Arrive(m) \/ Lose(m)

Spec == Init /\ [][Next]_vars

\* The network delivers what it does not lose, and the respondent goes on: opens the
\* page, answers, asks for the analysis, reloads a page with an error and does not
\* ignore the link back to the survey for ever.
Fairness == /\ WF_vars(\E m \in net : Arrive(m))
            /\ WF_vars(Open)
            /\ WF_vars(HandleAddAnswers)
            /\ WF_vars(HandleGetAnalysis)
            /\ WF_vars(Reload)
            /\ SF_vars(BackToSurvey)

FairSpec == Spec /\ Fairness

-----------------------------------------------------------------------------
View == [page : {"none", "survey", "analysis"}, sid : {0} \cup Sid, state : SessionState,
         next : Seq(Question), count : -1..N, busy : BOOLEAN, alert : BOOLEAN,
         done : BOOLEAN]

\* Every variable holds what the program keeps in it.
TypeOK == /\ files \in [Sid -> File]
          /\ \A e \in etag : e.sid \in Sid /\ e.tag.state \in SessionState
          /\ \A c \in cache : c.sid \in Sid /\ c.state \in SessionState
          /\ Cardinality(etag) <= 1 /\ Cardinality(cache) <= 1
          /\ tab \in View
          /\ \A m \in net : m.op \in Op

\* A DELETE that is late, repeated, sent before a response was shown or to another
\* session than the last response came from deletes nothing but the last answer of
\* the progress the browser had been told of: only the ETag protects the answers.
DeletesOnlyAcknowledged ==
    [][\A s \in Sid :
          LET gone == Given(files[s].answers) \ Given(files'[s].answers)
          IN gone # {} => /\ gone = {LastGiven(files[s].answers)[1].uid}
                          /\ \E m \in net \ net' :
                                /\ m.op = "DELETEANSWER"
                                /\ m.known = [sid   |-> s,
                                             given |-> Given(files[s].answers)]]_vars

\* What the browser takes for closed is closed in the backend, and complete: a
\* cached session that is closed, or an analysis that is shown, whatever was
\* lost, repeated or late, and although Analysis closes the cached session
\* instead of the one the respondent finished.
ClosedIsFinal ==
    LET Final(s) == /\ files[s].state = SESSION_CLOSED
                    /\ Given(files[s].answers) = Question
    IN /\ \A c \in cache : c.state = SESSION_CLOSED => Final(c.sid)
       /\ tab.done => Final(tab.sid)

\* The respondent gets an analysis or is told that the session is closed, in spite
\* of lost requests and responses, refused retries, reloads and a restart.
InterviewEnds == <>(tab.done \/ tab.state = SESSION_CLOSED)

PhaseOf(state) == CASE state = SESSION_NULL     -> "none"
                    [] state = SESSION_NEW      -> "new"
                    [] state = SESSION_OPEN     -> "open"
                    [] state = SESSION_FINISHED -> "finished"
                    [] state = SESSION_CLOSED   -> "closed"

Lifecycle(s) == INSTANCE SessionLifecycle
                WITH Total    <- N,
                     phase    <- PhaseOf(files[s].state),
                     progress <- Cardinality(GivenSlots(files[s].answers))

\* Every session goes through the life cycle of docs/sessions.md and no other,
\* whatever requests a browser sends late, twice or to the wrong session.
SessionsImplementLifecycle ==
    /\ \A s \in Sid : Lifecycle(s)!LInit
    /\ [][\A s \in Sid : Lifecycle(s)!LNext \/ UNCHANGED Lifecycle(s)!lvars]_files
=============================================================================
