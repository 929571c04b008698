# A TLA+ model of the survey system

The survey system asks the questions of a form one after the other, keeps the
answers of each respondent in a session file, and hands the finished session to
an analysis. This directory models the backend (`src/backend`): what a session
goes through, what happens when several processes use one session file, which
version of a form a session runs on, who may use a session, and whether an
answer's text survives the way to the file and back; and the browser in front of
it (`src/front`), with a network that loses and reorders what it sends.

## 1. The system

| part | state | operations | source | model |
|---|---|---|---|---|
| session engine | `struct session`: state, answers, deleted flags, next questions, count of given answers | load, save, create, delete, add answer, delete answers, consistency hash, validation of an action against the state | `sessions.c`, `survey.h` | `Session`, `SurveySession` |
| next questions | (in the session) | generic controller, call of the Python controller, change of state, analysis | `nextquestion.c`, `py_hooks.c` | `Session` (`GenericNext`, `Serve`), `SurveySession` (`Replies`, `Analyse`) |
| FCGI handlers | one request at a time per process | `/session`, `/questions`, `/answers`, `/analysis` | `fcgi_main.c`, `fcgi_request.c` | `SurveySession` (effects), `SessionStore` (order of file operations) |
| command line tool | none | `newsession`, `nextquestion`, `addanswer(value)`, `delanswer`, `delprevanswer`, `analyse`, `delsession` | `main.c` | the same two |
| files and locks | `sessions/<prefix>/<id>`, `write.<id>`, `locks/.../lock.<id>` | lock, load, write, rename, release | `filelocks.c`, `sessions.c` | `SessionStore` |
| survey snapshots | `surveys/<id>/current` and one file per SHA-1 | create a snapshot, load a survey | `sessions.c` | `SurveySnapshot` |
| serialisers | none | escape, count columns, parse | `serialisers.c` | `AnswerCodec` |
| validators | none | question and answer exist | `validators.c` | guards of `SurveySession` |
| error log | number of errors of the request | `exit` at the 21st | `errorlog.c` | a `Crash` of `SessionStore` |
| meta and authority | provider, user, group in the session's header answers; `SS_TRUSTED_MIDDLEWARE` | check of a request against them | `fcgi_request.c`, `sessions.c` | `Authority` |
| frontend client | one ETag and one cached session in `localStorage`, the page shown | start, continue or restart a survey, answer, go back, ask for the analysis, reload | `front/src/Api.js`, `Session.js`, `components/Survey.jsx`, `Analysis.jsx`, `Surveys.jsx` | `SurveyClient` |
| frontend views, responses, SHA-1, Python start-up, paths, log, tests | | | | not modelled: no state the sessions depend on, or third-party |

How they interact. A request is handled by one process: it takes the session's
`flock`, loads the session, validates the action against the state, changes the
session in memory, asks the controller (generic or Python) for the next
questions, which may change answers and state again, saves the session to
`write.<id>`, renames it, answers with the consistency hash as ETag, and drops
the lock. Processes share nothing but files. A DELETE must carry the ETag
(`If-Match`); the command line's `delprevanswer` takes it as an argument.

What is hard here:

- *Interleaving.* Several FCGI processes serve one session; the command line tool
  and the creation of a session take no lock at all.
- *Crashes.* A process may die, or leave by `exit` in `remember_error`, between
  any two calls; the temporary file stays.
- *Partial failure.* `fprintf` and `fclose` are unchecked in `save_session`; the
  loop over posted answers adds up refusals.
- *Long sequences.* Answers are never removed, only flagged, and their slots are
  used again: storage order, interview order and the count kept beside them have
  to agree after any number of additions and deletions.
- *Stale reads.* A form is hashed and then read again; an ETag covers only part
  of what it stands for; the controller and the server's configuration may be
  newer than the session.
- *The network.* A respondent who sees an error repeats or reloads, although the
  request may have been carried out, or may still be.

`PROJECT.json` lists these hazards one by one with the properties that watch
them, or the reason why none does.

## 2. Modules

`Session` holds the pure part: what load, save, add, delete, the hash, the
validation, the generic controller and `get_next_questions` do to a session.
The header answers are left out (their number, 4, counts towards `MAX_ANSWERS`),
of `@state` the value and text are fields of the file. No operator is RECURSIVE.

`SurveySession` is the machine of one session with three variables:

- `file`, the session file; `NoFile` before creation and after `delsession`;
- `work`, the request in progress: its action, the loaded session, the posted
  values, how many of them were handled, `affected_count`;
- `held`, the ETag a client keeps, with the given answers it was issued for (the
  second part is a history variable).

A request is a begin action (`GetQuestions`, `PostAnswers`, `DeleteAnswer`,
`DeletePrevious`, `CreateSession`, and the CLI's own ways to answer and to
delete), `AddAnswerStep`
once per posted answer, and `Finish`: next questions, save, response, the ETag of
which the client receives or not. `Abandon` is any failure before the save.
`Analyse` and `HeadRequest` are one step each: they change one field or nothing.
Requests for one session do not overlap in this module; that is what
`SessionStore` is about (`OneWorkerInside`, `ImplementsRegister`). `CliAddAnswer`
needs a single next question: `addanswer` compares the uid of its one answer with
the whole stored list, so that the CLI cannot go on with a session whose
controller asks for several questions at once.

`SessionLifecycle` is the life cycle promised by `docs/sessions.md`: phases and
the number of given answers. `SurveySession` in generic mode implements it under

    phase    <- PhaseOf(file.state)
    progress <- Cardinality(GivenSlots(file.answers))

`SessionStore` is the file protocol. A session is abstracted to the set of
requests applied to it and whether it is closed. `pc[p]` names the next call of
process `p`: `lock_session`, `load_session`, the handler, `fopen`, the write in
between when the stdio buffer is full, `fclose`, `rename`, the response. Names
and inodes are kept apart (`final` and `temp` are names, `fd` an open file),
because `rename` moves whatever file has the name. A half-written or mixed file
can be unreadable or, by luck, parse: `Readable` offers both. `Crash` is enabled
at every step; the kernel frees the lock of a dead process. `Unlink` is `delsession`, in any
state of the session and at any moment, since the CLI takes no lock.

`SessionRegister` is what that protocol is for: a register that whole requests
change one after the other. The refinement maps the content of the file named
`final` to it.

`SurveySnapshot` models `create_survey_snapshot` and `create_session` from the
first hash to the save: `name[w]` is the form that was hashed, `read[w]` the form
read afterwards. SHA-1 is taken as injective, so a snapshot's name is a form.
`DeployForm` is the survey's author, outside the program. A failed read, write or
rename ends the creation like a `Crash`.

`AnswerCodec` models `escape_string`, `serialiser_count_columns` and
`deserialise_parse_field` on a line of three fields, over five characters: the
separator, the backslash, a control character, a digit, a letter that is also
an escape; with the two limits there are, of a field that is read (`FieldMax`,
16383 characters in the code) and of a line that is written (`LineMax`, 65536).
A field that does not fit its line ends the line; that is no error.

`Authority` models what a session remembers of where it was created
(`session_meta`) and how later requests are compared with it. `config` is
`SS_TRUSTED_MIDDLEWARE` of the running server, `session` the header of the one
session with, as history, the request and the configuration of its creation,
`last` the last accepted change. `Restart` may change the configuration between
any two requests. The command line tool asks nobody.

`SurveyClient` composes a browser tab with the backend of module `Session`. `etag`
and `cache` are what `localStorage` keeps, `tab` is the mounted component with
its `Session` object, `net` holds requests and responses, in no order. Each
request is served in one step, which `SessionStore` justifies. A message
remembers its reader: the component that waits for it, one that was left
(`componentWillUnmount` cancels nothing, Survey.jsx:60, so that its callbacks
still write to `localStorage`) or nobody after a reload. A response has two parts,
because `cacheResponse` stores the ETag when the headers are there and the body
may never come. Disturbances (a loss, a reload or restart without need) are
bounded by `MaxFault`, presses of "Previous Question" by `MaxBack`.

The abstract modules (`SessionLifecycle`, `SessionRegister`) state what is
promised and translate no code; all other definitions are mapped to lines.
Operators that begin with `Mut_` are plausible bugs, used to see that each
property notices one; no action uses them.

## 3. Properties and runs

| run | what it explores | what it shows |
|---|---|---|
| `session_generic` | 4 questions, 2 values, generic mode | `GivenIsPrefix`, `NextIsFirstUnanswered`, `FinishedIffComplete`: the slots, the next question and the state agree on how far the interview is; `TagMeansSameProgress`: a matching ETag means the same answered questions; `AcceptedIsStored`; `ImplementsLifecycle` |
| `session_python` | 3 questions, 2 values, every list of 0 to 2 questions as a controller's reply, repetitions included | what C guarantees without the controller's help: one slot per question, an exact count, next questions that fit the state, a frozen closed session, no overwritten answer, deletion of the rest, a changed ETag after a deletion, no answered question served by a DELETE |
| `store_locked` | 3 workers, 5 requests, crashes, one creator, no CLI, a disk with room | `NoLostUpdate`, `FinalIsWhole`, `ClosedIsFinal`, `ImplementsRegister` |
| `store_race` | 2 workers, both may create, a CLI run, failing writes, crashes, 3 requests | `OneWorkerInside`, `RequestsEnd` (liveness) |
| `snapshot_quiet` | 2 workers, 3 forms, 3 sessions; forms are deployed while no session is being created | `SnapshotNamed`, `FormStays`, `NewSessionUsesCurrent` |
| `codec_plain` | all texts up to 6 characters without backslash, values and serialised lines; fields of 3, lines of 10 characters | `TextSurvives`: a text is never changed nor shortened; `SavedIsLoadable`, `FieldsStayApart` for what fits a field |
| `authority` | two addresses, every provider, the CLI, restarts | `SourceKept`, `ConfigKept`: who may change a session; `CreatorMayContinue`: who is not locked out |
| `client` | one tab, 2 questions, one disturbance, two presses of Previous | `DeletesOnlyAcknowledged`: a late or repeated DELETE takes nothing the browser had not been told of; `ClosedIsFinal`: what the browser takes for closed is closed and complete; `SessionsImplementLifecycle`; `InterviewEnds` (liveness) |
| `python_partial` | as `session_python` | violates `AcceptedIsStored` |
| `store_create` | two creators, nothing else special | violates `CreatedOnce` |
| `snapshot_race` | forms are deployed at any time | violates `FormStays` |
| `codec_backslash` | texts up to 3 characters, backslash included | violates `SavedIsLoadable` |

The four violations are disagreements between the code and a comment or document
of the repository, quoted in `PROJECT.json` under `findings`:

1. a refused answer in a list is hidden by accepted ones before it;
2. creation checks for the file long before it renames, without a lock;
3. a form deployed between the hash and the copy gets the wrong name;
4. `escape_string` does not escape the backslash.

Other disagreements met while modelling, which no run is spent on:

- `docs/sessions.md:246` says that a closed session rejects any request but an
  analysis; since #408 (sessions.c:63) it accepts queries for next questions.
  `ClosedIsFrozen` shows that they change neither answers nor state.
- A posted value may be as long as a request; it is saved, but a field of more
  than 16383 characters cannot be loaded again (serialisers.c:183), so that such
  an answer loses its session. `SavedIsLoadable` states the safe lengths.
- Analysis.jsx:37 analyses the cached session, Survey.jsx:306 says the finished
  one. They differ when a response of a component that was left overwrites the
  cache after "Restart Survey"; a session then closed is still a complete one
  (`ClosedIsFinal`).
- When a body is lost after its headers, the page shows the old question with
  the new ETag, and the next "Previous Question" deletes the answer that the
  respondent was never told is stored. `DeletesOnlyAcknowledged` counts the
  headers as told.
- A POST carries no ETag: one that is delivered after a deletion is accepted when
  its question is next again, with the value the respondent had given first.

`NoLostUpdate` and `ClosedIsFinal` also fail with a CLI beside the workers or with
a full disk. No text of the repository promises otherwise, so these are hazards
and preconditions of `store_locked`, not findings.

## 4. Bounds

- Questions: with four, a deletion can cut one, some or all answers and leave
  some; with three in Python mode every order of slots occurs, and a list of two
  can repeat a question or mix an answered with an open one.
- Values: two, enough to tell an old answer from a new one. They are only
  compared, and so are questions in Python mode (symmetry).
- `MaxAnswers = 9` is above what these surveys need, so the limit itself is not
  reached; the proofs hold for any limit, above or below the number of questions.
- `MaxNext = 2` bounds the lists a Python controller returns; a list of two
  already gives the loop of `AddAnswerStep` a first and a later round.
- Store: with three workers one can hold the lock, one wait and one create or
  crash; five requests let each worker do more than one. Requests are
  symmetric. `fresh` bounds them: each request id is used once, and the system stops
  when none is left, so that deadlock is not checked there.
- Store with CLI and full disk: two workers, one CLI run, three requests, because
  mixed contents multiply the states.
- Snapshots: three forms allow old, hashed and newly deployed to be different.
- Texts of six characters are longer than a field and, escaped, than a line; three
  characters fill a field, whatever of them is escaped; `codec_backslash` needs one
  character to fail. Texts whose escaped form alone does not fit a line are left
  out (`PostValue`).
- Authority: two addresses and one name; names are recorded but never compared.
- Client: with two questions there is a first, a middle and a finished state to go
  back from; a disturbance leaves one more session than needed or one message
  less; a second press of Previous is sent while the first is under way. One value
  is enough, since answers are not compared. A second disturbance or a second tab
  multiplies the states beyond what TLC can hold in the time of a run.

## 5. Fairness

`SessionStore`: weak fairness of `Step(p)` for each process, for `RequestsEnd`. A
handler is a finite sequence of calls that return; the one that blocks is
`flock`, which is enabled when the lock is free. Weak fairness does not say that a
waiting worker ever gets a lock that others take and release for ever; with
finitely many requests the others stop. `Crash` and new requests have no fairness.

`SurveyClient`, for `InterviewEnds`: weak fairness of the delivery of some message
(what is not lost arrives), of the backend with it, and of what a respondent does
to get on: open the page, answer the question shown, ask for the analysis of a
finished survey, reload a page with an error. "Back to survey" has strong
fairness: on a page with an error the respondent may reload again and again, which
disables and enables the link; it says that the link is not ignored for ever. It
is needed where the session was reopened behind the analysis, which then fails
however often it is reloaded. No fairness is assumed of disturbances or "Previous
Question". There is no deadlock check in this run, because nothing is left to do
once the analysis is shown.

The other modules have none: clients owe the server nothing.

## 6. Proofs

Every property of a passing run but the two liveness properties is also a theorem,
for every value of the constants that its hypotheses allow. All theorems are about
`Spec`. In `SessionStore` it includes fairness, in `SurveyClient` `FairSpec` adds
it; no theorem uses it.

| module | theorems | under |
|---|---|---|
| `SurveySession_proofs` | `TypeCorrect`, `OneSlot`, `ClosedFrozen`, `GivenKept`, `CountExact`, `NextFits`, `RestIsTaken`, `TagChanges`, `ServedAreOpen` | |
| `SurveySessionGeneric_proofs` | `PrefixGiven`, `FirstIsServed`, `FinishedComplete`, `TagIsProgress`, `AcceptedStored`, `LifecycleImplemented` | `Mode = "generic"` |
| `SessionStore_proofs` | `MutualExclusion`, `StoreTypes` | |
| | `SessionFileWhole`, `UpdatesKept`, `ClosedStays`, `RegisterImplemented` | `Locking` |
| `SurveySnapshot_proofs` | `SnapshotTypes` | |
| | `SnapshotsAreNamed`, `FormKept`, `NewestForm` | `Deploys = "quiet"` |
| `AnswerCodec_proofs` | `CodecTypes`, `AnswersSurvive`, `AnswersLoad`, `FieldsApart` | `Backslash \notin TextChar` |
| `Authority_proofs` | `AuthorityTypes`, `SourceOfChanges`, `ConfigOfChanges`, `CreatorAccepted` | |
| `SurveyClient_proofs` | `ClientTypes`, `ClosedSessionsAreFinal`, `OnlyAcknowledgedDeleted`, `LifecycleOfEverySession` | |

Each hypothesis is what the constants of a passing run say. That it is needed is
what runs with a violation show: `python_partial` for `AcceptedStored`,
`snapshot_race` for `FormKept`, `codec_backslash` for `AnswersLoad`. `Locking` says
that there is no CLI, at most one process that creates, and room on the disk; the
code guarantees none of them. What a second creator does is shown by
`store_create`: `CreatedOnce` is no theorem, because it fails in the only case in
which it says anything.

*Session operators.* `Session_proofs` proves that the given slots are finite and
have a last one (`LastSlotIsMaximum`, through the well-ordering of the naturals)
and can be counted (`StoredCount`, `CutCount`), that every operation returns a
well-formed session, that storing and cutting keep slots unique, that storing an
answer leaves the given ones alone (`StoredKeepsGiven`) and that what is given after
a cut was given before (`CutGiven`). It also says how an interview advances in
generic mode: with the given slots a prefix of the slots, storing the next answer
makes it one longer and a cut makes it shorter.

*One session.* `TypeOK` alone is not inductive: that `AddAnswerStep` reads an existing
value and an existing next question needs `ValsFitNext` (the posted values are as
many as the next questions). The other theorems for every controller rest on
`SessionInv`, inductive together with the types: `SlotsInv` (unique slots in file
and memory), `ExistsInv` (only a file that is there has a state, and only a created
or loaded session is worked on), `CopyInv` (the loaded answers are those of the
file with answers added or cut off, according to the kind of request: between load
and save the file does not move under it) and `ClosedInv` (with a closed session
only a query is in progress, or a deletion that found nothing to delete). The step
properties need `CopyInv` because they compare file with file, while the code
changes a copy. `CountIsExact` is inductive given the unique slots: a question with
two deleted slots would be given twice by one undeletion, and counted once.
`LoadedInv` says for each kind of request what it has in memory compared with the
file: an addition is made only in a state that lets it through, a deletion holds
the file or what its first cut left of it. `RestIsTaken` and `TagChanges` need it,
since one deletion may cut twice, at the request's own question and again where the
next questions are.

*The generic controller.* `GenericInv` is added: slot i is the one of question i, the
given ones are first, and next question, state and number of given answers fit
(`LinearFile`); a request posts one answer, and once it is stored memory is exactly
one answer ahead of the file (`AddingInv`); the last answer in a client's ETag is
the last of the questions that were answered when it was issued (`HeldInv`).
`NextIsFirstUnanswered` is not an invariant by itself: the code looks at the last
given answer only, and that no earlier one is missing is `LinearFile`. The
refinement of `SessionLifecycle` follows request by request: `Finish` is Create,
Answer or GoBack or nothing the phases tell apart, `Analyse` is Close.

*The store.* Mutual exclusion does not mention the lock; the invariant that is
preserved is that a worker past `lock_session` holds it (`LockInv`). With it,
`LockedInv`: the creator creates only while there is no session and the others work
only on one they found (`RoleInv`); what a process has in memory is the file plus
its one request (`CopyInv`), which holds only because nobody else can rename in
between (`SaverIsAlone`); the temporary file is the saver's, is never the session,
and holds the whole session by the time of the rename (`TempInv`). `FinalIsWhole` and
`NoLostUpdate` are parts of it. For `RegisterImplemented` each rename is Create,
Change or Close of `SessionRegister` by the kind of the job, and no other step
changes what the name `final` refers to.

*Snapshots.* `ProgressInv` says what a worker knows at each of its steps; `QuietInv`
adds that, with no deployment while sessions are created, what a worker has hashed
and read is the current form (`CurrentInv`), so that a rename over the snapshot of
an earlier session replaces it by its equal, and what a session was created with
stays what it is loaded with (`KeptInv`).

*The codec.* `Parse` and `Escape` are folds. That one more character is one more
step (`ParseAppend`, `EscapeSteps`) is proved from the definitions of the folds, by
induction over the set of lengths for which a claim holds (`SuccessorClosed`, from
the least element of its complement). A text and its escaped form are then followed
side by side (`Escapes`): the parser reads the first n escapes as the first n
characters, or has failed for good when they are more than a field holds; the
escaped form has no separator that counts and no open escape at its end, so that
the columns are three (`WholeLine`). A line that is cut off has fewer (`CutLine`,
`UidLine`), and is refused as a whole. The invariant of the machine, `CodecInv`,
is short: the line is that of the posted text, and only a text longer than a
field is lost.

*Authority.* `AuthorityInv` adds to the three invariants where headers come from
(`OriginInv`: a header is the meta of the one request of its creation, checked under
the configuration of then, or that of the CLI) and that a removed session leaves
no change behind (`LastInv`). `ConfigKept` follows although no code compares two
configurations: a change has the provider of the creation, which is "trusted"
exactly when a middleware is registered, and then both name the same one.

*The client.* `ClientInv` says of every message in flight, of the tab and of the cache
what they may claim of the backend: files are as the generic controller leaves them
(`FileInv`); an ETag shows the progress it was issued for (`KnownInv`); whatever says
that a session is closed is right about it (`TabInv`, `CacheInv`, `NetInv`); and
while a mounted component waits for its new session, nothing of an older one is on
its way to it (`NewInv`). `ClosedGrows` carries the claims over the backend's
steps: a closed session stays closed, so that no late message becomes wrong.
`FileStep` says what one request does to one file; the refinement of the life cycle
by every session follows from it.

Assumptions, which TLC evaluates in every run: the survey has at least one question
and no uid twice (`SurveyAssumption`; `load_session` refuses an empty survey,
duplicate uids are the author's duty), `MaxAnswers` is a number, `Mode` is one of two,
workers and CLI runs are different processes and finitely many (`ProcAssumption`; the
last for counting inodes), `Nothing` is no process, inode, session or job
(`NothingAssumption`), `None` is no form (`NoneAssumption`), the placeholders of
`Authority` are no names, and a field, however it is escaped, fits a line
(`LimitAssumption`; 16383 and 65536 in the code). The bounds `MaxFault`, `MaxBack`,
`MaxLength` and `MaxNext` are any numbers: no theorem depends on their values.

## 7. Only model-checked, and not modelled

Only checked: the liveness properties `RequestsEnd` and `InterviewEnds`, because
fairness speaks of ENABLED, which the prover does not support, and the four
violations, `CreatedOnce` among them, which are counterexamples of TLC.

Not modelled, and why:

- A second browser tab. Two tabs share `localStorage`, so that the cached session
  and the ETag of one are overwritten by the other; with reordered messages the
  states are beyond TLC even for two questions. One consequence was found by hand:
  a tab that resumes a session which the other one has closed shows a "Get
  Analysis" button that does nothing (Survey.jsx:302 asks for a finished session,
  Analysis.jsx:50 expects closed ones too).
- Several next questions at once in the client: the generic controller asks one.
- Number formats, question lines and the JSON and CSV of responses: no decision
  depends on them but the refusal of a malformed number, which changes nothing.
- Default values and progress numbers of responses, views and form widgets, ids and
  paths, the file of the analysis, logs: nothing the sessions depend on.
- Memory safety: the slot that is freed when `MAX_ANSWERS` is reached, the array of
  next questions, texts longer than `MAX_LINE` once escaped.
- Questions whose answer is replaced by its SHA-1 or by a UUID before it is stored
  (sessions.c:1778): which text is stored makes no difference to the session.
- SHA-1 (taken as injective), the start of the Python interpreter, test programs.

A Python controller is any function that returns a list of questions of the survey
or fails, another one for every request if need be.

`TagMeansSameProgress` is checked in generic mode only: in Python mode a slot can
be used again in another order, so that different sets of answers end with the same
last slot and have one hash.

## 8. Plan

Done: `Session`, `SurveySession` with `SessionLifecycle`, `SessionStore` with
`SessionRegister`, `SurveySnapshot`, `AnswerCodec` with its length limits,
`Authority`, `SurveyClient`; the runs above; every safety property of a passing run
and every refinement proved.

Next, proofs:

1. `SessionStore` with CLI runs that only read, or with a CLI that adds answers while
   no worker runs: how much of `Locking` is needed for `UpdatesKept`.
2. `FormStays` for deployments at any time but between a worker's hash and its copy,
   a weaker hypothesis than "quiet".
3. `AnswerCodec` for texts with a backslash before a character that needs no
   escape: which of them are refused and which are read as another text.
