--------------------------- MODULE SurveySnapshot ---------------------------
(***************************************************************************)
(* The survey form a session runs on.  surveys/<id>/current is replaced by *)
(* the survey's author at any time; create_session copies it to a snapshot *)
(* named by its SHA-1 hash (create_survey_snapshot), and a session refers  *)
(* to its form by that name alone.                                         *)
(***************************************************************************)
CONSTANTS
    Worker,      \* processes that create sessions
    Form,        \* what a survey file may contain
    Session,     \* session ids
    None,        \* no file
    Deploys      \* when a form is deployed: "any time", or "quiet": never while
                 \* a session is being created

ASSUME DeploysAssumption == Deploys \in {"any time", "quiet"}
ASSUME NoneAssumption == None \notin Form

VARIABLES
    current,     \* the content of surveys/<id>/current
    snapshot,    \* by form f: the content of the file named sha1(f), or None
    sessions,    \* what a session was created with, or None
    pc,          \* what a worker does next
    sid,         \* the session it creates
    name,        \* the form it has hashed: sha1(name) is the snapshot it uses
    read         \* the form it has read since

vars == <<current, snapshot, sessions, pc, sid, name, read>>

\* name: the second half of the session's survey_id; form: the questions that
\* session_load_survey read when the session was created.
Created == [name : Form, form : Form]

Init == /\ current \in Form
        /\ snapshot = [f \in Form |-> None]
        /\ sessions = [s \in Session |-> None]
        /\ pc   = [w \in Worker |-> "idle"]
        /\ sid  = [w \in Worker |-> None]
        /\ name = [w \in Worker |-> None]
        /\ read = [w \in Worker |-> None]

Goto(w, label) == pc' = [pc EXCEPT ![w] = label]

Quit(w) == /\ Goto(w, "idle")
           /\ sid'  = [sid  EXCEPT ![w] = None]
           /\ name' = [name EXCEPT ![w] = None]
           /\ read' = [read EXCEPT ![w] = None]

-----------------------------------------------------------------------------
\* A new form is moved to surveys/<id>/current.
DeployForm ==
    /\ Deploys = "quiet" => \A w \in Worker : pc[w] = "idle"
    /\ current' \in Form \ {current}
    /\ UNCHANGED <<snapshot, sessions, pc, sid, name, read>>

\* A request for a new session that no other worker creates (SessionStore is about
\* the others).
BeginSession(w) ==
    /\ pc[w] = "idle"
    /\ \E s \in Session : /\ sessions[s] = None
                          /\ \A v \in Worker : sid[v] # s
                          /\ sid' = [sid EXCEPT ![w] = s]
    /\ Goto(w, "hash")
    /\ UNCHANGED <<current, snapshot, sessions, name, read>>

\* A bug for the mutation tests: the hash of the first form is remembered.
Mut_HashCurrent(w) ==
    /\ pc[w] = "hash"
    /\ name' = [name EXCEPT ![w] = IF \E f \in Form : snapshot[f] # None
                                  THEN CHOOSE f \in Form : snapshot[f] # None
                                  ELSE current]
    /\ Goto(w, "look up")
    /\ UNCHANGED <<current, snapshot, sessions, sid, read>>

\* sha1_file reads the form to the end and closes it.
HashCurrent(w) ==
    /\ pc[w] = "hash"
    /\ name' = [name EXCEPT ![w] = current]
    /\ Goto(w, "look up")
    /\ UNCHANGED <<current, snapshot, sessions, sid, read>>

\* A bug for the mutation tests: the snapshot is taken to be there.
Mut_LookUpSnapshot(w) ==
    /\ pc[w] = "look up"
    /\ Goto(w, "load")
    /\ UNCHANGED <<current, snapshot, sessions, sid, name, read>>

LookUpSnapshot(w) ==
    /\ pc[w] = "look up"
    /\ Goto(w, IF snapshot[name[w]] = None THEN "copy" ELSE "load")
    /\ UNCHANGED <<current, snapshot, sessions, sid, name, read>>

\* The form is opened a second time and copied to a file of the worker's own.  It
\* is hashed again meanwhile, but that hash is never asked for.
CopyCurrent(w) ==
    /\ pc[w] = "copy"
    /\ read' = [read EXCEPT ![w] = current]
    /\ Goto(w, "rename")
    /\ UNCHANGED <<current, snapshot, sessions, sid, name>>

\* A bug for the mutation tests: the hash is not part of the file name, so that all
\* snapshots of a survey are one file.
Mut_RenameCopy(w) ==
    /\ pc[w] = "rename"
    /\ snapshot' = [f \in Form |-> IF f = name[w] \/ snapshot[f] # None THEN read[w] ELSE None]
    /\ Goto(w, "load")
    /\ UNCHANGED <<current, sessions, sid, name, read>>

\* The copy gets the name of the first hash; a file of that name is replaced.
RenameCopy(w) ==
    /\ pc[w] = "rename"
    /\ snapshot' = [snapshot EXCEPT ![name[w]] = read[w]]
    /\ Goto(w, "load")
    /\ UNCHANGED <<current, sessions, sid, name, read>>

\* session_load_survey in create_session.
LoadSurvey(w) ==
    /\ pc[w] = "load"
    /\ read' = [read EXCEPT ![w] = snapshot[name[w]]]
    /\ Goto(w, "save")
    /\ UNCHANGED <<current, snapshot, sessions, sid, name>>

\* save_session writes survey_id, that is the name, as the first line.
SaveSession(w) ==
    /\ pc[w] = "save"
    /\ sessions' = [sessions EXCEPT ![sid[w]] = [name |-> name[w], form |-> read[w]]]
    /\ Quit(w)
    /\ UNCHANGED <<current, snapshot>>

\* The process dies, or one of the steps fails.
Crash(w) ==
    /\ pc[w] # "idle"
    /\ Quit(w)
    /\ UNCHANGED <<current, snapshot, sessions>>

Next == \/ DeployForm
        \/ \E w \in Worker :
              \/ BeginSession(w) \/ HashCurrent(w) \/ LookUpSnapshot(w) \/ CopyCurrent(w)
              \/ RenameCopy(w) \/ LoadSurvey(w) \/ SaveSession(w) \/ Crash(w)

Spec == Init /\ [][Next]_vars

-----------------------------------------------------------------------------
\* Every variable holds what the files and the workers keep in it.
TypeOK ==
    /\ current \in Form
    /\ snapshot \in [Form -> Form \cup {None}]
    /\ sessions \in [Session -> Created \cup {None}]
    /\ pc \in [Worker -> {"idle", "hash", "look up", "copy", "rename", "load", "save"}]
    /\ sid \in [Worker -> Session \cup {None}]
    /\ name \in [Worker -> Form \cup {None}]
    /\ read \in [Worker -> Form \cup {None}]

\* A snapshot contains the form that its name is the hash of, so that two sessions
\* of one survey_id ask the same questions.
SnapshotNamed == \A f \in Form : snapshot[f] \in {None, f}

\* Existing sessions continue to use the version of the survey that they were
\* created under (create_session): what load_session reads is what creation read.
FormStays == \A s \in Session : sessions[s] # None => snapshot[sessions[s].name] = sessions[s].form

\* Of the forms deployed, a session gets the newest: the snapshots of older forms
\* stay, but a new session finds the one of the form deployed now.
NewSessionUsesCurrent ==
    [][\A s \in Session : sessions[s] = None /\ sessions'[s] # None =>
           sessions'[s].form = current]_vars
=============================================================================
