------------------------ MODULE SurveySnapshot_proofs ------------------------
(***************************************************************************)
(* Proofs about the snapshots of survey forms: for any number of workers,  *)
(* sessions and forms, with a crash at any step.  The types hold whenever  *)
(* forms are deployed; the rest where no form is deployed while a session  *)
(* is being created (the run snapshot_race shows that it fails otherwise). *)
(***************************************************************************)
EXTENDS SurveySnapshot, TLAPS

Named    == {"look up", "copy", "rename", "load", "save"}
HasRead  == {"rename", "save"}
HasFile  == {"load", "save"}

\* What a worker knows at each of its steps: its session, the form it has hashed,
\* the form it has read, and that the snapshot it will load is there.
ProgressInv ==
    \A w \in Worker :
        /\ pc[w] # "idle"     => sid[w] \in Session
        /\ pc[w] \in Named    => name[w] \in Form
        /\ pc[w] \in HasRead  => read[w] \in Form
        /\ pc[w] \in HasFile  => snapshot[name[w]] # None

TypeInv == TypeOK /\ ProgressInv

\* Before the first session there is no snapshot and nobody at work.
LEMMA InitTypeInv == Init => TypeInv
BY DEF Init, TypeInv, TypeOK, ProgressInv, Named, HasRead, HasFile

\* The end of a creation, whether it was saved or not.
LEMMA QuitTypeInv ==
    ASSUME TypeInv, NEW w \in Worker, Quit(w), UNCHANGED <<current, snapshot>>,
           sessions' \in [Session -> Created \cup {None}]
    PROVE  TypeInv'
<1>1. TypeOK'
  BY DEF TypeInv, TypeOK, Quit, Goto
<1>2. ProgressInv'
  BY DEF TypeInv, TypeOK, ProgressInv, Quit, Goto, Named, HasRead, HasFile
<1> QED
  BY <1>1, <1>2 DEF TypeInv

\* A snapshot is replaced, but never removed: a worker that was told that its
\* snapshot is there can load it.
LEMMA RenameTypeInv ==
    ASSUME TypeInv, NEW w \in Worker, RenameCopy(w)
    PROVE  TypeInv'
<1>1. name[w] \in Form /\ read[w] \in Form /\ pc[w] = "rename"
  BY DEF TypeInv, ProgressInv, RenameCopy, Named, HasRead
<1>2. TypeOK'
  BY <1>1 DEF TypeInv, TypeOK, RenameCopy, Goto
<1>3. ASSUME NEW v \in Worker, pc'[v] \in HasFile
      PROVE  snapshot'[name'[v]] # None
  <2>1. name'[v] = name[v] /\ name[v] \in Form
    BY <1>1, <1>3 DEF TypeInv, TypeOK, ProgressInv, RenameCopy, Goto, Named, HasFile
  <2>2. CASE name[v] = name[w]
    BY <1>1, <2>1, <2>2, NoneAssumption DEF TypeInv, TypeOK, RenameCopy
  <2>3. CASE name[v] # name[w]
    <3>1. pc[v] \in HasFile
      BY <1>3, <2>3 DEF TypeInv, TypeOK, RenameCopy, Goto
    <3> QED
      BY <2>1, <2>3, <3>1 DEF TypeInv, TypeOK, ProgressInv, RenameCopy
  <2> QED
    BY <2>2, <2>3
<1>4. ProgressInv'
  BY <1>1, <1>3 DEF TypeInv, TypeOK, ProgressInv, RenameCopy, Goto, Named, HasRead, HasFile
<1> QED
  BY <1>2, <1>4 DEF TypeInv

\* Every step keeps the types, deployments at any time included.
LEMMA NextTypeInv == TypeInv /\ [Next]_vars => TypeInv'
<1> SUFFICES ASSUME TypeInv, [Next]_vars PROVE TypeInv'
  OBVIOUS
<1> USE DEF TypeInv, TypeOK, ProgressInv, Goto, Named, HasRead, HasFile
<1>1. CASE DeployForm
  BY <1>1 DEF DeployForm
<1>2. ASSUME NEW w \in Worker, BeginSession(w) PROVE TypeInv'
  BY <1>2 DEF BeginSession
<1>3. ASSUME NEW w \in Worker, HashCurrent(w) PROVE TypeInv'
  BY <1>3 DEF HashCurrent
<1>4. ASSUME NEW w \in Worker, LookUpSnapshot(w) PROVE TypeInv'
  BY <1>4 DEF LookUpSnapshot
<1>5. ASSUME NEW w \in Worker, CopyCurrent(w) PROVE TypeInv'
  BY <1>5 DEF CopyCurrent
<1>6. ASSUME NEW w \in Worker, RenameCopy(w) PROVE TypeInv'
  BY <1>6, RenameTypeInv
<1>7. ASSUME NEW w \in Worker, LoadSurvey(w) PROVE TypeInv'
  BY <1>7 DEF LoadSurvey
<1>8. ASSUME NEW w \in Worker, SaveSession(w) PROVE TypeInv'
  <2>1. [name |-> name[w], form |-> read[w]] \in Created
    BY <1>8 DEF SaveSession, Created
  <2>2. sessions' \in [Session -> Created \cup {None}]
    BY <1>8, <2>1 DEF SaveSession
  <2> QED
    BY <1>8, <2>2, QuitTypeInv DEF SaveSession
<1>9. ASSUME NEW w \in Worker, Crash(w) PROVE TypeInv'
  BY <1>9, QuitTypeInv DEF Crash
<1>10. CASE UNCHANGED vars
  BY <1>10 DEF vars
<1> QED
  BY <1>1, <1>2, <1>3, <1>4, <1>5, <1>6, <1>7, <1>8, <1>9, <1>10 DEF Next

\* Whenever forms are deployed and workers die: no session is saved without a form,
\* and no snapshot is loaded that is not there.
THEOREM SnapshotTypes == Spec => []TypeOK
<1> QED
  BY InitTypeInv, NextTypeInv, PTL DEF Spec, TypeInv

-----------------------------------------------------------------------------
(* Deployments between creations. *)

\* What is hashed and read is the form deployed now, as long as a creation lasts.
CurrentInv ==
    \A w \in Worker :
        /\ pc[w] \in Named   => name[w] = current
        /\ pc[w] \in HasRead => read[w] = current

\* A session names the form it was created with, and its snapshot holds that form.
KeptInv ==
    \A s \in Session : sessions[s] # None =>
        /\ sessions[s].form = sessions[s].name
        /\ snapshot[sessions[s].name] = sessions[s].name

QuietInv == TypeInv /\ CurrentInv /\ SnapshotNamed /\ KeptInv

\* It holds when nothing is created yet.
LEMMA InitQuietInv == Init => QuietInv
BY InitTypeInv DEF Init, QuietInv, CurrentInv, SnapshotNamed, KeptInv, Named, HasRead

\* A snapshot that is replaced gets the content that it had.
LEMMA RenameQuietInv ==
    ASSUME QuietInv, NEW w \in Worker, RenameCopy(w)
    PROVE  QuietInv'
<1>1. TypeInv'
  BY RenameTypeInv DEF QuietInv
<1>2. name[w] = current /\ read[w] = current /\ current \in Form
  BY DEF QuietInv, CurrentInv, RenameCopy, Named, HasRead, TypeInv, TypeOK
<1>3. snapshot' = [snapshot EXCEPT ![current] = current]
  BY <1>2 DEF RenameCopy
<1>4. CurrentInv'
  BY DEF QuietInv, CurrentInv, RenameCopy, Goto, Named, HasRead, TypeInv, TypeOK
<1>5. SnapshotNamed'
  BY <1>2, <1>3 DEF QuietInv, SnapshotNamed, TypeInv, TypeOK
<1>6. ASSUME NEW s \in Session, sessions[s] # None
      PROVE  snapshot'[sessions[s].name] = sessions[s].name
  <2>1. sessions[s].name \in Form
    BY <1>6 DEF QuietInv, TypeInv, TypeOK, Created
  <2> QED
    BY <1>2, <1>3, <1>6, <2>1 DEF QuietInv, KeptInv, TypeInv, TypeOK
<1>7. KeptInv'
  BY <1>6 DEF QuietInv, KeptInv, RenameCopy
<1> QED
  BY <1>1, <1>4, <1>5, <1>7 DEF QuietInv

\* The session that is saved names the form it was read from.
LEMMA SaveQuietInv ==
    ASSUME QuietInv, NEW w \in Worker, SaveSession(w)
    PROVE  QuietInv' /\ sessions' = [sessions EXCEPT ![sid[w]] = [name |-> current, form |-> current]]
<1>1. TypeInv'
  BY NextTypeInv DEF QuietInv, Next
<1>2. name[w] = current /\ read[w] = current /\ snapshot[current] # None /\ current \in Form
  BY DEF QuietInv, CurrentInv, SaveSession, Named, HasRead, HasFile, TypeInv, TypeOK, ProgressInv
<1>3. snapshot[current] = current
  BY <1>2 DEF QuietInv, SnapshotNamed
<1>4. sessions' = [sessions EXCEPT ![sid[w]] = [name |-> current, form |-> current]]
  BY <1>2 DEF SaveSession
<1>5. CurrentInv' /\ SnapshotNamed'
  BY DEF QuietInv, CurrentInv, SnapshotNamed, SaveSession, Quit, Goto, Named, HasRead,
         TypeInv, TypeOK
<1>6. KeptInv'
  <2> SUFFICES ASSUME NEW s \in Session, sessions'[s] # None
               PROVE  /\ sessions'[s].form = sessions'[s].name
                      /\ snapshot[sessions'[s].name] = sessions'[s].name
    BY DEF KeptInv, SaveSession
  <2>1. CASE s = sid[w]
    <3>1. sessions'[s] = [name |-> current, form |-> current]
      BY <1>4, <2>1 DEF QuietInv, TypeInv, TypeOK
    <3> QED
      BY <1>3, <3>1
  <2>2. CASE s # sid[w]
    <3>1. sessions'[s] = sessions[s]
      BY <1>4, <2>2 DEF QuietInv, TypeInv, TypeOK
    <3> QED
      BY <3>1 DEF QuietInv, KeptInv
  <2> QED
    BY <2>1, <2>2
<1> QED
  BY <1>1, <1>4, <1>5, <1>6 DEF QuietInv

\* Every step keeps it, if no form is deployed while a session is being created.
LEMMA NextQuietInv ==
    ASSUME Deploys = "quiet", QuietInv, [Next]_vars
    PROVE  QuietInv'
<1>1. TypeInv'
  BY NextTypeInv DEF QuietInv
<1> USE DEF QuietInv, TypeInv, TypeOK, CurrentInv, SnapshotNamed, KeptInv, Goto, Named, HasRead
<1>2. CASE DeployForm
  <2>1. \A w \in Worker : pc[w] = "idle"
    BY <1>2 DEF DeployForm
  <2> QED
    BY <1>1, <1>2, <2>1 DEF DeployForm
<1>3. ASSUME NEW w \in Worker, BeginSession(w) PROVE QuietInv'
  BY <1>1, <1>3 DEF BeginSession
<1>4. ASSUME NEW w \in Worker, HashCurrent(w) PROVE QuietInv'
  BY <1>1, <1>4 DEF HashCurrent
<1>5. ASSUME NEW w \in Worker, LookUpSnapshot(w) PROVE QuietInv'
  BY <1>1, <1>5 DEF LookUpSnapshot
<1>6. ASSUME NEW w \in Worker, CopyCurrent(w) PROVE QuietInv'
  BY <1>1, <1>6 DEF CopyCurrent
<1>7. ASSUME NEW w \in Worker, RenameCopy(w) PROVE QuietInv'
  BY <1>7, RenameQuietInv
<1>8. ASSUME NEW w \in Worker, LoadSurvey(w) PROVE QuietInv'
  <2>1. name[w] = current /\ snapshot[name[w]] # None
    BY <1>8 DEF LoadSurvey, ProgressInv, HasFile
  <2>2. snapshot[name[w]] = current
    BY <2>1
  <2> QED
    BY <1>1, <1>8, <2>2 DEF LoadSurvey
<1>9. ASSUME NEW w \in Worker, SaveSession(w) PROVE QuietInv'
  BY <1>9, SaveQuietInv
<1>10. ASSUME NEW w \in Worker, Crash(w) PROVE QuietInv'
  BY <1>1, <1>10 DEF Crash, Quit
<1>11. CASE UNCHANGED vars
  BY <1>1, <1>11 DEF vars
<1> QED
  BY <1>2, <1>3, <1>4, <1>5, <1>6, <1>7, <1>8, <1>9, <1>10, <1>11 DEF Next

\* So it holds in every reachable state.
LEMMA QuietInvariant ==
    ASSUME Deploys = "quiet"
    PROVE  Spec => []QuietInv
<1> QED
  BY InitQuietInv, NextQuietInv, PTL DEF Spec

\* However many workers create, copy and replace snapshots at once: a snapshot holds
\* the form that its name is the hash of.
THEOREM SnapshotsAreNamed ==
    ASSUME Deploys = "quiet"
    PROVE  Spec => []SnapshotNamed
<1> QED
  BY QuietInvariant, PTL DEF QuietInv

\* ... so that what a session is loaded with is what it was created with.
THEOREM FormKept ==
    ASSUME Deploys = "quiet"
    PROVE  Spec => []FormStays
<1>1. QuietInv => FormStays
  BY DEF QuietInv, KeptInv, FormStays
<1> QED
  BY <1>1, QuietInvariant, PTL

\* A new session gets the form deployed now, also when it finds a snapshot that an
\* earlier session has left.
THEOREM NewestForm ==
    ASSUME Deploys = "quiet"
    PROVE  Spec => NewSessionUsesCurrent
<1> DEFINE Newest == \A s \in Session : sessions[s] = None /\ sessions'[s] # None =>
                         sessions'[s].form = current
<1>1. QuietInv /\ [Next]_vars => Newest
  <2> SUFFICES ASSUME QuietInv, [Next]_vars, NEW s \in Session,
                      sessions[s] = None, sessions'[s] # None
               PROVE  sessions'[s].form = current
    OBVIOUS
  <2>1. PICK w \in Worker : SaveSession(w)
    BY DEF Next, vars, DeployForm, BeginSession, HashCurrent, LookUpSnapshot, CopyCurrent,
           RenameCopy, LoadSurvey, Crash
  <2>2. sessions' = [sessions EXCEPT ![sid[w]] = [name |-> current, form |-> current]]
    BY <2>1, SaveQuietInv
  <2> QED
    BY <2>2 DEF QuietInv, TypeInv, TypeOK
<1> QED
  BY <1>1, QuietInvariant, PTL DEF Spec, NewSessionUsesCurrent
=============================================================================
