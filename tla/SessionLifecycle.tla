-------------------------- MODULE SessionLifecycle --------------------------
(***************************************************************************)
(* What docs/sessions.md ("Session Lifetime") promises of a session whose  *)
(* questions are asked one after the other: the states it goes through and *)
(* how far the interview has come.  SurveySession implements it in generic *)
(* mode, with the number of given answers as progress.                     *)
(***************************************************************************)
EXTENDS Naturals

CONSTANT Total      \* the number of questions of the survey, at least one

VARIABLES phase, progress

lvars == <<phase, progress>>

Phase == {"none", "new", "open", "finished", "closed"}

LInit == phase = "none" /\ progress = 0

\* 1. New session.
Create == /\ phase = "none"
          /\ phase' = "new"
          /\ progress' = 0

\* 2. and 3. An answer opens the session, the last one finishes it.
Answer == /\ phase \in {"new", "open"}
          /\ progress' = progress + 1
          /\ phase' = IF progress' = Total THEN "finished" ELSE "open"

\* 3.1 Deleting answers reopens a finished session; an open one stays open, even
\* when no answer is left.
Delete == /\ phase \in {"open", "finished"}
          /\ progress' \in 0..(progress - 1)
          /\ phase' = "open"

\* 4. The analysis closes a finished session.
Close == /\ phase = "finished"
         /\ phase' = "closed"
         /\ UNCHANGED progress

\* delsession of the command line tool.
Remove == /\ phase # "none"
          /\ phase' = "none"
          /\ progress' = 0

LNext == Create \/ Answer \/ Delete \/ Close \/ Remove

LSpec == LInit /\ [][LNext]_lvars
=============================================================================
