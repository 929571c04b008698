-------------------------- MODULE MCSurveySession --------------------------
(* Values of the constants of SurveySession for TLC. *)
EXTENDS SurveySession, TLC

CONSTANTS q1, q2, q3, q4, v1, v2

ThreeQuestions == <<q1, q2, q3>>
FourQuestions  == <<q1, q2, q3, q4>>

\* Values are only ever compared.  The order of the questions matters to the
\* generic controller alone: in Python mode they are interchangeable too.
PythonSymmetry == Permutations({v1, v2}) \cup Permutations({q1, q2, q3})
=============================================================================
