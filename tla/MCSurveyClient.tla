--------------------------- MODULE MCSurveyClient ---------------------------
(* Values of the constants of SurveyClient for TLC. *)
EXTENDS SurveyClient, TLC

CONSTANTS q1, q2, v1

TwoQuestions == <<q1, q2>>
=============================================================================
