-------------------------- MODULE MCSurveySnapshot --------------------------
(* Values of the constants of SurveySnapshot for TLC. *)
EXTENDS SurveySnapshot, TLC

\* Workers, forms and session ids are only compared.
SnapshotSymmetry == Permutations(Worker) \cup Permutations(Form) \cup Permutations(Session)
=============================================================================
