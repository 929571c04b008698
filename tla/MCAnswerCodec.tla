---------------------------- MODULE MCAnswerCodec ----------------------------
(* Values of the constants of AnswerCodec for TLC. *)
EXTENDS AnswerCodec

WithoutBackslash == Char \ {Backslash}
=============================================================================
