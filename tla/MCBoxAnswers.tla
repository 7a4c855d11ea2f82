---------------------------- MODULE MCBoxAnswers ----------------------------
(* Small instances of BoxAnswers.                                           *)
EXTENDS BoxAnswers
=============================================================================
