------------------------------ MODULE MCQeSend ------------------------------
(***************************************************************************)
(* QeSend with a TX memory of three bytes, read as two digits of base 2.     *)
(***************************************************************************)
EXTENDS QeSend
=============================================================================
