------------------------------ MODULE MCTexts ------------------------------
(***************************************************************************)
(* An instance of Texts for TLC: numbers of one digit more than a long     *)
(* holds, and lists that make entries of several blocks.                   *)
(***************************************************************************)
EXTENDS Texts

MCMaxLength == [hex |-> 4, header |-> 6, list |-> 7]
=============================================================================
