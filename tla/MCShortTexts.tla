---------------------------- MODULE MCShortTexts ----------------------------
(***************************************************************************)
(* Texts of up to three characters, of all the values of the table.        *)
(***************************************************************************)
EXTENDS Conformance

\* Every text of two characters, and of three without AS.
ShortTexts ==
  LET withoutAS == AllValues \ {{"AS"}}
  IN  {Encoded(ps) : ps \in SeqOf(AllValues, 2) \cup SeqOf(withoutAS, 3)}
=============================================================================
