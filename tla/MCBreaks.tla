------------------------------ MODULE MCBreaks ------------------------------
(***************************************************************************)
(* Whole texts of ByteTexts cut into lines.                                *)
(***************************************************************************)
EXTENDS Breaks, ByteTexts
=============================================================================
