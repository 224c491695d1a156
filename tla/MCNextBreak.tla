---------------------------- MODULE MCNextBreak ----------------------------
(***************************************************************************)
(* One call of NextBreak, on every text of ByteTexts, and on texts that    *)
(* start with marks or hold runs of them, as what is left of a text may.   *)
(***************************************************************************)
EXTENDS ScanContext, ByteTexts

MarkCharacters ==
  { <<Ascii("AL")>>, <<Ascii("SP")>>, <<Ascii("OP")>>, <<Ascii("CM")>>,
    <<Lead(3, {"ZWJ"}), Continuation, Continuation>> }

MarkTexts == {FlattenSeq(cs) : cs \in SeqOf(MarkCharacters, 5)}

CallTexts == AllTexts \cup MarkTexts
=============================================================================
