--------------------------- MODULE MCDivergences ----------------------------
(***************************************************************************)
(* Texts on which the code and its comments or tests disagree.             *)
(***************************************************************************)
EXTENDS Conformance

\* Texts of the rules that the code reads differently from its comments: a mark
\* that starts a text (LB10), marks after hyphens (LB20a), and a wide bracket
\* before a number (LB25).
LeadingMarkTexts  == {Encoded(<<{"CM"}, p>>) : p \in AllValues}
AbsorbedMarkTexts ==
  {Encoded(ps) : ps \in {qs \in SeqOf(Singles({"HL", "HY", "AL", "CM"}), 4) :
                           ~StartsWithMark(qs)}}
WideBracketTexts  == TextsOf(Singles({"PR", "IS", "NU"}) \cup {{"OP", "EA"}}, 4)
=============================================================================
