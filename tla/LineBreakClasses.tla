-------------------------- MODULE LineBreakClasses --------------------------
(***************************************************************************)
(* The vocabulary of the line breaker: the bits of a `property` value      *)
(* (trie.go) and the kinds of break that NextBreak reports (break.go).     *)
(*                                                                         *)
(* A property is a uint64 bit mask in the code.  Here it is the set of     *)
(* the classes whose bits are set: `p | q` is p \cup q, and a value of     *)
(* zero is {}.                                                             *)
(***************************************************************************)

Class == { "AK", "AL", "AP", "AS", "B2", "BA", "BB", "BK", "CB", "CL", "CM",
           "CP", "CR", "DC", "EA", "EB", "EM", "EPU", "EX", "GL", "H2", "H3",
           "HH", "HL", "HY", "ID", "IN", "IS", "JL", "JT", "JV", "LF", "NL",
           "NS", "NU", "OP", "PF", "PI", "PO", "PR", "QU", "RI", "SP", "SY",
           "VF", "VI", "WJ", "ZW", "ZWJ" }

Property == SUBSET Class

\* property.is: does the value have one of the bits?
Is(p, classes) == p \cap classes # {}

breakOpportunity == "opportunity"
breakMandatory   == "mandatory"
BreakKind == {breakOpportunity, breakMandatory}

\* The classes that force a line break after them (LB4, LB5), and the marks
\* that LB9 attaches to the character before them.
Hard  == {"BK", "CR", "LF", "NL"}
Marks == {"CM", "ZWJ"}

\* The bits that are no class of LineBreak.txt and come beside one
\* (generateTrieSource).
annotationMask == {"DC", "EA", "EPU", "PI", "PF"}
=============================================================================
