----------------------------- MODULE TableValues -----------------------------
(***************************************************************************)
(* The values of the generated table, by what the rules tell apart.        *)
(***************************************************************************)
EXTENDS LineBreakClasses

Singles(classes) == {{c} : c \in classes}

\* The values of one class (the others only come combined), marks left out.
Plain == Singles(Class \ (Marks \cup {"DC", "EA", "EM", "EPU", "H2", "H3", "JL",
                                      "PF", "PI"}))

\* The values that combine bits.
EastAsian == { {c, "EA"} : c \in {"AL", "BA", "CL", "EB", "EM", "EX", "GL", "H2",
                                  "H3", "ID", "IN", "JL", "NS", "OP", "PO",
                                  "PR"} }
Combined == EastAsian \cup { {"AL", "DC"}, {"AL", "EPU"}, {"EPU", "ID"},
                             {"PF", "QU"}, {"PI", "QU"} }

\* With {}, the value of an unassigned character.
AllValues == Plain \cup Combined \cup {{}}

MarkValues == {{"CM"}, {"ZWJ"}, {"CM", "EA"}}
=============================================================================
