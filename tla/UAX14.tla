-------------------------------- MODULE UAX14 --------------------------------
(***************************************************************************)
(* The line breaking rules as the comments of break.go state them, read as *)
(* patterns over a whole text: nothing is remembered from one boundary to  *)
(* the next, and a line's start is not the text's start.  This is the      *)
(* reference that the scanner of NextBreak is compared with.               *)
(*                                                                         *)
(* p and q map the places of a text's characters, which are numbers in the *)
(* order of the text, to their properties.  A boundary is the pair of      *)
(* places next to it, l before and r after.                                *)
(***************************************************************************)
EXTENDS LineBreakClasses, Integers, FiniteSets

\* The place k comes right after j.
Adjacent(q, j, k) == j < k /\ \A m \in DOMAIN q : ~(j < m /\ m < k)

\* The property of the character before or after a place, {} if there is none.
Prior(q, k)     == UNION {q[j] : j \in {i \in DOMAIN q : Adjacent(q, i, k)}}
Following(q, j) == UNION {q[k] : k \in {i \in DOMAIN q : Adjacent(q, j, i)}}

\* sot, or one of the classes, stands before the place k.
StartOr(q, k, classes) == Prior(q, k) = {} \/ Is(Prior(q, k), classes)

\* Between j and k there are characters of the classes only.
Run(q, j, k, classes) == \A m \in DOMAIN q : j < m /\ m < k => Is(q[m], classes)

-----------------------------------------------------------------------------
(* The rules at the boundary of l and r.                                   *)

\* A character of the class `first`, and then some of the classes `rest`, stand
\* before r.
Sequel(q, r, first, rest) ==
  \E j \in DOMAIN q : j < r /\ Is(q[j], first) /\ Run(q, j, r, rest)

Spaced(q, r, classes) == Sequel(q, r, classes, {"SP"})
Number(q, r)          == Sequel(q, r, {"NU"}, {"SY", "IS"})

\* The characters at the boundary are of these classes.
Pair(q, l, r, left, right) == Is(q[l], left) /\ Is(q[r], right)

Mandatory(q, l, r) == Is(q[l], Hard) /\ ~Pair(q, l, r, {"CR"}, {"LF"})

R15a(q, r) ==
  \E j \in DOMAIN q :
    /\ j < r
    /\ {"PI", "QU"} \subseteq q[j]
    /\ Run(q, j, r, {"SP"})
    /\ StartOr(q, j, Hard \cup {"OP", "QU", "GL", "SP", "ZW"})

R15b(q, r) ==
  /\ {"PF", "QU"} \subseteq q[r]
  /\ \/ Following(q, r) = {}
     \/ Is(Following(q, r), Hard \cup {"SP", "GL", "WJ", "CL", "QU", "CP", "EX",
                                       "IS", "SY", "ZW"})

R19a(q, l, r) ==
  LET wide(p) == Is(p, {"EA"})
  IN  \/ Is(q[r], {"QU"}) /\ ~(wide(q[l]) /\ wide(Following(q, r)))
      \/ Is(q[l], {"QU"}) /\ ~(wide(q[r]) /\ wide(Prior(q, l)))

R20a(q, l, r) ==
  /\ Pair(q, l, r, {"HY", "HH"}, {"AL", "HL"})
  /\ StartOr(q, l, Hard \cup {"SP", "ZW", "CB", "GL"})

R21a(q, l, r) ==
  /\ Is(Prior(q, l), {"HL"})
  /\ Is(q[l], {"HY", "HH"})
  /\ ~Is(q[r], {"HL"})

\* NU, or IS NU, follows the place k.
NumberFollows(q, k) ==
  \/ Is(Following(q, k), {"NU"})
  \/ \E j \in DOMAIN q : /\ Adjacent(q, k, j)
                         /\ Is(q[j], {"IS"})
                         /\ Is(Following(q, j), {"NU"})

R25(q, l, r) ==
  \/ Number(q, r) /\ Is(q[r], {"PO", "PR", "NU"})
  \/ Number(q, l) /\ Pair(q, l, r, {"CL", "CP"}, {"PO", "PR"})
  \/ Pair(q, l, r, {"PO", "PR"}, {"OP"}) /\ NumberFollows(q, r)
  \/ Pair(q, l, r, {"PO", "PR", "HY", "IS"}, {"NU"})

R26(q, l, r) ==
  \/ Pair(q, l, r, {"JL"}, {"JL", "JV", "H2", "H3"})
  \/ Pair(q, l, r, {"JV", "H2"}, {"JV", "JT"})
  \/ Pair(q, l, r, {"JT", "H3"}, {"JT"})

R28a(q, l, r) ==
  LET aksara == {"AK", "DC", "AS"}
  IN  \/ Pair(q, l, r, {"AP"}, aksara)
      \/ Pair(q, l, r, aksara, {"VF", "VI"})
      \/ Is(Prior(q, l), aksara) /\ Pair(q, l, r, {"VI"}, {"AK", "DC"})
      \/ Pair(q, l, r, aksara, aksara) /\ Is(Following(q, r), {"VF"})

R30(q, l, r) ==
  \/ Pair(q, l, r, {"AL", "HL", "NU"}, {"OP"}) /\ ~Is(q[r], {"EA"})
  \/ Pair(q, l, r, {"CP"}, {"AL", "HL", "NU"}) /\ ~Is(q[l], {"EA"})

\* The RI right before r, an odd number of which leaves one without its pair.
Flags(q, r) == {j \in DOMAIN q : /\ j < r
                                 /\ Is(q[j], {"RI"})
                                 /\ Run(q, j, r, {"RI"})}
R30a(q, r) == Is(q[r], {"RI"}) /\ Cardinality(Flags(q, r)) % 2 = 1

Korean == {"JL", "JV", "JT", "H2", "H3"}
Letter == {"AL", "HL"}

OtherPairs(q, l, r) ==
  LET between(left, right) == Pair(q, l, r, left, right)
  IN  \/ between({"SY"}, {"HL"})                                      \* LB21b
      \/ between(Letter, {"NU"}) \/ between({"NU"}, Letter)           \* LB23
      \/ between({"PR"}, {"ID", "EB", "EM"})                          \* LB23a
      \/ between({"ID", "EB", "EM"}, {"PO"})
      \/ between({"PR", "PO"}, Letter) \/ between(Letter, {"PR", "PO"}) \* LB24
      \/ between(Korean, {"PO"}) \/ between({"PR"}, Korean)           \* LB27
      \/ between(Letter, Letter)                                      \* LB28
      \/ between({"IS"}, Letter)                                      \* LB29
      \/ between({"EB", "EPU"}, {"EM"})                               \* LB30b

\* The rules between those that let a line end: LB11 to LB15b; LB15d, LB16 and
\* LB17; LB19; and the ones from LB20a on.
Joined11(q, l, r) ==
  \/ Is(q[l] \cup q[r], {"WJ"}) \/ Is(q[l], {"GL"})                   \* LB11, 12
  \/ Is(q[r], {"GL"}) /\ ~Is(q[l], {"SP", "BA", "HY", "HH"})          \* LB12a
  \/ Is(q[r], {"CL", "CP", "EX", "SY"})                               \* LB13
  \/ Spaced(q, r, {"OP"})                                             \* LB14
  \/ R15a(q, r) \/ R15b(q, r)

Joined15d(q, r) ==
  \/ Is(q[r], {"IS"})
  \/ Spaced(q, r, {"CL", "CP"}) /\ Is(q[r], {"NS"})                   \* LB16
  \/ Spaced(q, r, {"B2"}) /\ Is(q[r], {"B2"})                         \* LB17

Joined19(q, l, r) ==
  \/ Is(q[r], {"QU"}) /\ ~Is(q[r], {"PI"})
  \/ Is(q[l], {"QU"}) /\ ~Is(q[l], {"PF"})
  \/ R19a(q, l, r)

Joined20a(q, l, r) ==
  \/ R20a(q, l, r)
  \/ Is(q[r], {"BA", "HH", "HY", "NS"}) \/ Is(q[l], {"BB"})           \* LB21
  \/ R21a(q, l, r)
  \/ Is(q[r], {"IN"})                                                 \* LB22
  \/ R25(q, l, r) \/ R26(q, l, r) \/ R28a(q, l, r) \/ R30(q, l, r)
  \/ R30a(q, r) \/ OtherPairs(q, l, r)

\* May a line end at the boundary?
MayEnd(q, l, r) ==
  IF Is(q[l], Hard) THEN Mandatory(q, l, r)                           \* LB4, 5
  ELSE IF Is(q[r], Hard \cup {"SP", "ZW"}) THEN FALSE                 \* LB6, 7
  ELSE IF Spaced(q, r, {"ZW"}) THEN TRUE                              \* LB8
  ELSE IF Joined11(q, l, r) THEN FALSE
  ELSE IF Pair(q, l, r, {"SP"}, {"IS"}) /\ Is(Following(q, r), {"NU"})
       THEN TRUE                                                      \* LB15c
  ELSE IF Joined15d(q, r) THEN FALSE
  ELSE IF Is(q[l], {"SP"}) THEN TRUE                                  \* LB18
  ELSE IF Joined19(q, l, r) THEN FALSE
  ELSE IF Is(q[l] \cup q[r], {"CB"}) THEN TRUE                        \* LB20
  ELSE ~Joined20a(q, l, r)                                            \* LB31

-----------------------------------------------------------------------------
(* A text with marks.                                                      *)

\* LB9: a CM or ZWJ belongs to the character before it, unless that is a hard
\* break, a space or ZW.
Absorbed(p, j) == Is(p[j], Marks) /\ ~StartOr(p, j, Hard \cup {"SP", "ZW"})

\* LB10: the marks that are left are AL.
Bases(p) == [ j \in {m \in DOMAIN p : ~Absorbed(p, m)} |->
                IF Is(p[j], Marks) THEN {"AL"} ELSE p[j] ]

\* The places of p before which a line may end: not within a cluster of LB9, and
\* not after a ZWJ (LB8a).
LineEnds(p) ==
  { r \in DOMAIN Bases(p) :
      /\ ~Is(Prior(p, r), {"ZWJ"})
      /\ \E l \in DOMAIN Bases(p) : /\ Adjacent(Bases(p), l, r)
                                    /\ MayEnd(Bases(p), l, r) }
=============================================================================
