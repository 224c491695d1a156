---------------------------- MODULE MCLongTexts -----------------------------
(***************************************************************************)
(* Longer texts, of the values that meet in the rules that look further.   *)
(***************************************************************************)
EXTENDS Conformance

\* Where a rule looks further: numbers, quotations, words with hyphens,
\* aksaras, what spaces separate, flags, marks on letters and digits, on what
\* closes a number, and on quotation marks.
Families ==
  << [of |-> Singles({"NU", "SY", "IS", "CL", "PR", "OP", "SP"}), upTo |-> 5],
     [of |-> Singles({"QU", "AL", "SP"})
             \cup {{"PI", "QU"}, {"PF", "QU"}, {"ID", "EA"}}, upTo |-> 5],
     [of |-> Singles({"HL", "HY", "AL", "SP", "CB"}), upTo |-> 5],
     [of |-> Singles({"AK", "AP", "VF", "VI", "SP"}) \cup {{"AL", "DC"}},
      upTo |-> 5],
     [of |-> Singles({"ZW", "SP", "B2", "CP", "NS", "OP"}), upTo |-> 5],
     [of |-> Singles({"RI", "ZWJ", "AL"}), upTo |-> 6],
     [of |-> Singles({"AL", "NU", "ID", "PR", "CM"}), upTo |-> 5],
     [of |-> Singles({"NU", "SY", "CL", "PO", "CM"}), upTo |-> 5],
     [of |-> Singles({"AL", "SP", "CM", "OP"}) \cup {{"PI", "QU"}}, upTo |-> 5] >>

\* A mark that a call starts with.
LeadingMark(ps) ==
  \E k \in DOMAIN ps : Is(ps[k], Marks) /\ StartOr(ps, k, {"SP"})

\* Characters of the two classes, with nothing but marks between them, and some.
Marked(ps, j, k, first, then) ==
  j + 1 < k /\ Pair(ps, j, k, first, then) /\ Run(ps, j, k, Marks)

\* NU ( SY | CM )* CL CM+ PO
ClosedMark(ps) ==
  \E j, k \in DOMAIN ps : /\ Marked(ps, j, k, {"CL"}, {"PO"})
                         /\ Sequel(ps, j, {"NU"}, {"SY"} \cup Marks)

\* AL CM* QU CM+ SP, where the quotation mark is Pi.
QuotedMark(ps) ==
  \E j, k \in DOMAIN ps : /\ Marked(ps, j, k, {"PI"}, {"SP"})
                         /\ Sequel(ps, j, {"AL"}, Marks)

LongTexts ==
  {Encoded(ps) :
     ps \in {qs \in UNION {SeqOf(Families[f].of, Families[f].upTo) :
                              f \in DOMAIN Families} :
               ~LeadingMark(qs) /\ ~ClosedMark(qs) /\ ~QuotedMark(qs)}}
=============================================================================
