---------------------------- MODULE ScanContext ----------------------------
(***************************************************************************)
(* What the variables of NextBreak's loop stand for: each is named for a   *)
(* character of the slice, and holds its value so that the rules need not  *)
(* look back.  Here that character is found by looking back.               *)
(*                                                                         *)
(* A character is the offset at which its encoding starts.                 *)
(***************************************************************************)
EXTENDS NextBreak, FiniteSets

\* The characters of the slice before the last one scanned.
Passed ==
  {o \in start .. start + pos - 1 :
     Complete(text, o) /\ o + text[o + 1].len < start + pos}

\* XX is AL (LB1).
Raw(o) == IF text[o + 1].prop = {} THEN {"AL"} ELSE text[o + 1].prop

\* LB10: a mark is AL after a space or ZW; and in the run of marks that starts a
\* call, after the first that is no ZWJ (LB8a joins what follows a ZWJ).
Alone(o) ==
  /\ Is(Raw(o), Marks)
  /\ \E p \in start .. o - 1 :
       /\ Complete(text, p)
       /\ p + text[p + 1].len = o
       /\ IF Is(Raw(p), Marks)
          THEN /\ ~Is(Raw(p), {"ZWJ"})
               /\ \A q \in start .. p - 1 : Complete(text, q) => Is(Raw(q), {"ZWJ"})
          ELSE Is(Raw(p), Hard \cup {"SP", "ZW"})

\* The value that the loop takes a character for.
ValueAt(o) == IF Alone(o) THEN {"AL"} ELSE Raw(o)

\* The value of the last of some characters, and those that have one after them.
Latest(P) == IF P = {} THEN {} ELSE ValueAt(Max(P))
AllButLatest(P) == {j \in P : \E k \in P : j < k}

Without(P, classes) == {j \in P : ~Is(ValueAt(j), classes)}

\* s remembers of the characters P what the names of its variables say.
\* (beforeLastExSYIS does, if there was no mark: it is shifted again at each one.)
Remembers(s, P) ==
  LET bases   == Without(P, Marks)
      solid   == Without(P, {"SP"})
      numeric == bases \cap Without(P, {"SY", "IS"})
      notRI   == bases \cap Without(P, {"RI"})
  IN  /\ s.last = Latest(P)
      /\ s.prevExCMZWJ = Latest(bases \cap AllButLatest(P))
      /\ s.lastExSP = Latest(solid)
      /\ s.beforeLastExSP = Latest({j \in bases : \E k \in solid : j < k})
      /\ s.lastExCMZWJ = Latest(bases)
      /\ s.lastExCMZWJSP = Latest(bases \cap solid)
      /\ s.lastExSYIS = Latest(numeric)
      /\ bases = P => s.beforeLastExSYIS = Latest(AllButLatest(numeric))
      /\ s.regionalIndicatorCount =
           Cardinality({j \in bases : \A k \in notRI : k < j})

\* The comments at break.go:19-27, for valid UTF-8: at the head of the loop each
\* variable is the character that it is named for, however many marks, spaces,
\* separators and regional indicators have passed.
RememberedContext ==
  (pc = "scan" /\ WellFormed(text)) => Remembers(seen, Passed)
=============================================================================
