--------------------------- MODULE LineBreakRules ---------------------------
(***************************************************************************)
(* The body of NextBreak's loop (break.go): what one iteration remembers   *)
(* of the characters before the boundary, and the rules it applies, in the *)
(* order it applies them.                                                  *)
(*                                                                         *)
(* s is what the iteration remembers, with the names of the variables of   *)
(* the code; c is the property of the character after the boundary; next   *)
(* and next2 are the properties seen beyond that character.                *)
(***************************************************************************)
EXTENDS LineBreakClasses, Integers

Remembered ==
  [ last: Property, prevExCMZWJ: Property,
    lastExSP: Property, beforeLastExSP: Property,
    lastExCMZWJ: Property, lastExCMZWJSP: Property,
    lastExSYIS: Property, beforeLastExSYIS: Property,
    regionalIndicatorCount: Nat ]

\* The zero values the variables have when NextBreak is entered.
Nothing ==
  [ last |-> {}, prevExCMZWJ |-> {}, lastExSP |-> {}, beforeLastExSP |-> {},
    lastExCMZWJ |-> {}, lastExCMZWJSP |-> {}, lastExSYIS |-> {},
    beforeLastExSYIS |-> {}, regionalIndicatorCount |-> 0 ]

\* Mutant: the place before spaces is kept through a mark, as it should be
\* through a space only.
Mutant_Remember(s, last) ==
  LET mark  == Is(last, Marks)
      space == Is(last, {"SP"})
      base  == IF mark THEN s.lastExCMZWJ ELSE last
      infix == Is(base, {"SY", "IS"})
  IN  [ last             |-> last,
        prevExCMZWJ      |-> s.lastExCMZWJ,
        lastExSP         |-> IF space \/ mark THEN s.lastExSP ELSE last,
        beforeLastExSP   |-> IF space THEN s.beforeLastExSP ELSE s.lastExCMZWJ,
        lastExCMZWJ      |-> base,
        lastExCMZWJSP    |-> IF mark \/ space THEN s.lastExCMZWJSP ELSE last,
        lastExSYIS       |-> IF infix THEN s.lastExSYIS ELSE base,
        beforeLastExSYIS |-> IF infix THEN s.beforeLastExSYIS ELSE s.lastExSYIS,
        regionalIndicatorCount |->
          IF mark THEN s.regionalIndicatorCount
          ELSE IF Is(last, {"RI"}) THEN s.regionalIndicatorCount + 1 ELSE 0 ]

\* "Remember previous properties to avoid lookbacks": the character last has
\* just become the one before the boundary.
Remember(s, last) ==
  LET mark  == Is(last, Marks)
      space == Is(last, {"SP"})
      base  == IF mark THEN s.lastExCMZWJ ELSE last
      infix == Is(base, {"SY", "IS"})
  IN  [ last             |-> last,
        prevExCMZWJ      |-> s.lastExCMZWJ,
        lastExSP         |-> IF space THEN s.lastExSP ELSE last,
        beforeLastExSP   |-> IF space THEN s.beforeLastExSP ELSE s.lastExCMZWJ,
        lastExCMZWJ      |-> base,
        lastExCMZWJSP    |-> IF mark \/ space THEN s.lastExCMZWJSP ELSE last,
        lastExSYIS       |-> IF infix THEN s.lastExSYIS ELSE base,
        beforeLastExSYIS |-> IF infix THEN s.beforeLastExSYIS ELSE s.lastExSYIS,
        regionalIndicatorCount |->
          IF mark THEN s.regionalIndicatorCount
          ELSE IF Is(last, {"RI"}) THEN s.regionalIndicatorCount + 1 ELSE 0 ]

-----------------------------------------------------------------------------
(* The rules, each named for its number in UAX #14.  A definition called   *)
(* Mutant_... is a mistake in the rule below it, which the properties must *)
(* notice.                                                                 *)

LB4(s)          == Is(s.last, {"BK"})
Mutant_LB5Joins(s, c) == FALSE
LB5Joins(s, c)  == Is(s.last, {"CR"}) /\ Is(c, {"LF"})
Mutant_LB5(s) == Is(s.last, {"CR", "LF"})
LB5(s)          == Is(s.last, {"CR", "LF", "NL"})
LB6(c)          == Is(c, Hard)
LB7(c)          == Is(c, {"SP", "ZW"})
LB8(s)          == Is(s.lastExSP, {"ZW"})
LB8a(s)         == Is(s.last, {"ZWJ"})
LB9(s, c)       == /\ Is(c, Marks)
                   /\ s.lastExCMZWJ # {}
                   /\ ~Is(s.lastExCMZWJ, Hard \cup {"SP", "ZW"})
LB10(c)         == IF Is(c, Marks) THEN {"AL"} ELSE c
LB11(s, c)      == Is(c \cup s.lastExCMZWJ, {"WJ"})
LB12(s)         == Is(s.lastExCMZWJ, {"GL"})
Mutant_LB12a(s, c) == Is(c, {"GL"}) /\ ~Is(s.lastExCMZWJ, {"SP", "BA", "HY"})
LB12a(s, c)     == /\ Is(c, {"GL"})
                   /\ ~Is(s.lastExCMZWJ, {"SP", "BA", "HY", "HH"})
LB13(c)         == Is(c, {"CL", "CP", "EX", "SY"})
LB14(s)         == Is(s.lastExCMZWJSP, {"OP"})
LB15a(s)        == /\ Is(s.lastExCMZWJSP, {"PI"})
                   /\ \/ s.beforeLastExSP = {}
                      \/ Is(s.beforeLastExSP,
                            Hard \cup {"OP", "QU", "GL", "SP", "ZW"})
LB15b(c, next)  == /\ Is(c, {"PF"}) /\ Is(c, {"QU"})
                   /\ \/ next = {}
                      \/ Is(next, Hard \cup {"SP", "GL", "WJ", "CL", "QU", "CP",
                                             "EX", "IS", "SY", "ZW"})
LB15c(s, c, next) == Is(s.last, {"SP"}) /\ Is(c, {"IS"}) /\ Is(next, {"NU"})
LB15d(c)        == Is(c, {"IS"})
LB16(s, c)      == Is(s.lastExCMZWJSP, {"CL", "CP"}) /\ Is(c, {"NS"})
LB17(s, c)      == Is(s.lastExCMZWJSP, {"B2"}) /\ Is(c, {"B2"})
LB18(s)         == Is(s.last, {"SP"})
LB19(s, c)      == \/ Is(c, {"QU"}) /\ ~Is(c, {"PI"})
                   \/ Is(s.lastExCMZWJ, {"QU"}) /\ ~Is(s.lastExCMZWJ, {"PF"})
LB19a(s, c, next) ==
  \/ Is(c, {"QU"}) /\ (~Is(s.last, {"EA"}) \/ ~Is(next, {"EA"}))
  \/ /\ Is(s.last, {"QU"})
     /\ ~Is(c, {"EA"}) \/ s.prevExCMZWJ = {} \/ ~Is(s.prevExCMZWJ, {"EA"})
LB20(s, c)      == Is(c \cup s.lastExCMZWJ, {"CB"})
LB20a(s, c)     == /\ Is(s.last, {"HY", "HH"})
                   /\ Is(c, {"AL", "HL"})
                   /\ \/ s.prevExCMZWJ = {}
                      \/ Is(s.prevExCMZWJ, Hard \cup {"SP", "ZW", "CB", "GL"})
LB21(s, c)      == Is(c, {"BA", "HH", "HY", "NS"}) \/ Is(s.lastExCMZWJ, {"BB"})
LB21a(s, c)     == /\ Is(s.prevExCMZWJ, {"HL"}) /\ Is(s.last, {"HY", "HH"})
                   /\ ~Is(c, {"HL"})
LB21b(s, c)     == Is(s.lastExCMZWJ, {"SY"}) /\ Is(c, {"HL"})
LB22(c)         == Is(c, {"IN"})
LB23(s, c)      == \/ Is(s.lastExCMZWJ, {"AL", "HL"}) /\ Is(c, {"NU"})
                   \/ Is(s.lastExCMZWJ, {"NU"}) /\ Is(c, {"AL", "HL"})
LB23a(s, c)     == \/ Is(s.lastExCMZWJ, {"PR"}) /\ Is(c, {"ID", "EB", "EM"})
                   \/ Is(s.lastExCMZWJ, {"ID", "EB", "EM"}) /\ Is(c, {"PO"})
LB24(s, c)      == \/ Is(s.lastExCMZWJ, {"PR", "PO"}) /\ Is(c, {"AL", "HL"})
                   \/ Is(s.lastExCMZWJ, {"AL", "HL"}) /\ Is(c, {"PR", "PO"})

\* LB25, in the code's five tests: inside a number, before a postfix or a
\* prefix, the same after a closing bracket, before an opening bracket, and
\* before a digit.
LB25Infix(s, c)  == Is(s.lastExCMZWJ, {"NU"}) /\ Is(c, {"SY", "IS", "CL", "CP"})
LB25Affix(s, c)  == /\ Is(c, {"PO", "PR"})
                    /\ \/ Is(s.lastExCMZWJ, {"NU"})
                       \/ /\ Is(s.lastExCMZWJ, {"SY", "IS"})
                          /\ Is(s.lastExSYIS, {"NU"})
Mutant_LB25Closed(s, c) == /\ Is(s.lastExCMZWJ, {"CL", "CP"})
                           /\ Is(c, {"PO", "PR"})
                           /\ Is(s.lastExSYIS, {"NU"})
LB25Closed(s, c) == /\ Is(s.lastExCMZWJ, {"CL", "CP"})
                    /\ Is(c, {"PO", "PR"})
                    /\ Is(s.beforeLastExSYIS, {"NU"})
LB25Open(s, c, next, next2) ==
  /\ Is(s.lastExCMZWJ, {"PO", "PR"}) /\ Is(c, {"OP"})
  /\ Is(next, {"NU"}) \/ (Is(next, {"IS"}) /\ Is(next2, {"NU"}))
LB25Digit(s, c)  == /\ Is(c, {"NU"})
                    /\ \/ Is(s.lastExCMZWJ, {"PO", "PR", "HY", "IS", "NU"})
                       \/ /\ Is(s.lastExCMZWJ, {"SY", "IS", "CL", "CP"})
                          /\ Is(s.lastExSYIS, {"NU"})
LB25(s, c, next, next2) ==
  \/ LB25Infix(s, c) \/ LB25Affix(s, c) \/ LB25Closed(s, c)
  \/ LB25Open(s, c, next, next2) \/ LB25Digit(s, c)

LB26(s, c)      == \/ /\ Is(s.lastExCMZWJ, {"JL"})
                      /\ Is(c, {"JL", "JV", "H2", "H3"})
                   \/ Is(s.lastExCMZWJ, {"JV", "H2"}) /\ Is(c, {"JV", "JT"})
                   \/ Is(s.lastExCMZWJ, {"JT", "H3"}) /\ Is(c, {"JT"})
LB27(s, c)      == LET korean == {"JL", "JV", "JT", "H2", "H3"}
                   IN  \/ Is(s.lastExCMZWJ, korean) /\ Is(c, {"PO"})
                       \/ Is(s.lastExCMZWJ, {"PR"}) /\ Is(c, korean)
LB28(s, c)      == Is(s.lastExCMZWJ, {"AL", "HL"}) /\ Is(c, {"AL", "HL"})
LB28a(s, c, next) ==
  LET aksara == {"AK", "AS", "DC"}
  IN  \/ Is(s.lastExCMZWJ, {"AP"}) /\ Is(c, aksara)
      \/ Is(s.lastExCMZWJ, aksara) /\ Is(c, {"VF", "VI"})
      \/ /\ Is(s.lastExCMZWJ, {"VI"}) /\ Is(c, aksara)
         /\ Is(s.prevExCMZWJ, aksara)
      \/ Is(s.lastExCMZWJ, aksara) /\ Is(c, aksara) /\ Is(next, {"VF"})
LB29(s, c)      == Is(s.lastExCMZWJ, {"IS"}) /\ Is(c, {"AL", "HL"})
LB30(s, c)      == \/ /\ Is(s.lastExCMZWJ, {"AL", "HL", "NU"})
                      /\ Is(c, {"OP"}) /\ ~Is(c, {"EA"})
                   \/ /\ Is(s.lastExCMZWJ, {"CP"}) /\ ~Is(s.lastExCMZWJ, {"EA"})
                      /\ Is(c, {"AL", "HL", "NU"})
LB30a(s, c)     == /\ Is(s.lastExCMZWJ, {"RI"}) /\ Is(c, {"RI"})
                   /\ s.regionalIndicatorCount % 2 = 1
LB30b(s, c)     == Is(s.lastExCMZWJ, {"EB", "EPU"}) /\ Is(c, {"EM"})

-----------------------------------------------------------------------------
(* The order of the rules: the first that applies decides.                 *)

join == "join"            \* the code's `pos += w; continue`
undecided == "undecided"  \* none of the rules up to LB9 applied

\* The rules that look at the character as it was read.
RawVerdict(s, c) ==
  IF LB4(s) THEN breakMandatory
  ELSE IF LB5Joins(s, c) THEN join
  ELSE IF LB5(s) THEN breakMandatory
  ELSE IF LB6(c) \/ LB7(c) THEN join
  ELSE IF LB8(s) THEN breakOpportunity
  ELSE IF LB8a(s) \/ LB9(s, c) THEN join
  ELSE undecided

\* The rules after LB10.
ResolvedVerdict(s, c, next, next2) ==
  IF \/ LB11(s, c) \/ LB12(s) \/ LB12a(s, c) \/ LB13(c) \/ LB14(s)
     \/ LB15a(s) \/ LB15b(c, next)
  THEN join
  ELSE IF LB15c(s, c, next) THEN breakOpportunity
  ELSE IF LB15d(c) \/ LB16(s, c) \/ LB17(s, c) THEN join
  ELSE IF LB18(s) THEN breakOpportunity
  ELSE IF LB19(s, c) \/ LB19a(s, c, next) THEN join
  ELSE IF LB20(s, c) THEN breakOpportunity
  ELSE IF \/ LB20a(s, c) \/ LB21(s, c) \/ LB21a(s, c) \/ LB21b(s, c)
          \/ LB22(c) \/ LB23(s, c) \/ LB23a(s, c) \/ LB24(s, c)
          \/ LB25(s, c, next, next2) \/ LB26(s, c) \/ LB27(s, c) \/ LB28(s, c)
          \/ LB28a(s, c, next) \/ LB29(s, c) \/ LB30(s, c) \/ LB30a(s, c)
          \/ LB30b(s, c)
  THEN join
  ELSE breakOpportunity

Verdict(s, c, next, next2) ==
  IF RawVerdict(s, c) # undecided
  THEN RawVerdict(s, c)
  ELSE ResolvedVerdict(s, LB10(c), next, next2)

\* Mutant: LB10 is forgotten.
Mutant_Settled(s, c) == c

\* The value `current` keeps: LB10 assigns to it once the rules before it
\* have passed.
Settled(s, c) == IF RawVerdict(s, c) = undecided THEN LB10(c) ELSE c
=============================================================================
