-------------------------- MODULE ConformanceProofs --------------------------
(***************************************************************************)
(* NextBreak, called again and again on what is left of a text, cuts it    *)
(* where the rules of UAX #14, read over the whole of it, let a line end:  *)
(* for every text of valid UTF-8, of any length, that is Covered.          *)
(*                                                                         *)
(* At one boundary: what the scan remembers of the line tells the rules    *)
(* what they ask (Recalls, Knows), and the rules of break.go then agree    *)
(* with their comments (RulesAgree).  Along a text: no rule looks back     *)
(* beyond the start of a line (LinesAreIndependent), so that the verdict   *)
(* on the slice is that on the text (ScanAgrees), and the cuts stay those  *)
(* of the rules (CutsInv).                                                 *)
(***************************************************************************)
EXTENDS Conformance, ScanContextProofs, UAX14Proofs, WellFoundedInduction

-----------------------------------------------------------------------------
(* The latest of some places.                                              *)

\* A set of numbers has a least one.
LEMMA Least ==
  ASSUME NEW B \in SUBSET Nat, B # {}
  PROVE  \E m \in B : \A k \in B : m <= k
  <1>1. PICK R : R = OpToRel(<, Nat)
    OBVIOUS
  <1>2. IsWellFoundedOn(R, Nat)
    BY <1>1, NatLessThanWellFounded
  <1>3. \E x \in B : \A y \in B : ~(<<y, x>> \in R)
    BY <1>2, WFMin
  <1>4. R = {ss \in Nat \X Nat : ss[1] < ss[2]}
    BY <1>1 DEF OpToRel
  <1>5. \A x \in Nat, y \in Nat : y < x => <<y, x>> \in R
    BY <1>4
  <1>6. PICK x \in B : \A y \in B : ~(<<y, x>> \in R)
    BY <1>3
  <1>7. \A y \in B : x <= y
    <2> SUFFICES ASSUME NEW y \in B PROVE x <= y
      OBVIOUS
    <2>1. x \in Nat /\ y \in Nat
      OBVIOUS
    <2>2. ~(y < x)
      BY <1>5, <1>6, <2>1
    <2>. QED BY <2>1, <2>2
  <1>. QED BY <1>7

\* A set of numbers below a bound has a greatest one, and Max is it.
LEMMA Greatest ==
  ASSUME NEW n \in Nat, NEW B \in SUBSET (0 .. n), B # {}
  PROVE  Max(B) \in B /\ \A k \in B : k <= Max(B)
  <1> DEFINE C == {n - k : k \in B}
  <1>0. \A k \in B : k \in 0 .. n
    OBVIOUS
  <1>1. C \in SUBSET Nat /\ C # {}
    <2>1. \A k \in 0 .. n : n - k \in Nat
      OBVIOUS
    <2>. QED BY <1>0, <2>1
  <1>2. PICK c \in C : \A k \in C : c <= k
    BY <1>1, Least
  <1>3. PICK m \in B : c = n - m
    OBVIOUS
  <1>4. \A k \in B : n - k \in C
    OBVIOUS
  <1>5. \A k \in B : m >= k
    <2> SUFFICES ASSUME NEW k \in B PROVE m >= k
      OBVIOUS
    <2>1. n - m <= n - k /\ m \in Int /\ k \in Int
      BY <1>0, <1>2, <1>3, <1>4
    <2>. QED BY <2>1
  <1>. QED BY <1>5 DEF Max

\* The value at the last of some places of q.
LatestIn(q, B) == IF B = {} THEN {} ELSE q[Max(B)]

\* The places before o, and those of them that are not of some classes.
Earlier(q, o) == {j \in DOMAIN q : j < o}
EarlierBut(q, o, classes) == {j \in Earlier(q, o) : ~Is(q[j], classes)}

\* The last of them is one with nothing but the classes after it.
LEMMA LatestExcept ==
  ASSUME NEW q, IsPlain(q), NEW o \in Nat, NEW skip, EarlierBut(q, o, skip) # {}
  PROVE  \E m \in EarlierBut(q, o, skip) :
           /\ LatestIn(q, EarlierBut(q, o, skip)) = q[m]
           /\ \A k \in EarlierBut(q, o, skip) : k <= m
           /\ Run(q, m, o, skip)
  <1> DEFINE B == EarlierBut(q, o, skip)
             m == Max(B)
  <1>1. B \in SUBSET (0 .. o)
    BY DEF EarlierBut, Earlier, IsPlain
  <1>2. m \in B /\ \A k \in B : k <= m
    BY <1>1, Greatest
  <1>3. Run(q, m, o, skip)
    <2> SUFFICES ASSUME NEW k \in DOMAIN q, m < k, k < o, ~Is(q[k], skip)
                 PROVE  FALSE
      BY DEF Run
    <2>1. k \in B
      BY DEF EarlierBut, Earlier
    <2>2. m \in Nat /\ k \in Nat /\ k <= m
      BY <1>1, <1>2, <2>1
    <2>. QED BY <2>2
  <1>. QED BY <1>2, <1>3 DEF LatestIn

\* So it tells what stands before o, when those classes are passed over.
LEMMA LatestIsSequel ==
  ASSUME NEW q, IsPlain(q), NEW o \in Nat, NEW skip, NEW C,
         \A j \in DOMAIN q : Is(q[j], C) => ~Is(q[j], skip)
  PROVE  Is(LatestIn(q, EarlierBut(q, o, skip)), C) <=> Sequel(q, o, C, skip)
  <1> DEFINE B == EarlierBut(q, o, skip)
  <1>1. CASE B = {}
    <2>1. ~Sequel(q, o, C, skip)
      BY <1>1 DEF Sequel, EarlierBut, Earlier
    <2>2. ~Is({}, C)
      BY DEF Is
    <2>. QED BY <1>1, <2>1, <2>2 DEF LatestIn
  <1>2. CASE B # {}
    <2>1. PICK m \in B : /\ LatestIn(q, B) = q[m]
                         /\ \A k \in B : k <= m
                         /\ Run(q, m, o, skip)
      BY <1>2, LatestExcept
    <2>2. m \in DOMAIN q /\ m < o /\ m \in Nat /\ ~Is(q[m], skip)
      BY DEF EarlierBut, Earlier, IsPlain
    <2>3. ASSUME NEW j \in DOMAIN q, j < o, Is(q[j], C), Run(q, j, o, skip)
          PROVE  j = m
      <3>1. j \in B /\ j \in Nat
        BY <2>3 DEF EarlierBut, Earlier, IsPlain
      <3>2. ~(j < m)
        BY <2>2, <2>3 DEF Run
      <3>. QED BY <2>1, <2>2, <3>1, <3>2
    <2>. QED BY <2>1, <2>2, <2>3 DEF Sequel
  <1>. QED BY <1>1, <1>2

\* The last place before k is next to it.
LEMMA LatestIsPrior ==
  ASSUME NEW q, IsPlain(q), NEW k \in Nat
  PROVE  LatestIn(q, Earlier(q, k)) = Prior(q, k)
  <1> DEFINE B == Earlier(q, k)
             m == Max(B)
  <1>1. CASE B = {}
    <2>1. \A j \in DOMAIN q : ~Adjacent(q, j, k)
      BY <1>1 DEF Earlier, Adjacent
    <2>. QED BY <1>1, <2>1 DEF LatestIn, Prior
  <1>2. CASE B # {}
    <2>1. B \in SUBSET (0 .. k)
      BY DEF Earlier, IsPlain
    <2>2. m \in B /\ \A j \in B : j <= m
      BY <1>2, <2>1, Greatest
    <2>3. m \in DOMAIN q /\ m < k /\ m \in Nat
      BY <2>1, <2>2 DEF Earlier
    <2>4. ASSUME NEW j \in DOMAIN q, m < j, j < k PROVE FALSE
      <3>1. j \in B
        BY <2>4 DEF Earlier
      <3>2. j <= m /\ j \in Nat
        BY <2>1, <2>2, <3>1
      <3>. QED BY <2>3, <2>4, <3>2
    <2>5. Adjacent(q, m, k)
      BY <2>3, <2>4 DEF Adjacent
    <2>. QED BY <1>2, <2>3, <2>5, PriorIs DEF LatestIn
  <1>. QED BY <1>1, <1>2

-----------------------------------------------------------------------------
(* What the scan remembers of a line without marks.                        *)

\* What is remembered at the place o: Remembers of ScanContext, for values without
\* marks.
Recalls(s, q, o) ==
  LET before  == Earlier(q, o)
      solid   == EarlierBut(q, o, {"SP"})
      numeric == EarlierBut(q, o, {"SY", "IS"})
      notRI   == EarlierBut(q, o, {"RI"})
  IN  /\ s.last = LatestIn(q, before)
      /\ s.lastExCMZWJ = LatestIn(q, before)
      /\ s.prevExCMZWJ = LatestIn(q, {j \in before : \E k \in before : j < k})
      /\ s.lastExSP = LatestIn(q, solid)
      /\ s.lastExCMZWJSP = LatestIn(q, solid)
      /\ s.beforeLastExSP = LatestIn(q, {j \in before : \E k \in solid : j < k})
      /\ s.lastExSYIS = LatestIn(q, numeric)
      /\ s.beforeLastExSYIS =
           LatestIn(q, {j \in numeric : \E k \in numeric : j < k})
      /\ s.regionalIndicatorCount =
           Cardinality({j \in before : \A k \in notRI : k < j})

\* The openers of LB15a.
Openers == Hard \cup {"OP", "QU", "GL", "SP", "ZW"}

\* What that tells the rules at the boundary of l and o.
Knows(s, q, l, o) ==
  /\ s.last = q[l]
  /\ s.lastExCMZWJ = q[l]
  /\ s.prevExCMZWJ = Prior(q, l)
  /\ Is(s.lastExSP, {"ZW"}) <=> Spaced(q, o, {"ZW"})
  /\ \A C \in SUBSET (Class \ {"SP"}) : Is(s.lastExCMZWJSP, C) <=> Spaced(q, o, C)
  /\ LB15a(s) <=> R15a(q, o)
  /\ Is(s.lastExSYIS, {"NU"}) <=> Number(q, o)
  /\ Is(q[l], {"CL", "CP"}) => (Is(s.beforeLastExSYIS, {"NU"}) <=> Number(q, l))
  /\ s.regionalIndicatorCount = Cardinality(Flags(q, o))

\* The places before the last of some.
LEMMA BeforeLatest ==
  ASSUME NEW q, IsPlain(q), NEW o \in Nat, NEW B \in SUBSET Earlier(q, o),
         NEW m \in B, \A k \in B : k <= m
  PROVE  {j \in Earlier(q, o) : \E k \in B : j < k} = Earlier(q, m)
  <1>1. m < o /\ m \in Nat
    BY DEF Earlier, IsPlain
  <1>2. \A j \in DOMAIN q : j \in Nat
    BY DEF IsPlain
  <1>3. ASSUME NEW j \in DOMAIN q, j < m PROVE j < o
    BY <1>1, <1>2, <1>3
  <1>4. ASSUME NEW j \in DOMAIN q, NEW k \in B, j < k PROVE j < m
    <2>1. k \in Nat /\ k <= m /\ j \in Nat
      BY <1>2 DEF Earlier
    <2>. QED BY <1>1, <1>4, <2>1
  <1>. QED BY <1>3, <1>4 DEF Earlier

\* LB15a: beforeLastExSP is what stands before the last character that is no space.
LEMMA QuoteRecalled ==
  ASSUME NEW q, IsPlain(q), NEW o \in Nat, NEW s, Recalls(s, q, o)
  PROVE  LB15a(s) <=> R15a(q, o)
  <1> DEFINE B == EarlierBut(q, o, {"SP"})
  <1>1. /\ s.lastExCMZWJSP = LatestIn(q, B)
        /\ s.beforeLastExSP = LatestIn(q, {j \in Earlier(q, o) : \E k \in B : j < k})
    BY DEF Recalls
  <1>2. CASE B = {}
    <2>1. ~LB15a(s)
      BY <1>1, <1>2 DEF LB15a, LatestIn, Is
    <2>2. ASSUME NEW j \in DOMAIN q, j < o, {"PI", "QU"} \subseteq q[j] PROVE FALSE
      <3>1. Is(q[j], {"SP"}) /\ q[j] \in TableValue
        BY <1>2, <2>2 DEF EarlierBut, Earlier, IsPlain
      <3>2. q[j] = {"SP"}
        BY <3>1, OneClass DEF Is
      <3>. QED BY <2>2, <3>2
    <2>. QED BY <2>1, <2>2 DEF R15a
  <1>3. CASE B # {}
    <2>1. PICK m \in B : /\ LatestIn(q, B) = q[m]
                         /\ \A k \in B : k <= m
                         /\ Run(q, m, o, {"SP"})
      BY <1>3, LatestExcept
    <2>2. m \in DOMAIN q /\ m < o /\ m \in Nat /\ ~Is(q[m], {"SP"}) /\ q[m] \in TableValue
      BY DEF EarlierBut, Earlier, IsPlain
    <2>3. s.beforeLastExSP = Prior(q, m)
      <3>1. B \in SUBSET Earlier(q, o)
        BY DEF EarlierBut
      <3>2. {j \in Earlier(q, o) : \E k \in B : j < k} = Earlier(q, m)
        BY <2>1, <3>1, BeforeLatest
      <3>. QED BY <1>1, <2>2, <3>2, LatestIsPrior
    <2>4. LB15a(s) <=> "PI" \in q[m] /\ StartOr(q, m, Openers)
      BY <1>1, <2>1, <2>3 DEF LB15a, StartOr, Openers, Is
    <2>5. "PI" \in q[m] <=> {"PI", "QU"} \subseteq q[m]
      BY <2>2, OneClass
    <2>6. ASSUME NEW j \in DOMAIN q, j < o, {"PI", "QU"} \subseteq q[j],
                 Run(q, j, o, {"SP"})
          PROVE  j = m
      <3>1. q[j] \in TableValue /\ j \in Nat
        BY DEF IsPlain
      <3>2. ~Is(q[j], {"SP"})
        BY <2>6, <3>1, OneClass DEF Is
      <3>3. j \in B
        BY <2>6, <3>2 DEF EarlierBut, Earlier
      <3>4. ~(j < m)
        BY <2>2, <2>6 DEF Run
      <3>. QED BY <2>1, <2>2, <3>1, <3>3, <3>4
    <2>7. R15a(q, o) <=> {"PI", "QU"} \subseteq q[m] /\ StartOr(q, m, Openers)
      BY <2>1, <2>2, <2>6 DEF R15a, Openers
    <2>. QED BY <2>4, <2>5, <2>7
  <1>. QED BY <1>2, <1>3

\* LB25: after CL or CP, beforeLastExSYIS tells whether that bracket closed a number.
LEMMA ClosedRecalled ==
  ASSUME NEW q, IsPlain(q), NEW l \in DOMAIN q, NEW o \in Nat, Adjacent(q, l, o),
         NEW s, Recalls(s, q, o), Is(q[l], {"CL", "CP"})
  PROVE  Is(s.beforeLastExSYIS, {"NU"}) <=> Number(q, l)
  <1> DEFINE B == EarlierBut(q, o, {"SY", "IS"})
  <1>1. l < o /\ l \in Nat /\ q[l] \in TableValue
    BY DEF IsPlain, Adjacent
  <1>2. ~Is(q[l], {"SY", "IS"})
    BY <1>1, OneClass DEF Is, annotationMask
  <1>3. l \in B
    BY <1>1, <1>2 DEF EarlierBut, Earlier
  <1>4. \A k \in B : k <= l
    <2> SUFFICES ASSUME NEW k \in B PROVE k <= l
      OBVIOUS
    <2>1. k \in DOMAIN q /\ k < o /\ k \in Nat
      BY DEF EarlierBut, Earlier, IsPlain
    <2>2. ~(l < k)
      BY <2>1 DEF Adjacent
    <2>. QED BY <1>1, <2>1, <2>2
  <1>5. {j \in B : \E k \in B : j < k} = EarlierBut(q, l, {"SY", "IS"})
    <2>1. ASSUME NEW j \in DOMAIN q, ~Is(q[j], {"SY", "IS"})
          PROVE  (j < o /\ \E k \in B : j < k) <=> j < l
      <3>1. j \in Nat
        BY DEF IsPlain
      <3>2. ASSUME NEW k \in B, j < k PROVE j < l
        <4>1. k \in Nat /\ k <= l
          BY <1>4 DEF EarlierBut, Earlier, IsPlain
        <4>. QED BY <1>1, <3>1, <3>2, <4>1
      <3>3. j < l => j < o
        BY <1>1, <3>1
      <3>. QED BY <1>3, <3>2, <3>3
    <2>. QED BY <2>1 DEF EarlierBut, Earlier
  <1>6. s.beforeLastExSYIS = LatestIn(q, EarlierBut(q, l, {"SY", "IS"}))
    BY <1>5 DEF Recalls
  <1>7. \A j \in DOMAIN q : Is(q[j], {"NU"}) => ~Is(q[j], {"SY", "IS"})
    <2> SUFFICES ASSUME NEW j \in DOMAIN q, Is(q[j], {"NU"}) PROVE ~Is(q[j], {"SY", "IS"})
      OBVIOUS
    <2>1. q[j] \in TableValue
      BY DEF IsPlain
    <2>. QED BY <2>1, OneClass DEF Is, annotationMask
  <1>. QED BY <1>1, <1>6, <1>7, LatestIsSequel DEF Number

\* The class of NU, or another without annotations, excludes those of `skip`.
LEMMA OtherClass ==
  ASSUME NEW q, IsPlain(q), NEW j \in DOMAIN q, NEW C, NEW skip,
         C \cap annotationMask = {}, skip \cap annotationMask = {},
         C \cap skip = {}, Is(q[j], C)
  PROVE  ~Is(q[j], skip)
  <1>1. q[j] \in TableValue
    BY DEF IsPlain
  <1>. QED BY <1>1, OneClass DEF Is

\* A space has no other class.
LEMMA NoSpace ==
  ASSUME NEW q, IsPlain(q), NEW C, "SP" \notin C, NEW j \in DOMAIN q, Is(q[j], C)
  PROVE  ~Is(q[j], {"SP"})
  <1>1. q[j] \in TableValue
    BY DEF IsPlain
  <1>. QED BY <1>1, OneClass DEF Is

\* What is remembered tells the rules what they ask.
LEMMA RecallsTells ==
  ASSUME NEW q, IsPlain(q), NEW l \in DOMAIN q, NEW o \in Nat, Adjacent(q, l, o),
         NEW s, Recalls(s, q, o)
  PROVE  Knows(s, q, l, o)
  <1>1. l < o /\ l \in Nat /\ q[l] \in TableValue
    BY DEF IsPlain, Adjacent
  <1>2. LatestIn(q, Earlier(q, o)) = q[l]
    BY LatestIsPrior, PriorIs
  <1>3. s.last = q[l] /\ s.lastExCMZWJ = q[l]
    BY <1>2 DEF Recalls
  <1>4. s.prevExCMZWJ = Prior(q, l)
    <2>1. l \in Earlier(q, o)
      BY <1>1 DEF Earlier
    <2>2. \A k \in Earlier(q, o) : k <= l
      <3> SUFFICES ASSUME NEW k \in Earlier(q, o) PROVE k <= l
        OBVIOUS
      <3>1. k \in DOMAIN q /\ k < o /\ k \in Nat
        BY DEF Earlier, IsPlain
      <3>2. ~(l < k)
        BY <3>1 DEF Adjacent
      <3>. QED BY <1>1, <3>1, <3>2
    <2>3. {j \in Earlier(q, o) : \E k \in Earlier(q, o) : j < k} = Earlier(q, l)
      <3>1. PICK B \in SUBSET Earlier(q, o) : B = Earlier(q, o)
        OBVIOUS
      <3>2. l \in B /\ \A k \in B : k <= l
        BY <2>1, <2>2, <3>1
      <3>3. {j \in Earlier(q, o) : \E k \in B : j < k} = Earlier(q, l)
        BY <3>2, BeforeLatest
      <3>. QED BY <3>1, <3>3
    <2>. QED BY <1>1, <2>3, LatestIsPrior DEF Recalls
  <1>5. ASSUME NEW C, "SP" \notin C
        PROVE  Is(LatestIn(q, EarlierBut(q, o, {"SP"})), C) <=> Spaced(q, o, C)
    <2>1. \A j \in DOMAIN q : Is(q[j], C) => ~Is(q[j], {"SP"})
      BY <1>5, NoSpace
    <2>. QED BY <2>1, LatestIsSequel DEF Spaced
  <1>6. Is(s.lastExSP, {"ZW"}) <=> Spaced(q, o, {"ZW"})
    BY <1>5 DEF Recalls
  <1>7. \A C \in SUBSET (Class \ {"SP"}) : Is(s.lastExCMZWJSP, C) <=> Spaced(q, o, C)
    BY <1>5 DEF Recalls
  <1>8. LB15a(s) <=> R15a(q, o)
    BY QuoteRecalled
  <1>9. Is(s.lastExSYIS, {"NU"}) <=> Number(q, o)
    <2>1. \A j \in DOMAIN q : Is(q[j], {"NU"}) => ~Is(q[j], {"SY", "IS"})
      BY OtherClass DEF annotationMask
    <2>2. s.lastExSYIS = LatestIn(q, EarlierBut(q, o, {"SY", "IS"}))
      BY DEF Recalls
    <2>. QED BY <2>1, <2>2, LatestIsSequel DEF Number
  <1>10. Is(q[l], {"CL", "CP"}) => (Is(s.beforeLastExSYIS, {"NU"}) <=> Number(q, l))
    BY ClosedRecalled
  <1>11. s.regionalIndicatorCount = Cardinality(Flags(q, o))
    <2>1. \A j \in Earlier(q, o) :
            (\A k \in EarlierBut(q, o, {"RI"}) : k < j) <=> j \in Flags(q, o)
      <3> SUFFICES ASSUME NEW j \in DOMAIN q, j < o
                   PROVE  (\A k \in EarlierBut(q, o, {"RI"}) : k < j) <=> j \in Flags(q, o)
        BY DEF Earlier
      <3>0. j \in Nat
        BY DEF IsPlain
      <3>1. ASSUME \A k \in EarlierBut(q, o, {"RI"}) : k < j PROVE j \in Flags(q, o)
        <4>1. ASSUME NEW k \in DOMAIN q, k < o, ~(k < j) PROVE Is(q[k], {"RI"})
          BY <3>1, <4>1 DEF EarlierBut, Earlier
        <4>2. \A k \in DOMAIN q : j < k => ~(k < j)
          BY <3>0 DEF IsPlain
        <4>. QED BY <3>0, <4>1, <4>2 DEF Flags, Run
      <3>2. ASSUME j \in Flags(q, o), NEW k \in EarlierBut(q, o, {"RI"}) PROVE k < j
        <4>1. k \in DOMAIN q /\ k < o /\ ~Is(q[k], {"RI"}) /\ k \in Nat
          BY DEF EarlierBut, Earlier, IsPlain
        <4>2. ~(j < k) /\ k # j
          BY <3>2, <4>1 DEF Flags, Run
        <4>. QED BY <3>0, <4>1, <4>2
      <3>. QED BY <3>1, <3>2
    <2>2. {j \in Earlier(q, o) : \A k \in EarlierBut(q, o, {"RI"}) : k < j} = Flags(q, o)
      <3>1. Flags(q, o) \subseteq Earlier(q, o)
        BY DEF Flags, Earlier
      <3>. QED BY <2>1, <3>1
    <2>. QED BY <2>2 DEF Recalls
  <1>. QED BY <1>3, <1>4, <1>6, <1>7, <1>8, <1>9, <1>10, <1>11 DEF Knows

-----------------------------------------------------------------------------
(* The rules, one by one.                                                  *)

\* A boundary whose rules are applied with what s remembers, next and next2.
At(s, next, next2, q, l, o) ==
  /\ IsPlain(q) /\ l \in DOMAIN q /\ o \in DOMAIN q /\ Adjacent(q, l, o)
  /\ Knows(s, q, l, o)
  /\ ~Is(q[l], Marks) /\ ~Is(q[o], Marks)
  /\ next = Following(q, o)
  /\ Pair(q, l, o, {"PO", "PR"}, {"OP"}) =>
       (NumberFollows(q, o)
          <=> \/ Is(next, {"NU"})
              \/ Is(next, {"IS"}) /\ Is(next2, {"NU"}))
  /\ ~(Is(Prior(q, l), {"AK", "DC", "AS"}) /\ Pair(q, l, o, {"VI"}, {"AS"}))

\* LB25: where LB13 and LB15d do not join, its five tests see the numbers.
LEMMA NumbersAgree ==
  ASSUME NEW s, NEW next, NEW next2, NEW q, NEW l, NEW o, At(s, next, next2, q, l, o),
         ~Is(q[o], {"CL", "CP", "EX", "SY", "IS"})
  PROVE  LB25(s, q[o], next, next2) <=> R25(q, l, o)
  <1>1. /\ IsPlain(q) /\ l \in DOMAIN q /\ o \in DOMAIN q /\ l < o /\ l \in Nat /\ o \in Nat
        /\ s.lastExCMZWJ = q[l]
        /\ Is(s.lastExSYIS, {"NU"}) <=> Number(q, o)
        /\ Is(q[l], {"CL", "CP"}) => (Is(s.beforeLastExSYIS, {"NU"}) <=> Number(q, l))
        /\ Adjacent(q, l, o)
    BY DEF At, Knows, IsPlain, Adjacent
  <1>2. ~LB25Infix(s, q[o])
    BY DEF LB25Infix, Is
  <1>3. Is(q[l], {"NU"}) => Number(q, o)
    <2> SUFFICES ASSUME Is(q[l], {"NU"}) PROVE Number(q, o)
      OBVIOUS
    <2>1. Run(q, l, o, {"SY", "IS"})
      BY <1>1 DEF Run, Adjacent
    <2>. QED BY <1>1, <2>1 DEF Number, Sequel
  <1>4. Number(q, o) => Is(q[l], {"NU"}) \/ Is(q[l], {"SY", "IS"})
    <2> SUFFICES ASSUME NEW j \in DOMAIN q, j < o, Is(q[j], {"NU"}), Run(q, j, o, {"SY", "IS"})
                 PROVE  Is(q[l], {"NU"}) \/ Is(q[l], {"SY", "IS"})
      BY DEF Number, Sequel
    <2>1. j \in Nat /\ ~(l < j)
      BY <1>1 DEF Adjacent, IsPlain
    <2>2. j = l \/ j < l
      BY <1>1, <2>1
    <2>. QED BY <1>1, <2>2 DEF Run
  <1>5. LB25Affix(s, q[o]) <=> Number(q, o) /\ Is(q[o], {"PO", "PR"})
    BY <1>1, <1>3, <1>4 DEF LB25Affix
  <1>6. LB25Closed(s, q[o]) <=> Number(q, l) /\ Pair(q, l, o, {"CL", "CP"}, {"PO", "PR"})
    BY <1>1 DEF LB25Closed, Pair
  <1>7. LB25Open(s, q[o], next, next2)
          <=> Pair(q, l, o, {"PO", "PR"}, {"OP"}) /\ NumberFollows(q, o)
    <2>1. Pair(q, l, o, {"PO", "PR"}, {"OP"}) =>
            (NumberFollows(q, o)
               <=> \/ Is(next, {"NU"})
                   \/ Is(next, {"IS"}) /\ Is(next2, {"NU"}))
      BY DEF At
    <2>. QED BY <1>1, <2>1 DEF LB25Open, Pair
  <1>8. LB25Digit(s, q[o])
          <=> \/ Number(q, o) /\ Is(q[o], {"NU"})
              \/ Pair(q, l, o, {"PO", "PR", "HY", "IS"}, {"NU"})
    <2>1. Is(q[l], {"CL", "CP"}) => ~Is(q[l], {"NU", "SY", "IS"})
      BY <1>1, OtherClass DEF annotationMask
    <2>2. Is(q[l], {"NU", "SY", "IS"}) <=> Is(q[l], {"NU"}) \/ Is(q[l], {"SY", "IS"})
      BY DEF Is
    <2>3. Is(q[l], {"SY", "IS", "CL", "CP"}) <=> Is(q[l], {"SY", "IS"}) \/ Is(q[l], {"CL", "CP"})
      BY DEF Is
    <2>4. Is(q[l], {"PO", "PR", "HY", "IS", "NU"})
            <=> Is(q[l], {"PO", "PR", "HY", "IS"}) \/ Is(q[l], {"NU"})
      BY DEF Is
    <2>. QED BY <1>1, <1>3, <1>4, <2>1, <2>2, <2>3, <2>4 DEF LB25Digit, Pair
  <1>9. Is(q[o], {"PO", "PR", "NU"}) <=> Is(q[o], {"PO", "PR"}) \/ Is(q[o], {"NU"})
    BY DEF Is
  <1>. QED BY <1>2, <1>5, <1>6, <1>7, <1>8, <1>9 DEF LB25, R25

\* LB30a: an odd number of RI is not zero.
LEMMA FlagsAgree ==
  ASSUME NEW s, NEW next, NEW next2, NEW q, NEW l, NEW o, At(s, next, next2, q, l, o)
  PROVE  LB30a(s, q[o]) <=> R30a(q, o)
  <1>1. /\ IsPlain(q) /\ l \in DOMAIN q /\ o \in DOMAIN q /\ l < o /\ l \in Nat /\ o \in Nat
        /\ s.lastExCMZWJ = q[l]
        /\ s.regionalIndicatorCount = Cardinality(Flags(q, o))
        /\ Adjacent(q, l, o)
    BY DEF At, Knows, IsPlain, Adjacent
  <1>2. ASSUME ~Is(q[l], {"RI"}) PROVE Cardinality(Flags(q, o)) % 2 # 1
    <2>1. ASSUME NEW j \in Flags(q, o) PROVE FALSE
      <3>1. j \in DOMAIN q /\ j < o /\ Is(q[j], {"RI"}) /\ Run(q, j, o, {"RI"}) /\ j \in Nat
        BY DEF Flags, IsPlain, At
      <3>2. ~(l < j)
        BY <1>1, <3>1 DEF Adjacent
      <3>3. j = l \/ j < l
        BY <1>1, <3>1, <3>2
      <3>. QED BY <1>1, <1>2, <3>1, <3>3 DEF Run
    <2>2. Flags(q, o) = {}
      BY <2>1
    <2>3. Cardinality(Flags(q, o)) = 0
      BY <2>2, FS_EmptySet
    <2>. QED BY <2>3
  <1>. QED BY <1>1, <1>2 DEF LB30a, R30a

\* The rules from LB20a on.
LEMMA Agree20a ==
  ASSUME NEW s, NEW next, NEW next2, NEW q, NEW l, NEW o, At(s, next, next2, q, l, o),
         ~Is(q[o], {"CL", "CP", "EX", "SY", "IS"})
  PROVE  (\/ LB20a(s, q[o]) \/ LB21(s, q[o]) \/ LB21a(s, q[o]) \/ LB21b(s, q[o])
          \/ LB22(q[o]) \/ LB23(s, q[o]) \/ LB23a(s, q[o]) \/ LB24(s, q[o])
          \/ LB25(s, q[o], next, next2) \/ LB26(s, q[o]) \/ LB27(s, q[o]) \/ LB28(s, q[o])
          \/ LB28a(s, q[o], next) \/ LB29(s, q[o]) \/ LB30(s, q[o]) \/ LB30a(s, q[o])
          \/ LB30b(s, q[o]))
         <=> Joined20a(q, l, o)
  <1>1. /\ IsPlain(q) /\ l \in DOMAIN q /\ o \in DOMAIN q
        /\ s.last = q[l] /\ s.lastExCMZWJ = q[l] /\ s.prevExCMZWJ = Prior(q, l)
        /\ next = Following(q, o)
    BY DEF At, Knows
  <1>2. LB20a(s, q[o]) <=> R20a(q, l, o)
    BY <1>1 DEF LB20a, R20a, Pair, StartOr
  <1>3. LB21(s, q[o]) <=> Is(q[o], {"BA", "HH", "HY", "NS"}) \/ Is(q[l], {"BB"})
    BY <1>1 DEF LB21
  <1>4. LB21a(s, q[o]) <=> R21a(q, l, o)
    BY <1>1 DEF LB21a, R21a
  <1>5. LB22(q[o]) <=> Is(q[o], {"IN"})
    BY DEF LB22
  <1>6. LB25(s, q[o], next, next2) <=> R25(q, l, o)
    BY NumbersAgree
  <1>7. LB26(s, q[o]) <=> R26(q, l, o)
    BY <1>1 DEF LB26, R26, Pair
  <1>8. LB28a(s, q[o], next) <=> R28a(q, l, o)
    <2>1. {"AK", "AS", "DC"} = {"AK", "DC", "AS"}
      OBVIOUS
    <2>2. Is(q[o], {"AK", "DC", "AS"}) <=> Is(q[o], {"AK", "DC"}) \/ Is(q[o], {"AS"})
      BY DEF Is
    <2>3. ~(Is(Prior(q, l), {"AK", "DC", "AS"}) /\ Is(q[l], {"VI"}) /\ Is(q[o], {"AS"}))
      BY DEF At, Pair
    <2>. QED BY <1>1, <2>1, <2>2, <2>3 DEF LB28a, R28a, Pair
  <1>9. LB30(s, q[o]) <=> R30(q, l, o)
    BY <1>1 DEF LB30, R30, Pair
  <1>10. LB30a(s, q[o]) <=> R30a(q, o)
    BY FlagsAgree
  <1>11. (\/ LB21b(s, q[o]) \/ LB23(s, q[o]) \/ LB23a(s, q[o]) \/ LB24(s, q[o])
          \/ LB27(s, q[o]) \/ LB28(s, q[o]) \/ LB29(s, q[o]) \/ LB30b(s, q[o]))
         <=> OtherPairs(q, l, o)
    BY <1>1 DEF LB21b, LB23, LB23a, LB24, LB27, LB28, LB29, LB30b, OtherPairs, Pair,
                Korean, Letter
  <1>. QED BY <1>2, <1>3, <1>4, <1>5, <1>6, <1>7, <1>8, <1>9, <1>10, <1>11 DEF Joined20a

\* LB11 to LB15b, LB15d to LB17, and LB19.
LEMMA AgreeBefore20 ==
  ASSUME NEW s, NEW next, NEW next2, NEW q, NEW l, NEW o, At(s, next, next2, q, l, o)
  PROVE  /\ (\/ LB11(s, q[o]) \/ LB12(s) \/ LB12a(s, q[o]) \/ LB13(q[o]) \/ LB14(s)
             \/ LB15a(s) \/ LB15b(q[o], next))
            <=> Joined11(q, l, o)
         /\ LB15c(s, q[o], next)
              <=> Pair(q, l, o, {"SP"}, {"IS"}) /\ Is(Following(q, o), {"NU"})
         /\ (LB15d(q[o]) \/ LB16(s, q[o]) \/ LB17(s, q[o])) <=> Joined15d(q, o)
         /\ (LB19(s, q[o]) \/ LB19a(s, q[o], next)) <=> Joined19(q, l, o)
  <1>1. /\ IsPlain(q) /\ l \in DOMAIN q /\ o \in DOMAIN q
        /\ s.last = q[l] /\ s.lastExCMZWJ = q[l] /\ s.prevExCMZWJ = Prior(q, l)
        /\ next = Following(q, o)
        /\ LB15a(s) <=> R15a(q, o)
        /\ \A C \in SUBSET (Class \ {"SP"}) : Is(s.lastExCMZWJSP, C) <=> Spaced(q, o, C)
    BY DEF At, Knows
  <1>2. LB11(s, q[o]) <=> Is(q[l] \cup q[o], {"WJ"})
    BY <1>1 DEF LB11, Is
  <1>3. LB12(s) <=> Is(q[l], {"GL"})
    BY <1>1 DEF LB12
  <1>4. LB12a(s, q[o]) <=> Is(q[o], {"GL"}) /\ ~Is(q[l], {"SP", "BA", "HY", "HH"})
    BY <1>1 DEF LB12a
  <1>5. LB13(q[o]) <=> Is(q[o], {"CL", "CP", "EX", "SY"})
    BY DEF LB13
  <1>6. LB14(s) <=> Spaced(q, o, {"OP"})
    <2>1. {"OP"} \in SUBSET (Class \ {"SP"})
      BY DEF Class
    <2>. QED BY <1>1, <2>1 DEF LB14
  <1>7. LB15b(q[o], next) <=> R15b(q, o)
    BY <1>1 DEF LB15b, R15b, Is
  <1>8. LB15c(s, q[o], next)
          <=> Pair(q, l, o, {"SP"}, {"IS"}) /\ Is(Following(q, o), {"NU"})
    BY <1>1 DEF LB15c, Pair
  <1>9. /\ LB15d(q[o]) <=> Is(q[o], {"IS"})
        /\ LB16(s, q[o]) <=> Spaced(q, o, {"CL", "CP"}) /\ Is(q[o], {"NS"})
        /\ LB17(s, q[o]) <=> Spaced(q, o, {"B2"}) /\ Is(q[o], {"B2"})
    <2>1. {"CL", "CP"} \in SUBSET (Class \ {"SP"}) /\ {"B2"} \in SUBSET (Class \ {"SP"})
      BY DEF Class
    <2>. QED BY <1>1, <2>1 DEF LB15d, LB16, LB17
  <1>10. LB19(s, q[o]) <=> \/ Is(q[o], {"QU"}) /\ ~Is(q[o], {"PI"})
                           \/ Is(q[l], {"QU"}) /\ ~Is(q[l], {"PF"})
    BY <1>1 DEF LB19
  <1>11. LB19a(s, q[o], next) <=> R19a(q, l, o)
    <2>1. ~Is({}, {"EA"})
      BY DEF Is
    <2>. QED BY <1>1, <2>1 DEF LB19a, R19a
  <1>12. Joined11(q, l, o)
           <=> \/ LB11(s, q[o]) \/ LB12(s) \/ LB12a(s, q[o]) \/ LB13(q[o]) \/ LB14(s)
               \/ LB15a(s) \/ LB15b(q[o], next)
    BY <1>1, <1>2, <1>3, <1>4, <1>5, <1>6, <1>7 DEF Joined11
  <1>. QED BY <1>8, <1>9, <1>10, <1>11, <1>12 DEF Joined15d, Joined19

\* The rules of break.go, applied with what they remember, join just where their
\* comments, read over the text, do not let a line end.
LEMMA RulesAgree ==
  ASSUME NEW s, NEW next, NEW next2, NEW q, NEW l, NEW o, At(s, next, next2, q, l, o)
  PROVE  Verdict(s, q[o], next, next2) # join <=> MayEnd(q, l, o)
  <1> DEFINE c == q[o]
  <1>1. /\ IsPlain(q) /\ l \in DOMAIN q /\ o \in DOMAIN q
        /\ s.last = q[l] /\ s.lastExCMZWJ = q[l]
        /\ Is(s.lastExSP, {"ZW"}) <=> Spaced(q, o, {"ZW"})
        /\ ~Is(q[l], Marks) /\ ~Is(c, Marks)
        /\ q[l] \in TableValue
    BY DEF At, Knows, IsPlain
  <1>2. /\ breakMandatory # join /\ breakOpportunity # join /\ undecided # join
        /\ breakMandatory # undecided /\ breakOpportunity # undecided
    BY DEF breakMandatory, breakOpportunity, join, undecided
  <1>3. ~LB8a(s) /\ ~LB9(s, c) /\ LB10(c) = c
    BY <1>1 DEF LB8a, LB9, LB10, Is, Marks
  <1>4. /\ Is(q[l], Hard) <=> LB4(s) \/ LB5(s)
        /\ LB5Joins(s, c) <=> Pair(q, l, o, {"CR"}, {"LF"})
        /\ LB5Joins(s, c) => ~LB4(s)
        /\ LB8(s) <=> Spaced(q, o, {"ZW"})
        /\ LB6(c) \/ LB7(c) <=> Is(c, Hard \cup {"SP", "ZW"})
        /\ LB18(s) <=> Is(q[l], {"SP"})
    <2>1. /\ Is(q[l], Hard) <=> LB4(s) \/ LB5(s)
          /\ LB5Joins(s, c) <=> Pair(q, l, o, {"CR"}, {"LF"})
      BY <1>1 DEF LB4, LB5, LB5Joins, Pair, Is, Hard
    <2>2. LB5Joins(s, c) => ~LB4(s)
      <3>1. "CR" \in q[l] => q[l] = {"CR"}
        BY <1>1, OneClass DEF Hard
      <3>. QED BY <1>1, <3>1 DEF LB4, LB5Joins, Is
    <2>3. /\ LB8(s) <=> Spaced(q, o, {"ZW"})
          /\ LB18(s) <=> Is(q[l], {"SP"})
      BY <1>1 DEF LB8, LB18
    <2>4. LB6(c) \/ LB7(c) <=> Is(c, Hard \cup {"SP", "ZW"})
      BY DEF LB6, LB7, Is
    <2>. QED BY <2>1, <2>2, <2>3, <2>4
  <1>5. CASE Is(q[l], Hard)
    <2>1. MayEnd(q, l, o) <=> ~LB5Joins(s, c)
      BY <1>4, <1>5 DEF MayEnd, Mandatory
    <2>2. RawVerdict(s, c) = IF LB5Joins(s, c) THEN join ELSE breakMandatory
      BY <1>4, <1>5 DEF RawVerdict
    <2>. QED BY <1>2, <2>1, <2>2 DEF Verdict
  <1>6. CASE ~Is(q[l], Hard) /\ Is(c, Hard \cup {"SP", "ZW"})
    <2>1. RawVerdict(s, c) = join
      BY <1>4, <1>6 DEF RawVerdict, Pair, Is, Hard
    <2>. QED BY <1>2, <1>6, <2>1 DEF Verdict, MayEnd
  <1>7. CASE /\ ~Is(q[l], Hard) /\ ~Is(c, Hard \cup {"SP", "ZW"})
             /\ Spaced(q, o, {"ZW"})
    <2>0. ~LB5Joins(s, c)
      BY <1>4, <1>7 DEF LB5Joins, Is, Hard
    <2>1. RawVerdict(s, c) = breakOpportunity
      BY <1>4, <1>7, <2>0 DEF RawVerdict
    <2>. QED BY <1>2, <1>7, <2>1 DEF Verdict, MayEnd
  <1>8. CASE /\ ~Is(q[l], Hard) /\ ~Is(c, Hard \cup {"SP", "ZW"})
             /\ ~Spaced(q, o, {"ZW"})
    <2>0. ~LB5Joins(s, c)
      BY <1>4, <1>8 DEF LB5Joins, Is, Hard
    <2>1. RawVerdict(s, c) = undecided
      BY <1>3, <1>4, <1>8, <2>0 DEF RawVerdict
    <2>2. Verdict(s, c, next, next2) = ResolvedVerdict(s, c, next, next2)
      BY <1>3, <2>1 DEF Verdict
    <2>3. LB20(s, c) <=> Is(q[l] \cup c, {"CB"})
      BY <1>1 DEF LB20, Is
    <2>4. ~Joined11(q, l, o) /\ ~Joined15d(q, o) =>
            ~Is(c, {"CL", "CP", "EX", "SY", "IS"})
      BY DEF Joined11, Joined15d, Is
    <2>5. MayEnd(q, l, o)
            <=> IF Joined11(q, l, o) THEN FALSE
                ELSE IF Pair(q, l, o, {"SP"}, {"IS"}) /\ Is(Following(q, o), {"NU"})
                     THEN TRUE
                ELSE IF Joined15d(q, o) THEN FALSE
                ELSE IF LB18(s) THEN TRUE
                ELSE IF Joined19(q, l, o) THEN FALSE
                ELSE IF LB20(s, c) THEN TRUE
                ELSE ~Joined20a(q, l, o)
      BY <1>4, <1>8, <2>3 DEF MayEnd
    <2>6. CASE Joined11(q, l, o)
      BY <1>2, <2>2, <2>5, <2>6, AgreeBefore20 DEF ResolvedVerdict
    <2>7. CASE /\ ~Joined11(q, l, o)
               /\ Pair(q, l, o, {"SP"}, {"IS"}) /\ Is(Following(q, o), {"NU"})
      BY <1>2, <2>2, <2>5, <2>7, AgreeBefore20 DEF ResolvedVerdict
    <2>8. CASE /\ ~Joined11(q, l, o)
               /\ ~(Pair(q, l, o, {"SP"}, {"IS"}) /\ Is(Following(q, o), {"NU"}))
               /\ Joined15d(q, o)
      BY <1>2, <2>2, <2>5, <2>8, AgreeBefore20 DEF ResolvedVerdict
    <2>9. CASE /\ ~Joined11(q, l, o)
               /\ ~(Pair(q, l, o, {"SP"}, {"IS"}) /\ Is(Following(q, o), {"NU"}))
               /\ ~Joined15d(q, o)
      <3>1. ResolvedVerdict(s, c, next, next2)
              = IF LB18(s) THEN breakOpportunity
                ELSE IF Joined19(q, l, o) THEN join
                ELSE IF LB20(s, c) THEN breakOpportunity
                ELSE IF Joined20a(q, l, o) THEN join ELSE breakOpportunity
        BY <2>4, <2>9, AgreeBefore20, Agree20a DEF ResolvedVerdict
      <3>. QED BY <1>2, <2>2, <2>5, <2>9, <3>1
    <2>. QED BY <2>6, <2>7, <2>8, <2>9
  <1>. QED BY <1>5, <1>6, <1>7, <1>8

-----------------------------------------------------------------------------
(* The characters of a text.                                               *)

\* The values of a text are those of the table.
LEMMA ValuesPlain ==
  ASSUME NEW t \in Seq(Byte)
  PROVE  /\ IsPlain(Values(t))
         /\ DOMAIN Values(t) = Characters(t)
         /\ Characters(t) \subseteq 0 .. Len(t) - 1
  <1>1. DOMAIN Values(t) = Characters(t)
    BY DEF Values
  <1>2. Characters(t) \subseteq 0 .. Len(t) - 1 /\ Len(t) \in Nat
    BY DEF Characters
  <1>3. IsFiniteSet(0 .. Len(t) - 1)
    BY <1>2, FS_Interval
  <1>4. IsFiniteSet(Characters(t))
    BY <1>2, <1>3, FS_Subset
  <1>5. ASSUME NEW o \in Characters(t)
        PROVE  Values(t)[o] \in TableValue /\ Values(t)[o] # {}
    <2>1. t[o + 1] \in Byte
      BY <1>2, <1>5
    <2>2. t[o + 1].prop \in TableValue
      BY <2>1 DEF Byte
    <2>3. {"AL"} \in TableValue
      BY DEF TableValue, Property, Class, Hard
    <2>4. Values(t)[o] = IF t[o + 1].prop = {} THEN {"AL"} ELSE t[o + 1].prop
      BY DEF Values
    <2>. QED BY <2>2, <2>3, <2>4
  <1>6. Characters(t) \in SUBSET Nat
    BY <1>2
  <1>. QED BY <1>1, <1>2, <1>4, <1>5, <1>6 DEF IsPlain

\* After a character of valid UTF-8 comes the next, or the end of the text.
LEMMA NextCharacter ==
  ASSUME NEW t \in Seq(Byte), WellFormed(t), NEW l \in Characters(t),
         NEW e, e = l + t[l + 1].len
  PROVE  /\ l \in Nat /\ e \in Nat /\ l < e /\ e <= Len(t)
         /\ \A k \in Characters(t) : l < k => e <= k
         /\ e < Len(t) => /\ e \in Characters(t) /\ Decodable(t, e)
                          /\ Adjacent(Values(t), l, e)
  <1>1. /\ Complete(t, l) /\ l \in 0 .. Len(t) - 1 /\ Len(t) \in Nat
        /\ t[l + 1].len \in 1 .. 4 /\ e <= Len(t)
    <2>1. Complete(t, l) /\ l \in 0 .. Len(t) - 1 /\ Len(t) \in Nat
      BY DEF Characters
    <2>2. t[l + 1].len \in 0 .. 4
      BY <2>1, ByteFields
    <2>. QED BY <2>1, <2>2 DEF Complete
  <1>2. l \in Nat /\ e \in Nat /\ l < e
    BY <1>1
  <1>3. ASSUME NEW k \in Characters(t), l < k PROVE e <= k
    <2>1. k \in Nat /\ Complete(t, k)
      BY DEF Characters
    <2>. QED BY <1>1, <1>2, <1>3, <2>1, NoneWithin
  <1>4. ~Inside(t, e)
    <2> SUFFICES ASSUME NEW i \in 0 .. e - 1, Complete(t, i), e < i + t[i + 1].len
                 PROVE  FALSE
      BY DEF Inside
    <2>1. i \in Nat /\ i \in Characters(t)
      BY DEF Characters, Complete
    <2>2. ~(l < i)
      BY <1>2, <1>3, <2>1
    <2>3. i # l
      BY <1>1, <1>2
    <2>4. i < l
      BY <1>2, <2>1, <2>2, <2>3
    <2>5. i + t[i + 1].len <= l
      BY <1>1, <1>2, <2>1, <2>4, NoneWithin
    <2>6. t[i + 1].len \in 0 .. 4
      <3>1. i \in 0 .. Len(t) - 1
        BY DEF Complete
      <3>. QED BY <3>1, ByteFields
    <2>. QED BY <1>2, <2>1, <2>5, <2>6
  <1>5. ASSUME e < Len(t)
        PROVE  e \in Characters(t) /\ Decodable(t, e) /\ Adjacent(Values(t), l, e)
    <2>1. e \in 0 .. Len(t) - 1
      BY <1>1, <1>2, <1>5
    <2>2. Decodable(t, e)
      BY <1>4, <2>1, WellFormedDecodes
    <2>3. e \in Characters(t)
      BY <2>1, <2>2 DEF Decodable, Characters
    <2>4. \A m \in Characters(t) : ~(l < m /\ m < e)
      <3>1. \A m \in Characters(t) : m \in Nat
        BY DEF Characters
      <3>. QED BY <1>2, <1>3, <3>1
    <2>. QED BY <1>2, <2>2, <2>3, <2>4, ValuesPlain DEF Adjacent
  <1>. QED BY <1>1, <1>2, <1>3, <1>5

\* Where there is no mark, Remembers speaks of the values of the text.
LEMMA RemembersRecalls ==
  ASSUME NEW q, IsPlain(q), NEW o \in Nat, NEW s, NEW P, P = Earlier(q, o),
         \A k \in P : ValueAt(k) = q[k] /\ ~Is(q[k], Marks),
         Remembers(s, P)
  PROVE  Recalls(s, q, o)
  <1>1. P \in SUBSET (0 .. o)
    BY DEF Earlier, IsPlain
  <1>2. \A C : Without(P, C) = EarlierBut(q, o, C)
    BY DEF Without, EarlierBut
  <1>3. Without(P, Marks) = P
    BY DEF Without
  <1>4. \A B \in SUBSET P : Latest(B) = LatestIn(q, B)
    <2> SUFFICES ASSUME NEW B \in SUBSET P, B # {} PROVE ValueAt(Max(B)) = q[Max(B)]
      BY DEF Latest, LatestIn
    <2>1. Max(B) \in B
      BY <1>1, Greatest
    <2>. QED BY <2>1
  <1>5. \A C : EarlierBut(q, o, C) \subseteq P
    BY DEF EarlierBut
  <1> DEFINE solid   == EarlierBut(q, o, {"SP"})
             numeric == EarlierBut(q, o, {"SY", "IS"})
             notRI   == EarlierBut(q, o, {"RI"})
  <1>6. /\ P \cap AllButLatest(P) = {j \in P : \E k \in P : j < k}
        /\ P \cap solid = solid /\ P \cap numeric = numeric /\ P \cap notRI = notRI
        /\ AllButLatest(numeric) = {j \in numeric : \E k \in numeric : j < k}
    BY <1>5 DEF AllButLatest
  <1>7. /\ s.last = Latest(P)
        /\ s.prevExCMZWJ = Latest({j \in P : \E k \in P : j < k})
        /\ s.lastExSP = Latest(solid)
        /\ s.beforeLastExSP = Latest({j \in P : \E k \in solid : j < k})
        /\ s.lastExCMZWJ = Latest(P)
        /\ s.lastExCMZWJSP = Latest(solid)
        /\ s.lastExSYIS = Latest(numeric)
        /\ s.beforeLastExSYIS = Latest({j \in numeric : \E k \in numeric : j < k})
        /\ s.regionalIndicatorCount = Cardinality({j \in P : \A k \in notRI : k < j})
    <2>1. /\ Without(P, Marks) = P /\ Without(P, {"SP"}) = solid
          /\ Without(P, {"SY", "IS"}) = numeric /\ Without(P, {"RI"}) = notRI
      BY <1>2, <1>3
    <2> HIDE DEF solid, numeric, notRI
    <2>2. /\ s.last = Latest(P)
          /\ s.prevExCMZWJ = Latest(P \cap AllButLatest(P))
          /\ s.lastExSP = Latest(solid)
          /\ s.beforeLastExSP = Latest({j \in P : \E k \in solid : j < k})
          /\ s.lastExCMZWJ = Latest(P)
          /\ s.lastExCMZWJSP = Latest(P \cap solid)
          /\ s.lastExSYIS = Latest(P \cap numeric)
          /\ s.beforeLastExSYIS = Latest(AllButLatest(P \cap numeric))
          /\ s.regionalIndicatorCount =
               Cardinality({j \in P : \A k \in P \cap notRI : k < j})
      BY <2>1 DEF Remembers
    <2>. QED BY <1>6, <2>2
  <1>8. /\ {j \in P : \E k \in P : j < k} \in SUBSET P
        /\ solid \in SUBSET P /\ numeric \in SUBSET P
        /\ {j \in P : \E k \in solid : j < k} \in SUBSET P
        /\ {j \in numeric : \E k \in numeric : j < k} \in SUBSET P
    BY <1>5
  <1> HIDE DEF solid, numeric, notRI
  <1>9. /\ Latest(P) = LatestIn(q, P)
        /\ Latest({j \in P : \E k \in P : j < k})
             = LatestIn(q, {j \in P : \E k \in P : j < k})
        /\ Latest(solid) = LatestIn(q, solid)
        /\ Latest({j \in P : \E k \in solid : j < k})
             = LatestIn(q, {j \in P : \E k \in solid : j < k})
        /\ Latest(numeric) = LatestIn(q, numeric)
        /\ Latest({j \in numeric : \E k \in numeric : j < k})
             = LatestIn(q, {j \in numeric : \E k \in numeric : j < k})
    BY <1>4, <1>8
  <1>. QED BY <1>7, <1>9 DEF Recalls, solid, numeric, notRI

\* Looking ahead at a character of valid UTF-8, and beyond the end.
LEMMA PeekIs ==
  ASSUME TypeOK, ~DefinedType, WellFormed(text), NEW i \in Nat
  PROVE  /\ start + i >= Len(text) => Peek(i) = {}
         /\ start + i \in Characters(text) /\ Decodable(text, start + i) =>
              Peek(i) = Values(text)[start + i]
  <1>1. /\ text \in Seq(Byte) /\ start \in Nat /\ Len(text) \in Nat
        /\ Size = Len(text) - start
    BY SizeType DEF TypeOK
  <1>2. ASSUME start + i >= Len(text) PROVE Peek(i) = {}
    <2>1. ~(i < Size)
      BY <1>1, <1>2
    <2>. QED BY <2>1 DEF Peek
  <1>3. ASSUME NEW o, o = start + i, o \in Characters(text), Decodable(text, o)
        PROVE  Peek(i) = Values(text)[o]
    <2>1. o \in 0 .. Len(text) - 1 /\ i < Size /\ Complete(text, o)
      BY <1>1, <1>3 DEF Characters
    <2>2. /\ lookup(text, o).v = text[o + 1].prop
          /\ lookup(text, o).sz = text[o + 1].len
          /\ text[o + 1].len > 0 /\ text[o + 1].scalar
      BY <1>1, <1>3, <2>1, LookupStep DEF Decodable, Complete
    <2>3. lookupProperty(text, o).v
            = IF text[o + 1].prop = {} THEN {"AL"} ELSE text[o + 1].prop
      BY <2>1, <2>2 DEF lookupProperty, isValidUTF8Prefix
    <2>4. Peek(i) = lookupProperty(text, o).v
      BY <1>3, <2>1 DEF Peek
    <2>. QED BY <1>3, <2>3, <2>4 DEF Values
  <1>. QED BY <1>2, <1>3

\* LB25 looks ahead for NU, or IS NU: by the width of OP, which is that of IS.
LEMMA LooksAhead ==
  ASSUME TypeOK, ~DefinedType, Covered(text),
         NEW q, q = Values(text), NEW o \in Characters(text), o = start + pos,
         NEW w, w = text[o + 1].len
  PROVE  /\ Peek(pos + w) = Following(q, o)
         /\ \A l \in DOMAIN q :
              Adjacent(q, l, o) /\ Pair(q, l, o, {"PO", "PR"}, {"OP"}) =>
                (NumberFollows(q, o)
                   <=> \/ Is(Following(q, o), {"NU"})
                       \/ Is(Following(q, o), {"IS"}) /\ Is(Peek(pos + w + w), {"NU"}))
  <1>1. /\ text \in Seq(Byte) /\ start \in Nat /\ pos \in Nat /\ Len(text) \in Nat
        /\ WellFormed(text)
    BY SizeType DEF TypeOK, Covered
  <1>2. /\ IsPlain(q) /\ DOMAIN q = Characters(text)
        /\ \A k \in Characters(text) : k \in 0 .. Len(text) - 1
    BY <1>1, ValuesPlain
  <1>3. PICK e : e = o + w
    OBVIOUS
  <1>4. /\ o \in Nat /\ e \in Nat /\ o < e /\ e <= Len(text)
        /\ \A k \in Characters(text) : o < k => e <= k
        /\ e < Len(text) => /\ e \in Characters(text) /\ Decodable(text, e)
                            /\ Adjacent(q, o, e)
    BY <1>1, <1>3, NextCharacter
  <1>5. w \in Nat /\ pos + w \in Nat /\ pos + w + w \in Nat /\ e = start + (pos + w)
        /\ start + (pos + w + w) = e + w
    <2>1. w \in 0 .. 4
      BY <1>1, <1>2, ByteFields
    <2>2. w \in Nat /\ o = start + pos /\ e = o + w
      BY <1>3, <2>1
    <2>. QED BY ONLY <1>1, <2>2
  <1>6. CASE e = Len(text)
    <2>1. \A k \in DOMAIN q : ~Adjacent(q, o, k)
      <3> SUFFICES ASSUME NEW k \in Characters(text), o < k PROVE FALSE
        BY <1>2 DEF Adjacent
      <3>1. k \in 0 .. Len(text) - 1 /\ e <= k
        BY <1>2, <1>4
      <3>. QED BY <1>1, <1>6, <3>1
    <2>2. Following(q, o) = {}
      BY <2>1 DEF Following
    <2>3. Peek(pos + w) = {}
      <3>1. start + (pos + w) >= Len(text)
        BY <1>1, <1>5, <1>6
      <3>. QED BY <1>1, <1>5, <3>1, PeekIs
    <2>4. ~NumberFollows(q, o)
      BY <2>1, <2>2 DEF NumberFollows, Is
    <2>5. ~Is({}, {"NU"}) /\ ~Is({}, {"IS"})
      BY DEF Is
    <2>. QED BY <2>2, <2>3, <2>4, <2>5
  <1>7. CASE e < Len(text)
    <2>1. e \in DOMAIN q /\ Adjacent(q, o, e) /\ Decodable(text, e)
      BY <1>2, <1>4, <1>7
    <2>2. Following(q, o) = q[e]
      BY <1>2, <1>4, <2>1, FollowingIs
    <2>3. Peek(pos + w) = q[e]
      <3>1. start + (pos + w) \in Characters(text) /\ Decodable(text, start + (pos + w))
        BY <1>2, <1>5, <2>1
      <3>. QED BY <1>1, <1>5, <3>1, PeekIs
    <2>4. \A j \in DOMAIN q : Adjacent(q, o, j) => j = e
      <3> SUFFICES ASSUME NEW j \in DOMAIN q, Adjacent(q, o, j) PROVE j = e
        OBVIOUS
      <3>1. o < j /\ e <= j /\ ~(o < e /\ e < j) /\ j \in Nat
        <4>1. o < j /\ ~(o < e /\ e < j)
          BY <2>1 DEF Adjacent
        <4>2. j \in Characters(text)
          BY <1>2
        <4>3. j \in 0 .. Len(text) - 1 /\ e <= j
          BY <1>2, <1>4, <4>1, <4>2
        <4>. QED BY <1>1, <4>1, <4>3
      <3>. QED BY <1>4, <3>1
    <2>5. NumberFollows(q, o)
            <=> \/ Is(q[e], {"NU"})
                \/ Is(q[e], {"IS"}) /\ Is(Following(q, e), {"NU"})
      BY <2>1, <2>2, <2>4 DEF NumberFollows
    <2>6. ASSUME NEW l \in DOMAIN q, Adjacent(q, l, o),
                 Pair(q, l, o, {"PO", "PR"}, {"OP"}), Is(q[e], {"IS"})
          PROVE  Peek(pos + w + w) = Following(q, e)
      <3>1. text[e + 1].len = w
        <4>1. Is(Prior(q, o), {"PO", "PR"}) /\ Pair(q, o, e, {"OP"}, {"IS"})
          BY <1>2, <1>4, <2>6, PriorIs DEF Pair
        <4>2. o \in DOMAIN q
          BY <1>2
        <4>3. text[o + 1].len = text[e + 1].len
          BY <2>1, <2>6, <4>1, <4>2 DEF Covered, Undisputed
        <4>. QED BY <4>3
      <3>2. PICK f : f = e + w
        OBVIOUS
      <3>3. /\ f \in Nat /\ e < f /\ f <= Len(text)
            /\ \A k \in Characters(text) : e < k => f <= k
            /\ f < Len(text) => /\ f \in Characters(text) /\ Decodable(text, f)
                                /\ Adjacent(q, e, f)
        <4>1. f = e + text[e + 1].len /\ e \in Characters(text)
          BY <1>2, <2>1, <3>1, <3>2
        <4>. QED BY <1>1, <4>1, NextCharacter
      <3>4. CASE f = Len(text)
        <4>1. \A k \in DOMAIN q : ~Adjacent(q, e, k)
          <5> SUFFICES ASSUME NEW k \in Characters(text), e < k PROVE FALSE
            BY <1>2 DEF Adjacent
          <5>1. k \in 0 .. Len(text) - 1 /\ f <= k
            BY <1>2, <3>3
          <5>. QED BY <1>1, <3>4, <5>1
        <4>2. Following(q, e) = {}
          BY <4>1 DEF Following
        <4>3. start + (pos + w + w) >= Len(text)
          BY <1>1, <1>5, <3>2, <3>4
        <4>. QED BY <1>1, <1>5, <4>2, <4>3, PeekIs
      <3>5. CASE f < Len(text)
        <4>1. f \in DOMAIN q /\ Adjacent(q, e, f) /\ Decodable(text, f)
          BY <1>2, <3>3, <3>5
        <4>2. Following(q, e) = q[f]
          BY <1>2, <1>4, <4>1, FollowingIs
        <4>3. Peek(pos + w + w) = q[f]
          <5>1. start + (pos + w + w) = f
            BY <1>5, <3>2
          <5>2. f \in Characters(text)
            BY <1>2, <4>1
          <5>. QED BY <1>1, <1>5, <4>1, <5>1, <5>2, PeekIs
        <4>. QED BY <4>2, <4>3
      <3>. QED BY <3>3, <3>4, <3>5
    <2>. QED BY <2>2, <2>3, <2>5, <2>6
  <1>. QED BY <1>4, <1>6, <1>7

\* Of what is left of a text from a line's start on, NextBreak asks what it asks
\* of the whole text.
LEMMA LineBoundary ==
  ASSUME NEW q, IsPlain(q), NEW s, LineStart(q, s),
         NEW l \in DOMAIN q, s <= l, NEW o \in DOMAIN q, Adjacent(q, l, o),
         NEW g, g = From(q, s)
  PROVE  /\ Following(g, o) = Following(q, o)
         /\ NumberFollows(g, o) <=> NumberFollows(q, o)
         /\ \A C : Is(Prior(g, l), C) => Is(Prior(q, l), C)
  <1>1. /\ s \in DOMAIN q /\ s \in Nat /\ l \in Nat /\ o \in Nat
        /\ l < o /\ s < o /\ s <= o
        /\ DOMAIN q \subseteq Nat
    BY FromBoundary DEF LineStart, IsPlain
  <1>2. /\ DOMAIN g = {m \in DOMAIN q : s <= m}
        /\ \A j \in DOMAIN g : g[j] = q[j]
        /\ \A j, k \in DOMAIN g : Adjacent(g, j, k) <=> Adjacent(q, j, k)
        /\ \A j \in DOMAIN g : Following(g, j) = Following(q, j)
        /\ s < l => Prior(g, l) = Prior(q, l)
        /\ Prior(g, s) = {}
    BY <1>1, FromPlaces, FromBoundary
  <1>3. o \in DOMAIN g
    BY <1>1, <1>2
  <1>4. \A j \in DOMAIN q : Adjacent(q, o, j) => j \in DOMAIN g
    <2> SUFFICES ASSUME NEW j \in DOMAIN q, o < j PROVE j \in DOMAIN g
      BY DEF Adjacent
    <2>1. j \in Nat /\ s <= j
      BY <1>1
    <2>. QED BY <1>2, <2>1
  <1>5. NumberFollows(g, o) <=> NumberFollows(q, o)
    BY <1>2, <1>3, <1>4 DEF NumberFollows
  <1>6. \A C : Is(Prior(g, l), C) => Is(Prior(q, l), C)
    <2>1. CASE s < l
      BY <1>2, <2>1
    <2>2. CASE s = l
      BY <1>2, <2>2 DEF Is
    <2>. QED BY <1>1, <2>1, <2>2
  <1>. QED BY <1>2, <1>3, <1>5, <1>6

\* The character that the scan has come to.
LEMMA ScanComesTo ==
  ASSUME TypeOK, LinesInv, pc = "scan", pos < Size, WellFormed(text),
         NEW o, o = start + pos
  PROVE  /\ o \in Characters(text) /\ o \in Nat
         /\ width = text[o + 1].len /\ width > 0
         /\ following = Values(text)[o]
  <1>1. /\ o \in 0 .. Len(text) - 1 /\ text \in Seq(Byte)
        /\ ~Inside(text, o)
    BY Looked DEF TypeOK, LinesInv, ScanInv
  <1>2. Complete(text, o)
    BY <1>1, WellFormedDecodes DEF Decodable
  <1>3. o \in Characters(text)
    BY <1>1, <1>2 DEF Characters
  <1>4. /\ lookup(text, o).sz = text[o + 1].len
        /\ lookup(text, o).v = text[o + 1].prop
    BY <1>1, <1>2, LookupStep
  <1>. QED BY <1>1, <1>2, <1>3, <1>4 DEF width, following, Values, Complete

\* At the head of the loop, the rules' verdict is that of the comments.
LEMMA ScanAgrees ==
  ASSUME TypeOK, LinesInv, ContextInv, ~DefinedType, Covered(text),
         pc = "scan", pos < Size,
         NEW q, q = Values(text), LineStart(q, start),
         NEW o, o = start + pos
  PROVE  \E l \in DOMAIN q : /\ start <= l /\ Adjacent(q, l, o)
                             /\ verdict # join <=> MayEnd(q, l, o)
  <1>1. /\ text \in Seq(Byte) /\ start \in Nat /\ pos \in Nat
        /\ WellFormed(text) /\ Unmarked(text)
    BY DEF TypeOK, Covered
  <1>2. /\ IsPlain(q) /\ DOMAIN q = Characters(text)
    BY <1>1, ValuesPlain
  <1>3. /\ o \in Characters(text) /\ o \in Nat /\ o \in DOMAIN q
        /\ width = text[o + 1].len /\ width > 0
        /\ following = q[o]
    BY <1>1, <1>2, ScanComesTo
  <1>4. PICK l : CurrentInv(l)
    BY <1>1 DEF ContextInv
  <1>5. /\ Scanned(l) /\ current = ValueAt(l)
        /\ l \in Nat /\ start <= l /\ Complete(text, l) /\ l + text[l + 1].len = o
        /\ l \in Characters(text)
        /\ Remembers(seen, Passed) /\ SameNumeric(seen)
    BY <1>1, <1>4 DEF CurrentInv, Scanned, ContextInv, Characters, Complete
  <1>6. l < o /\ Adjacent(q, l, o) /\ l \in DOMAIN q
    <2>1. o < Len(text)
      BY <1>3 DEF Characters, Complete
    <2>. QED BY <1>1, <1>2, <1>5, <2>1, NextCharacter
  <1>7. PICK g : g = From(q, start)
    OBVIOUS
  <1>8. /\ start \in DOMAIN q
        /\ IsPlain(g)
        /\ DOMAIN g = {m \in DOMAIN q : start <= m}
        /\ \A j \in DOMAIN g : g[j] = q[j]
        /\ \A j, k \in DOMAIN g : Adjacent(g, j, k) <=> Adjacent(q, j, k)
    BY <1>2, <1>7, FromPlaces DEF LineStart
  <1>9. l \in DOMAIN g /\ o \in DOMAIN g /\ Adjacent(g, l, o) /\ g[o] = q[o]
    <2>1. start <= o
      BY <1>1
    <2>. QED BY <1>3, <1>5, <1>6, <1>8, <2>1
  <1>10. PICK P : P = Passed \cup {l}
    OBVIOUS
  <1>11. Remembers(remembered, P)
    <2>1. /\ Passed \in SUBSET Nat /\ IsFiniteSet(Passed)
          /\ \A k \in Passed : k < l
      BY <1>5, PassedIsBefore
    <2>. QED BY <1>5, <1>10, <2>1, RememberOne DEF remembered
  <1>12. P = Earlier(g, o)
    <2>1. Passed = Started(text, start, l)
      BY <1>5, PassedIsBefore
    <2>2. \A k : k \in Started(text, start, o) <=> (k \in Started(text, start, l) \/ k = l)
      <3>1. PICK e : e = l + text[l + 1].len
        OBVIOUS
      <3>2. \A k : k \in Started(text, start, e) <=> (k \in Started(text, start, l) \/ k = l)
        <4>1. /\ text \in Seq(Byte) /\ start \in Nat /\ l \in Nat /\ start <= l
              /\ Complete(text, l)
          BY <1>1, <1>5
        <4>2. Started(text, start, e) = Started(text, start, l) \cup {l}
          BY ONLY <3>1, <4>1, PassedBefore
        <4>. QED BY <4>2
      <3>. QED BY <1>5, <3>1, <3>2
    <2>3. \A k : k \in Started(text, start, o) <=> k \in Earlier(g, o)
      <3>1. ASSUME NEW k \in Started(text, start, o) PROVE k \in Earlier(g, o)
        <4>1. k \in start .. o - 1 /\ Complete(text, k)
          BY DEF Started
        <4>2. k \in Characters(text)
          BY <4>1 DEF Characters, Complete
        <4>. QED BY <1>1, <1>2, <1>3, <1>8, <4>1, <4>2 DEF Earlier
      <3>2. ASSUME NEW k \in Earlier(g, o) PROVE k \in Started(text, start, o)
        <4>1. k \in Characters(text) /\ start <= k /\ k < o
          BY <1>2, <1>8 DEF Earlier
        <4>2. k \in Nat /\ Complete(text, k)
          BY <4>1 DEF Characters
        <4>. QED BY <1>1, <1>3, <4>1, <4>2 DEF Started
      <3>. QED BY <3>1, <3>2
    <2>. QED BY <1>10, <2>1, <2>2, <2>3
  <1>13. \A k \in P : ValueAt(k) = g[k] /\ ~Is(g[k], Marks)
    <2> SUFFICES ASSUME NEW k \in P PROVE ValueAt(k) = g[k] /\ ~Is(g[k], Marks)
      OBVIOUS
    <2>1. k \in Characters(text) /\ g[k] = q[k]
      BY <1>2, <1>8, <1>12 DEF Earlier
    <2>2. Raw(k) = q[k] /\ ~Is(q[k], Marks)
      BY <1>1, <2>1 DEF Raw, Values, Unmarked
    <2>. QED BY <2>1, <2>2 DEF ValueAt, Alone
  <1>14. Knows(remembered, g, l, o)
    <2>1. Recalls(remembered, g, o)
      BY <1>3, <1>8, <1>11, <1>12, <1>13, RemembersRecalls
    <2>. QED BY <1>3, <1>8, <1>9, <2>1, RecallsTells
  <1>15. PICK next : next = Peek(pos + width)
    OBVIOUS
  <1>16. PICK next2 : next2 = Peek(pos + width + width)
    OBVIOUS
  <1>17. At(remembered, next, next2, g, l, o)
    <2>1. /\ Following(g, o) = Following(q, o)
          /\ NumberFollows(g, o) <=> NumberFollows(q, o)
          /\ \A C : Is(Prior(g, l), C) => Is(Prior(q, l), C)
      BY <1>2, <1>3, <1>5, <1>6, <1>7, LineBoundary
    <2>2. ~Is(g[l], Marks) /\ ~Is(g[o], Marks) /\ g[l] = q[l]
      BY <1>1, <1>2, <1>3, <1>8, <1>9 DEF Unmarked
    <2>3. /\ next = Following(q, o)
          /\ Pair(q, l, o, {"PO", "PR"}, {"OP"}) =>
               (NumberFollows(q, o)
                  <=> \/ Is(Following(q, o), {"NU"})
                      \/ Is(Following(q, o), {"IS"}) /\ Is(next2, {"NU"}))
      BY <1>3, <1>6, <1>15, <1>16, LooksAhead
    <2>4. \A a, b : Pair(g, l, o, a, b) <=> Pair(q, l, o, a, b)
      BY <1>9, <2>2 DEF Pair
    <2>5. ~(Is(Prior(q, l), {"AK", "DC", "AS"}) /\ Pair(q, l, o, {"VI"}, {"AS"}))
      BY <1>3, <1>6 DEF Covered, Undisputed
    <2>. QED BY <1>8, <1>9, <1>14, <2>1, <2>2, <2>3, <2>4, <2>5 DEF At
  <1>18. Verdict(remembered, g[o], next, next2) # join <=> MayEnd(g, l, o)
    BY <1>17, RulesAgree
  <1>19. verdict = Verdict(remembered, g[o], next, next2)
    BY <1>3, <1>9, <1>15, <1>16 DEF verdict
  <1>20. MayEnd(g, l, o) <=> MayEnd(q, l, o)
    BY <1>2, <1>3, <1>5, <1>6, <1>7, LinesAreIndependent
  <1>. QED BY <1>5, <1>6, <1>18, <1>19, <1>20

-----------------------------------------------------------------------------
(* The lines of a text.                                                    *)

\* There are no clusters where there are no marks.
LEMMA UnmarkedEnds ==
  ASSUME NEW t \in Seq(Byte), Unmarked(t), NEW q, q = Values(t)
  PROVE  LineEnds(q) = {r \in DOMAIN q :
                          \E l \in DOMAIN q : Adjacent(q, l, r) /\ MayEnd(q, l, r)}
  <1>1. IsPlain(q) /\ DOMAIN q = Characters(t) /\ DOMAIN q \subseteq Nat
    BY ValuesPlain DEF IsPlain
  <1>2. \A j \in DOMAIN q : ~Is(q[j], Marks)
    BY <1>1 DEF Unmarked
  <1>3. Bases(q) = q
    <2>1. {m \in DOMAIN q : ~Absorbed(q, m)} = DOMAIN q
      BY <1>2 DEF Absorbed
    <2>2. Bases(q) = [j \in DOMAIN q |-> IF Is(q[j], Marks) THEN {"AL"} ELSE q[j]]
      BY <2>1 DEF Bases
    <2>3. Bases(q) = [j \in DOMAIN q |-> q[j]]
      BY <1>2, <2>2
    <2>4. q = [j \in DOMAIN q |-> q[j]]
      BY DEF Values
    <2>. QED BY <2>3, <2>4
  <1>4. \A r \in DOMAIN q : ~Is(Prior(q, r), {"ZWJ"})
    <2> SUFFICES ASSUME NEW r \in DOMAIN q, Is(Prior(q, r), {"ZWJ"}) PROVE FALSE
      OBVIOUS
    <2>1. PICK j \in DOMAIN q : Adjacent(q, j, r)
      BY DEF Prior, Is
    <2>2. Prior(q, r) = q[j]
      BY <1>1, <2>1, PriorIs
    <2>. QED BY <1>2, <2>2 DEF Is, Marks
  <1>. QED BY <1>3, <1>4 DEF LineEnds

\* A line ends within the text, after its first character.
LEMMA EndsWithin ==
  ASSUME text \in Seq(Byte), Unmarked(text)
  PROVE  \A r \in Ends : /\ r \in Characters(text)
                         /\ r \in Nat /\ 0 < r /\ r < Len(text)
  <1> DEFINE q == Values(text)
  <1> SUFFICES ASSUME NEW r \in Ends
               PROVE  r \in Characters(text) /\ r \in Nat /\ 0 < r /\ r < Len(text)
    OBVIOUS
  <1>1. /\ DOMAIN q = Characters(text) /\ Characters(text) \subseteq 0 .. Len(text) - 1
        /\ Len(text) \in Nat
    BY ValuesPlain
  <1>2. PICK l \in DOMAIN q : r \in DOMAIN q /\ Adjacent(q, l, r)
    BY UnmarkedEnds DEF Ends
  <1>3. l < r
    BY <1>2 DEF Adjacent
  <1>4. l \in 0 .. Len(text) - 1 /\ r \in 0 .. Len(text) - 1 /\ r \in Characters(text)
    BY <1>1, <1>2
  <1>. QED BY <1>1, <1>3, <1>4

\* A line may end at a boundary if the rules let it.
LEMMA EndsAt ==
  ASSUME text \in Seq(Byte), Unmarked(text), NEW q, q = Values(text),
         NEW l \in DOMAIN q, NEW o \in DOMAIN q, Adjacent(q, l, o)
  PROVE  o \in Ends <=> MayEnd(q, l, o)
  <1>1. IsPlain(q)
    BY ValuesPlain
  <1>2. ASSUME NEW k \in DOMAIN q, Adjacent(q, k, o) PROVE k = l
    <2>1. k \in Nat /\ l \in Nat /\ ~(k < l) /\ ~(l < k)
      BY <1>1, <1>2 DEF IsPlain, Adjacent
    <2>. QED BY <2>1
  <1>. QED BY <1>2, UnmarkedEnds DEF Ends

\* CutHere, element by element.
LEMMA CutsMeans ==
  ASSUME NEW cuts, NEW E, NEW s, NEW n
  PROVE  cuts = {r \in E : r <= s} \cup ({s} \cap {n})
           <=> \A r : r \in cuts <=> (r \in E /\ r <= s) \/ (r = s /\ s = n)
  <1>1. PICK A : A = {r \in E : r <= s} \cup ({s} \cap {n})
    OBVIOUS
  <1>2. \A r : r \in A <=> (r \in E /\ r <= s) \/ (r = s /\ s = n)
    BY <1>1
  <1>3. cuts = A <=> \A r : r \in cuts <=> r \in A
    OBVIOUS
  <1>. QED BY <1>1, <1>2, <1>3

\* What the driver calls NextBreak on is a line and what follows it.
LEMMA SliceStartsLine ==
  ASSUME TypeOK, LinesInv, CutHere(Ends), Covered(text), outcome = "running"
  PROVE  /\ start \in Characters(text) /\ Decodable(text, start)
         /\ LineStart(Values(text), start)
         /\ start < Len(text)
  <1> DEFINE q == Values(text)
  <1>1. /\ text \in Seq(Byte) /\ start \in 0 .. Len(text) - 1 /\ Len(text) \in Nat
        /\ ~Inside(text, start) /\ start < Len(text)
    BY SizeType DEF TypeOK, LinesInv, SliceInv
  <1>2. Decodable(text, start) /\ start \in Characters(text)
    BY <1>1, WellFormedDecodes DEF Covered, Decodable, Characters
  <1>3. DOMAIN q = Characters(text) /\ Characters(text) \subseteq 0 .. Len(text) - 1
    BY <1>1, ValuesPlain
  <1>4. CASE start = 0
    <2>1. \A j \in DOMAIN q : start <= j
      BY <1>1, <1>3, <1>4
    <2>. QED BY <1>1, <1>2, <1>3, <2>1 DEF LineStart
  <1>5. CASE start \in Ends
    <2>1. PICK l \in DOMAIN q : Adjacent(q, l, start) /\ MayEnd(q, l, start)
      BY <1>1, <1>5, UnmarkedEnds DEF Ends, Covered
    <2>. QED BY <1>1, <1>2, <1>3, <2>1 DEF LineStart
  <1>6. start # Len(text)
    BY <1>1
  <1>7. start \in {0, Len(text)} \cup Ends
    BY CutsMeans DEF CutHere
  <1>. QED BY <1>4, <1>5, <1>6, <1>7

\* The first character of a slice has no line end within it.
LEMMA FirstKeepsCuts ==
  ASSUME TypeOK, LinesInv, CutHere(Ends), Covered(text), outcome = "running", CallFirst
  PROVE  NoneBefore(Ends, start + pos')
  <1>1. text \in Seq(Byte) /\ WellFormed(text) /\ Unmarked(text)
    BY DEF TypeOK, Covered
  <1>2. start \in Characters(text) /\ start \in 0 .. Len(text) - 1 /\ Complete(text, start)
    BY SliceStartsLine DEF Characters
  <1>3. pos' = text[start + 1].len
    <2>1. /\ pos' = lookupProperty(text, start).sz /\ pos' > 0
      BY DEF CallFirst
    <2>2. lookupProperty(text, start).sz \in {0, lookup(text, start).sz}
      BY LookedFirst DEF CallFirst
    <2>3. lookup(text, start).sz = text[start + 1].len
      BY <1>1, <1>2, LookupStep
    <2>. QED BY <2>1, <2>2, <2>3
  <1>4. PICK e : e = start + pos'
    OBVIOUS
  <1>5. e \in Nat /\ \A k \in Characters(text) : start < k => e <= k
    BY <1>1, <1>2, <1>3, <1>4, NextCharacter
  <1>6. \A r \in Ends : r \in Characters(text) /\ r \in Nat
    BY <1>1, EndsWithin
  <1>7. NoneBefore(Ends, e)
    BY <1>5, <1>6 DEF NoneBefore
  <1>. QED BY <1>4, <1>7

\* Where the rules join two characters no line ends.
LEMMA ContinueKeepsCuts ==
  ASSUME TypeOK, LinesInv, ContextInv, ~DefinedType, CutHere(Ends), Covered(text),
         outcome = "running", NoneBefore(Ends, start + pos), Continue
  PROVE  NoneBefore(Ends, start + pos')
  <1>1. /\ text \in Seq(Byte) /\ WellFormed(text) /\ Unmarked(text)
        /\ start \in Nat /\ pos \in Nat
    BY DEF TypeOK, Covered
  <1>2. PICK o, q : o = start + pos /\ q = Values(text)
    OBVIOUS
  <1>3. /\ o \in Characters(text) /\ o \in Nat
        /\ width = text[o + 1].len
    BY <1>1, <1>2, ScanComesTo DEF Continue
  <1>4. DOMAIN q = Characters(text)
    BY <1>1, <1>2, ValuesPlain
  <1>5. PICK l \in DOMAIN q : Adjacent(q, l, o) /\ (verdict # join <=> MayEnd(q, l, o))
    BY <1>2, SliceStartsLine, ScanAgrees DEF Continue
  <1>6. o \notin Ends
    BY <1>1, <1>2, <1>3, <1>4, <1>5, EndsAt DEF Continue
  <1>7. PICK e : e = o + text[o + 1].len
    OBVIOUS
  <1>8. e \in Nat /\ \A k \in Characters(text) : o < k => e <= k
    BY <1>1, <1>3, <1>7, NextCharacter
  <1>9. \A r \in Ends : r \in Characters(text) /\ r \in Nat
    BY <1>1, EndsWithin
  <1>10. NoneBefore(Ends, e)
    <2> SUFFICES ASSUME NEW r \in Ends, start < r, r < e PROVE FALSE
      BY DEF NoneBefore
    <2>1. ~(r < o)
      BY <1>2 DEF NoneBefore
    <2>2. ~(o < r)
      BY <1>8, <1>9
    <2>. QED BY <1>3, <1>6, <1>9, <2>1, <2>2
  <1>11. e = start + pos'
    <2>1. PICK w : w = width
      OBVIOUS
    <2>2. w \in 0 .. 4
      BY <2>1, Looked DEF Continue
    <2>3. e = o + w /\ pos' = pos + w
      BY <1>3, <1>7, <2>1 DEF Continue
    <2>. QED BY <1>1, <1>2, <2>2, <2>3
  <1>. QED BY <1>10, <1>11

\* What a call returns is the end of the text or of a line, and the first.
LEMMA ReturnsLineEnd ==
  ASSUME TypeOK, LinesInv, ContextInv, ~DefinedType, CutHere(Ends), Covered(text),
         outcome = "running", pc = "scan" => NoneBefore(Ends, start + pos),
         CallUndecodable \/ EndOfText \/ Truncated \/ Break
  PROVE  /\ start + advance' \in {Len(text)} \cup Ends
         /\ NoneBefore(Ends, start + advance')
  <1>1. /\ text \in Seq(Byte) /\ WellFormed(text) /\ Unmarked(text)
        /\ start \in Nat /\ pos \in Nat /\ Len(text) \in Nat
        /\ Size = Len(text) - start
    BY SizeType DEF TypeOK, Covered
  <1>2. /\ start \in Characters(text) /\ Decodable(text, start)
        /\ LineStart(Values(text), start)
    BY SliceStartsLine
  <1>3. ~CallUndecodable
    <2> SUFFICES ASSUME lookupProperty(text, start).sz = 0 PROVE FALSE
      BY DEF CallUndecodable
    <2>1. start \in 0 .. Len(text) - 1
      BY <1>2 DEF Characters
    <2>. QED BY <1>1, <1>2, <2>1, LookupPropertyStep
  <1>4. ~Truncated
    <2> SUFFICES ASSUME pc = "scan", pos < Size, width = 0 PROVE FALSE
      BY DEF Truncated
    <2>1. width > 0
      BY <1>1, ScanComesTo
    <2>. QED BY <2>1
  <1>5. CASE EndOfText
    <2>1. advance' = pos /\ pos = Size /\ NoneBefore(Ends, start + pos)
      BY <1>5 DEF EndOfText, Return
    <2>2. start + Size = Len(text)
      BY <1>1
    <2>. QED BY <2>1, <2>2
  <1>6. CASE Break
    <2>1. advance' = pos /\ NoneBefore(Ends, start + pos) /\ verdict # join
      BY <1>6 DEF Break, Return, BreakKind, join, breakMandatory, breakOpportunity
    <2>2. PICK o, q : o = start + pos /\ q = Values(text)
      OBVIOUS
    <2>3. o \in Characters(text) /\ DOMAIN q = Characters(text)
      BY <1>1, <1>6, <2>2, ScanComesTo, ValuesPlain DEF Break
    <2>4. PICK l \in DOMAIN q : Adjacent(q, l, o) /\ (verdict # join <=> MayEnd(q, l, o))
      BY <1>2, <1>6, <2>2, ScanAgrees DEF Break
    <2>5. o \in Ends
      BY <1>1, <2>1, <2>2, <2>3, <2>4, EndsAt
    <2>. QED BY <2>1, <2>2, <2>5
  <1>. QED BY <1>3, <1>4, <1>5, <1>6

\* The driver cuts the text there.
LEMMA CollectKeepsCuts ==
  ASSUME TypeOK, TypeOK', LinesInv, CutHere(Ends), Covered(text), Collect,
         start + advance \in {Len(text)} \cup Ends,
         NoneBefore(Ends, start + advance)
  PROVE  CutHere(Ends)'
  <1>1. PICK at : at = start + advance
    OBVIOUS
  <1>2. /\ at \in start + 1 .. Len(text) /\ start \in Nat /\ at \in Nat /\ Len(text) \in Nat
        /\ offsets' = Append(offsets, at) /\ start' = at /\ text' = text
        /\ offsets \in Seq(Nat)
    BY <1>1, Collected, SizeType DEF TypeOK
  <1>3. Ends' = Ends
    BY <1>2 DEF Ends
  <1>4. \A r \in Ends : r \in Nat /\ r < Len(text)
    BY EndsWithin DEF TypeOK, Covered
  <1>5. \A r : r \in ToSet(offsets') <=> r \in ToSet(offsets) \/ r = at
    <2>1. /\ DOMAIN offsets' = 1 .. Len(offsets) + 1 /\ DOMAIN offsets = 1 .. Len(offsets)
          /\ Len(offsets) \in Nat
          /\ \A n \in 1 .. Len(offsets) : offsets'[n] = offsets[n]
          /\ offsets'[Len(offsets) + 1] = at
      BY <1>2
    <2>2. \A n \in 1 .. Len(offsets) + 1 : n \in 1 .. Len(offsets) \/ n = Len(offsets) + 1
      BY <2>1
    <2>3. \A n \in 1 .. Len(offsets) : n \in 1 .. Len(offsets) + 1
      BY <2>1
    <2>4. Len(offsets) + 1 \in 1 .. Len(offsets) + 1
      BY <2>1
    <2>. QED BY <2>1, <2>2, <2>3, <2>4 DEF ToSet
  <1>6. \A r : r \in ToSet(offsets) <=> r \in Ends /\ r <= start
    <2>1. start # Len(text)
      BY <1>2
    <2>. QED BY <2>1, CutsMeans DEF CutHere
  <1>7. \A r \in Ends : r <= at <=> r <= start \/ r = at
    <2> SUFFICES ASSUME NEW r \in Ends PROVE r <= at <=> r <= start \/ r = at
      OBVIOUS
    <2>1. ~(start < r /\ r < at) /\ r \in Nat
      BY <1>1, <1>4 DEF NoneBefore
    <2>. QED BY <1>2, <2>1
  <1>8. \A r : r \in ToSet(offsets') <=> (r \in Ends /\ r <= at) \/ (r = at /\ at = Len(text))
    <2>1. at \in Ends \/ at = Len(text)
      BY <1>1
    <2>. QED BY <1>5, <1>6, <1>7, <2>1
  <1>9. at \in ToSet(offsets')
    BY <1>5
  <1>10. ToSet(offsets') = {r \in Ends : r <= at} \cup ({at} \cap {Len(text)})
    <2>1. PICK cuts, E, n : cuts = ToSet(offsets') /\ E = Ends /\ n = Len(text)
      OBVIOUS
    <2>2. \A r : r \in cuts <=> (r \in E /\ r <= at) \/ (r = at /\ at = n)
      BY <1>8, <2>1
    <2>3. cuts = {r \in E : r <= at} \cup ({at} \cap {n})
      <3>1. PICK A : A = {r \in E : r <= at} \cup ({at} \cap {n})
        OBVIOUS
      <3>2. \A r : r \in A <=> (r \in E /\ r <= at) \/ (r = at /\ at = n)
        BY <3>1
      <3>3. \A r : r \in cuts <=> r \in A
        BY <2>2, <3>2
      <3>4. cuts = A
        BY ONLY <3>3
      <3>. QED BY <3>1, <3>4
    <2>. QED BY <2>1, <2>3
  <1>. QED BY <1>2, <1>3, <1>9, <1>10 DEF CutHere

\* Nothing is cut yet, and no line ends at the start of the text.
LEMMA InitCuts == BreaksInit => CutsInv
  <1> SUFFICES ASSUME BreaksInit, Covered(text), text # <<>> PROVE CutsInv
    BY DEF CutsInv
  <1>1. /\ text \in Seq(Byte) /\ start = 0 /\ pc = "call" /\ offsets = <<>>
    BY TextsAssumption DEF BreaksInit, Init
  <1>2. Len(text) \in Nat /\ Len(text) # 0
    BY <1>1
  <1>3. \A r \in Ends : r \in Nat /\ 0 < r
    BY <1>1, EndsWithin DEF Covered
  <1>4. \A r : r \notin ToSet(offsets)
    BY <1>1 DEF ToSet
  <1>5. \A r : ~(r \in Ends /\ r <= start) /\ ~(r = start /\ start = Len(text))
    BY <1>1, <1>2, <1>3
  <1>6. CutHere(Ends)
    <2>1. ToSet(offsets) = {r \in Ends : r <= start} \cup ({start} \cap {Len(text)})
      BY <1>4, <1>5, CutsMeans
    <2>. QED BY <1>1, <2>1 DEF CutHere
  <1>. QED BY <1>1, <1>6 DEF CutsInv

\* A step of NextBreak cuts nothing, and passes no line end.
LEMMA ScanKeepsCuts ==
  ASSUME TypeOK, LinesInv, ContextInv, ~DefinedType, CutsInv, Scan
  PROVE  CutsInv'
  <1>1. outcome = "running" /\ UNCHANGED <<text, start, offsets, outcome>>
    BY DEF Scan, Step, Return, CallEmpty, CallUndecodable, CallFirst,
           EndOfText, Truncated, Continue, Break
  <1>2. Ends' = Ends
    BY <1>1 DEF Ends
  <1> SUFFICES ASSUME Covered(text), text # <<>> PROVE CutsInv'
    BY <1>1 DEF CutsInv
  <1>3. CutHere(Ends) /\ CutHere(Ends)'
    BY <1>1, <1>2 DEF CutsInv, CutHere
  <1>4. CASE CallEmpty
    <2>1. start < Len(text) /\ Size = 0
      BY <1>1, <1>4 DEF CallEmpty, LinesInv, SliceInv
    <2>. QED BY <2>1, SizeType DEF TypeOK
  <1>5. CASE CallFirst
    <2>1. NoneBefore(Ends, start + pos')
      BY <1>1, <1>3, <1>5, FirstKeepsCuts
    <2>2. pc' = "scan"
      BY <1>5 DEF CallFirst
    <2>. QED BY <1>1, <1>2, <1>3, <2>1, <2>2 DEF CutsInv, NoneBefore
  <1>6. CASE Continue
    <2>1. NoneBefore(Ends, start + pos)
      BY <1>6 DEF Continue, CutsInv
    <2>2. NoneBefore(Ends, start + pos')
      BY <1>1, <1>3, <1>6, <2>1, ContinueKeepsCuts
    <2>3. pc' = "scan"
      BY <1>6 DEF Continue
    <2>. QED BY <1>1, <1>2, <1>3, <2>2, <2>3 DEF CutsInv, NoneBefore
  <1>7. CASE CallUndecodable \/ EndOfText \/ Truncated \/ Break
    <2>1. pc = "scan" => NoneBefore(Ends, start + pos)
      BY DEF CutsInv
    <2>2. /\ start + advance' \in {Len(text)} \cup Ends
          /\ NoneBefore(Ends, start + advance')
      BY <1>1, <1>3, <1>7, <2>1, ReturnsLineEnd
    <2>3. pc' = "ret"
      BY <1>7 DEF CallUndecodable, EndOfText, Truncated, Break, Return
    <2>. QED BY <1>1, <1>2, <1>3, <2>2, <2>3 DEF CutsInv, NoneBefore
  <1>. QED BY <1>4, <1>5, <1>6, <1>7 DEF Scan, Step

-----------------------------------------------------------------------------
(* The theorems.                                                           *)

\* The invariant holds in every run of breaks on a string or a []byte.
THEOREM CutsCorrect ==
  ASSUME ~DefinedType
  PROVE  BreaksSpec => []CutsInv
  <1>1. BreaksInit => CutsInv
    BY InitCuts
  <1>2. TypeOK /\ TypeOK' /\ LinesInv /\ ContextInv /\ CutsInv /\ [BreaksNext]_vars
          => CutsInv'
    <2> SUFFICES ASSUME TypeOK, TypeOK', LinesInv, ContextInv, CutsInv,
                        [BreaksNext]_vars
                 PROVE  CutsInv'
      OBVIOUS
    <2>1. ASSUME Scan PROVE CutsInv'
      BY <2>1, ScanKeepsCuts
    <2>2. ASSUME Collect PROVE CutsInv'
      <3>1. text' = text /\ pc' = "call" /\ outcome = "running" /\ pc = "ret"
        BY <2>2 DEF Collect
      <3> SUFFICES ASSUME Covered(text), text # <<>> PROVE CutsInv'
        BY <3>1 DEF CutsInv
      <3>2. CutHere(Ends)'
        BY <2>2, <3>1, CollectKeepsCuts DEF CutsInv
      <3>. QED BY <3>1, <3>2 DEF CutsInv
    <2>3. ASSUME UNCHANGED vars PROVE CutsInv'
      BY <2>3 DEF vars, CutsInv, CutHere, NoneBefore, Ends
    <2>. QED BY <2>1, <2>2, <2>3 DEF BreaksNext, Finished
  <1>. QED BY <1>1, <1>2, TypeCorrect, LinesCorrect, ContextKept, PTL DEF BreaksSpec

\* NextBreak, called again and again on what is left of a string or a []byte,
\* cuts the text where the rules, read over the whole of it, let a line end, and
\* nowhere else: any text of valid UTF-8, of any length, that Covered describes.
THEOREM LinesConform ==
  ASSUME ~DefinedType
  PROVE  BreaksSpec => [](Covered(text) => ConformsToUAX14)
  <1>1. TypeOK /\ LinesInv /\ CutsInv => (Covered(text) => ConformsToUAX14)
    <2> SUFFICES ASSUME TypeOK, LinesInv, CutsInv, Covered(text),
                        outcome = "done", text # <<>>
                 PROVE  ToSet(offsets) = Ends \cup {Len(text)}
      BY DEF ConformsToUAX14, Ends
    <2>1. start = Len(text) /\ text \in Seq(Byte) /\ Unmarked(text)
      BY DEF LinesInv, SliceInv, TypeOK, Covered
    <2>2. \A r \in Ends : r \in Nat /\ r < Len(text)
      BY <2>1, EndsWithin
    <2>3. \A r \in Ends : r <= Len(text)
      BY <2>1, <2>2
    <2>4. \A r : r \in ToSet(offsets) <=> r \in Ends \/ r = Len(text)
      BY <2>1, <2>3, CutsMeans DEF CutsInv, CutHere
    <2>. QED BY <2>4
  <1>. QED BY <1>1, TypeCorrect, LinesCorrect, CutsCorrect, PTL
=============================================================================
