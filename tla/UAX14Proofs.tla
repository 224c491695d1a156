---------------------------- MODULE UAX14Proofs ----------------------------
(***************************************************************************)
(* No rule of UAX #14 looks back beyond the start of a line: a place where *)
(* the rules let a line end is as good as the start of the text.           *)
(***************************************************************************)
EXTENDS UAX14, EncodedText, FiniteSetTheorems, TLAPS

\* The values of a text without marks (LB9 and LB10 have nothing to do).
IsPlain(q) ==
  /\ DOMAIN q \in SUBSET Nat
  /\ IsFiniteSet(DOMAIN q)
  /\ \A j \in DOMAIN q : q[j] \in TableValue /\ q[j] # {}

\* What is left of it from the place s on.
From(q, s) == [j \in {m \in DOMAIN q : s <= m} |-> q[j]]

\* A line starts at the place s.
LineStart(q, s) ==
  /\ s \in DOMAIN q
  /\ \/ \A j \in DOMAIN q : s <= j
     \/ \E p \in DOMAIN q : Adjacent(q, p, s) /\ MayEnd(q, p, s)

-----------------------------------------------------------------------------
(* Values and places.                                                      *)

\* A value has one class, and some classes have no annotation beside them.
LEMMA OneClass ==
  ASSUME NEW v \in TableValue
  PROVE  /\ v \in Property
         /\ \A a, b \in v : a \notin annotationMask /\ b \notin annotationMask => a = b
         /\ \A h \in Hard \cup {"SP", "ZW"} : h \in v => v = {h}
         /\ "PI" \in v => "QU" \in v /\ "PF" \notin v
         /\ "DC" \in v => "AL" \in v
  BY DEF TableValue

\* The classes of a value that has none of its classes beside it.
LEMMA Sole ==
  ASSUME NEW v \in TableValue, NEW A, NEW h \in Hard \cup {"SP", "ZW"},
         h \in v, Is(v, A)
  PROVE  h \in A
  BY OneClass DEF Is

\* What stands before a place is the character next to it.
LEMMA PriorIs ==
  ASSUME NEW q, IsPlain(q), NEW k, NEW j \in DOMAIN q, Adjacent(q, j, k), k \in Nat
  PROVE  Prior(q, k) = q[j]
  <1>1. {i \in DOMAIN q : Adjacent(q, i, k)} = {j}
    <2> SUFFICES ASSUME NEW i \in DOMAIN q, Adjacent(q, i, k) PROVE i = j
      OBVIOUS
    <2>1. i \in Nat /\ j \in Nat /\ ~(i < j) /\ ~(j < i)
      BY DEF IsPlain, Adjacent
    <2>. QED BY <2>1
  <1>. QED BY <1>1 DEF Prior

\* It has a value of the table.
LEMMA PriorValue ==
  ASSUME NEW q, IsPlain(q), NEW k \in Nat, Prior(q, k) # {}
  PROVE  Prior(q, k) \in TableValue
  <1>1. PICK j \in DOMAIN q : Adjacent(q, j, k)
    BY DEF Prior
  <1>. QED BY <1>1, PriorIs DEF IsPlain

\* What stands after a place is the character next to it.
LEMMA FollowingIs ==
  ASSUME NEW q, IsPlain(q), NEW j \in Nat, NEW k \in DOMAIN q, Adjacent(q, j, k)
  PROVE  Following(q, j) = q[k]
  <1>1. {i \in DOMAIN q : Adjacent(q, j, i)} = {k}
    <2> SUFFICES ASSUME NEW i \in DOMAIN q, Adjacent(q, j, i) PROVE i = k
      OBVIOUS
    <2>1. i \in Nat /\ k \in Nat /\ ~(i < k) /\ ~(k < i)
      BY DEF IsPlain, Adjacent
    <2>. QED BY <2>1
  <1>. QED BY <1>1 DEF Following

\* What is left of a text has the same characters in the same order.
LEMMA FromPlaces ==
  ASSUME NEW q, IsPlain(q), NEW s \in DOMAIN q
  PROVE  LET g == From(q, s)
         IN  /\ IsPlain(g)
             /\ DOMAIN g = {m \in DOMAIN q : s <= m}
             /\ \A j \in DOMAIN g : g[j] = q[j]
             /\ \A j, k \in DOMAIN g : Adjacent(g, j, k) <=> Adjacent(q, j, k)
             /\ \A j \in DOMAIN g : Following(g, j) = Following(q, j)
             /\ \A k \in DOMAIN g : s < k => Prior(g, k) = Prior(q, k)
             /\ Prior(g, s) = {}
             /\ \A j, k \in DOMAIN g : \A C : Run(g, j, k, C) <=> Run(q, j, k, C)
  <1> DEFINE g == From(q, s)
  <1>1. DOMAIN g = {m \in DOMAIN q : s <= m} /\ \A j \in DOMAIN g : g[j] = q[j]
    BY DEF From
  <1>2. DOMAIN q \subseteq Nat /\ s \in Nat
    BY DEF IsPlain
  <1> HIDE DEF g
  <1>3. IsPlain(g)
    <2>1. IsFiniteSet(DOMAIN g)
      BY <1>1, FS_Subset DEF IsPlain
    <2>. QED BY <1>1, <1>2, <2>1 DEF IsPlain
  <1>4. \A j \in DOMAIN g, k \in DOMAIN q : Adjacent(g, j, k) <=> Adjacent(q, j, k)
    BY <1>1, <1>2 DEF Adjacent
  <1>5. \A j \in DOMAIN g, k \in DOMAIN q : j < k => k \in DOMAIN g
    BY <1>1, <1>2
  <1>6. ASSUME NEW j \in DOMAIN g PROVE Following(g, j) = Following(q, j)
    <2>1. {i \in DOMAIN g : Adjacent(g, j, i)} = {i \in DOMAIN q : Adjacent(q, j, i)}
      BY <1>1, <1>4, <1>5 DEF Adjacent
    <2>2. \A i \in {i \in DOMAIN g : Adjacent(g, j, i)} : g[i] = q[i]
      BY <1>1
    <2>. QED BY <2>1, <2>2 DEF Following
  <1>7. ASSUME NEW k \in DOMAIN g, s < k PROVE Prior(g, k) = Prior(q, k)
    <2>1. \A i \in DOMAIN q : Adjacent(q, i, k) => i \in DOMAIN g
      BY <1>1, <1>2, <1>7 DEF Adjacent
    <2>2. {i \in DOMAIN g : Adjacent(g, i, k)} = {i \in DOMAIN q : Adjacent(q, i, k)}
      BY <1>1, <1>4, <2>1
    <2>3. \A i \in {i \in DOMAIN g : Adjacent(g, i, k)} : g[i] = q[i]
      BY <1>1
    <2>. QED BY <2>2, <2>3 DEF Prior
  <1>8. Prior(g, s) = {}
    <2>1. {i \in DOMAIN g : Adjacent(g, i, s)} = {}
      BY <1>1, <1>2 DEF Adjacent
    <2>. QED BY <2>1 DEF Prior
  <1>9. \A j, k \in DOMAIN g : \A C : Run(g, j, k, C) <=> Run(q, j, k, C)
    BY <1>1, <1>2 DEF Run
  <1>10. \A j, k \in DOMAIN g : Adjacent(g, j, k) <=> Adjacent(q, j, k)
    BY <1>1, <1>4
  <1>. QED BY <1>1, <1>3, <1>6, <1>7, <1>8, <1>9, <1>10 DEF g

-----------------------------------------------------------------------------
(* What precedes the start of a line.                                      *)

\* A line that ends after a character that is no hard break, space or ZW ends
\* where none of the later rules joins.
LEMMA EndWithin ==
  ASSUME NEW q, IsPlain(q), NEW p \in DOMAIN q, NEW s \in DOMAIN q,
         Adjacent(q, p, s), MayEnd(q, p, s),
         ~Is(q[p], Hard \cup {"SP", "ZW"})
  PROVE  /\ ~Is(q[s], Hard \cup {"SP", "ZW"})
         /\ ~Joined11(q, p, s) /\ ~Joined15d(q, s) /\ ~Joined19(q, p, s)
         /\ Is(q[p] \cup q[s], {"CB"}) \/ ~Joined20a(q, p, s)
  <1>1. ~Is(q[p], Hard) /\ ~Is(q[p], {"SP"}) /\ ~Is(q[p], {"ZW"})
    BY DEF Is
  <1>2. ~Spaced(q, s, {"ZW"})
    <2> SUFFICES ASSUME NEW j \in DOMAIN q, j < s, Is(q[j], {"ZW"}), Run(q, j, s, {"SP"})
                 PROVE  FALSE
      BY DEF Spaced, Sequel
    <2>1. p < s /\ ~(p < j) /\ p \in Nat /\ j \in Nat
      BY DEF Adjacent, IsPlain
    <2>2. p = j \/ Is(q[p], {"SP"})
      BY <2>1 DEF Run
    <2>. QED BY <1>1, <2>2
  <1>3. ~Is(q[s], Hard \cup {"SP", "ZW"})
    BY <1>1 DEF MayEnd
  <1>4. ~Joined11(q, p, s)
    BY <1>1, <1>2, <1>3 DEF MayEnd
  <1>5. ~Pair(q, p, s, {"SP"}, {"IS"})
    BY <1>1 DEF Pair
  <1>6. ~Joined15d(q, s)
    BY <1>1, <1>2, <1>3, <1>4, <1>5 DEF MayEnd
  <1>7. ~Joined19(q, p, s)
    BY <1>1, <1>2, <1>3, <1>4, <1>5, <1>6 DEF MayEnd
  <1>8. Is(q[p] \cup q[s], {"CB"}) \/ ~Joined20a(q, p, s)
    BY <1>1, <1>2, <1>3, <1>4, <1>5, <1>6, <1>7 DEF MayEnd
  <1>. QED BY <1>3, <1>4, <1>6, <1>7, <1>8

\* A character before the start of a line, from which a run of some classes goes
\* beyond that start: the line starts with one of these classes.
LEMMA RunIntoLine ==
  ASSUME NEW q, IsPlain(q), NEW s, LineStart(q, s),
         NEW j \in DOMAIN q, j < s, NEW r \in DOMAIN q, s < r,
         NEW rest, Run(q, j, r, rest)
  PROVE  /\ Is(q[s], rest)
         /\ \E p \in DOMAIN q : /\ Adjacent(q, p, s) /\ MayEnd(q, p, s)
                                /\ p = j \/ Is(q[p], rest)
                                /\ Run(q, j, s, rest)
  <1>1. s \in DOMAIN q /\ ~(s <= j) /\ s \in Nat /\ r \in Nat /\ j \in Nat
    BY DEF LineStart, IsPlain
  <1>2. PICK p \in DOMAIN q : Adjacent(q, p, s) /\ MayEnd(q, p, s)
    BY <1>1 DEF LineStart
  <1>3. Is(q[s], rest)
    BY <1>1 DEF Run
  <1>4. p < s /\ ~(p < j) /\ p \in Nat
    BY <1>1, <1>2 DEF Adjacent, IsPlain
  <1>5. p = j \/ Is(q[p], rest)
    BY <1>1, <1>4 DEF Run
  <1>6. Run(q, j, s, rest)
    BY <1>1 DEF Run, IsPlain
  <1>. QED BY <1>2, <1>3, <1>5, <1>6

\* Spaces do not go beyond the start of a line, but after a hard break.
LEMMA NoSpacesIntoLine ==
  ASSUME NEW q, IsPlain(q), NEW s, LineStart(q, s),
         NEW j \in DOMAIN q, j < s, NEW r \in DOMAIN q, s < r,
         Run(q, j, r, {"SP"})
  PROVE  Is(q[j], Hard)
  <1>1. Is(q[s], {"SP"}) /\ s \in DOMAIN q
    BY RunIntoLine DEF LineStart
  <1>2. PICK p \in DOMAIN q : MayEnd(q, p, s) /\ (p = j \/ Is(q[p], {"SP"}))
    BY RunIntoLine
  <1>3. Is(q[s], Hard \cup {"SP", "ZW"})
    BY <1>1 DEF Is
  <1>4. Is(q[p], Hard)
    BY <1>2, <1>3 DEF MayEnd
  <1>5. ~Is(q[p], {"SP"})
    <2>1. q[p] \in TableValue
      BY DEF IsPlain
    <2>2. PICK h \in Hard : h \in q[p]
      BY <1>4 DEF Is
    <2>3. q[p] = {h}
      BY <2>1, <2>2, OneClass
    <2>. QED BY <2>3 DEF Is, Hard
  <1>. QED BY <1>2, <1>4, <1>5

\* Nor do the separators of a number.
LEMMA NoNumberIntoLine ==
  ASSUME NEW q, IsPlain(q), NEW s, LineStart(q, s),
         NEW j \in DOMAIN q, j < s, NEW r \in DOMAIN q, s < r,
         Is(q[j], {"NU"})
  PROVE  ~Run(q, j, r, {"SY", "IS"})
  <1> SUFFICES ASSUME Run(q, j, r, {"SY", "IS"}) PROVE FALSE
    OBVIOUS
  <1>1. Is(q[s], {"SY", "IS"}) /\ s \in DOMAIN q
    BY RunIntoLine DEF LineStart
  <1>2. PICK p \in DOMAIN q : /\ Adjacent(q, p, s) /\ MayEnd(q, p, s)
                              /\ p = j \/ Is(q[p], {"SY", "IS"})
    BY RunIntoLine
  <1>3. Is(q[p], {"NU", "SY", "IS"})
    BY <1>2 DEF Is
  <1>4. ~Is(q[p], Hard \cup {"SP", "ZW"})
    <2> SUFFICES ASSUME NEW h \in Hard \cup {"SP", "ZW"}, h \in q[p] PROVE FALSE
      BY DEF Is
    <2>1. h \in {"NU", "SY", "IS"}
      BY <1>3, Sole DEF IsPlain
    <2>. QED BY <2>1 DEF Hard
  <1>5. ~Joined11(q, p, s) /\ ~Joined15d(q, s)
    BY <1>1, <1>2, <1>4, EndWithin
  <1>. QED BY <1>1, <1>5 DEF Joined11, Joined15d, Is

-----------------------------------------------------------------------------
(* The rules over what is left of a text, from the start of a line on.     *)

\* What the rules at a boundary of the line see of it.
LEMMA FromBoundary ==
  ASSUME NEW q, IsPlain(q), NEW s, LineStart(q, s),
         NEW l \in DOMAIN q, s <= l, NEW r \in DOMAIN q, Adjacent(q, l, r)
  PROVE  LET g == From(q, s)
         IN  /\ s \in DOMAIN q /\ s \in Nat /\ l \in Nat /\ r \in Nat
             /\ l < r /\ s < r
             /\ l \in DOMAIN g /\ r \in DOMAIN g
             /\ g[l] = q[l] /\ g[r] = q[r]
             /\ Following(g, r) = Following(q, r)
             /\ s < l => Prior(g, l) = Prior(q, l)
             /\ Prior(g, s) = {}
  <1> DEFINE g == From(q, s)
  <1>1. s \in Nat /\ l \in Nat /\ r \in Nat /\ l < r /\ s < r /\ s \in DOMAIN q
    BY DEF LineStart, IsPlain, Adjacent
  <1>2. /\ DOMAIN g = {m \in DOMAIN q : s <= m}
        /\ \A j \in DOMAIN g : g[j] = q[j] /\ Following(g, j) = Following(q, j)
        /\ \A k \in DOMAIN g : s < k => Prior(g, k) = Prior(q, k)
        /\ Prior(g, s) = {}
    BY <1>1, FromPlaces
  <1> HIDE DEF g
  <1>3. l \in DOMAIN g /\ r \in DOMAIN g
    BY <1>1, <1>2
  <1>. QED BY <1>1, <1>2, <1>3 DEF g

\* What stands before a place, spaces passed over, is one and the same in the line
\* and in the text.
LEMMA SpacedFrom ==
  ASSUME NEW q, IsPlain(q), NEW s, LineStart(q, s), NEW r \in DOMAIN q, s < r,
         NEW classes, classes \cap Hard = {}
  PROVE  Spaced(From(q, s), r, classes) <=> Spaced(q, r, classes)
  <1> DEFINE g == From(q, s)
  <1>1. /\ s \in DOMAIN q /\ s \in Nat /\ DOMAIN q \subseteq Nat
        /\ DOMAIN g = {m \in DOMAIN q : s <= m}
        /\ \A j \in DOMAIN g : g[j] = q[j]
        /\ \A j, k \in DOMAIN g : \A C : Run(g, j, k, C) <=> Run(q, j, k, C)
    BY FromPlaces DEF LineStart, IsPlain
  <1> HIDE DEF g
  <1>2. r \in DOMAIN g
    BY <1>1
  <1>3. ASSUME NEW j \in DOMAIN q, j < r, Is(q[j], classes), Run(q, j, r, {"SP"})
        PROVE  j \in DOMAIN g
    <2> SUFFICES ASSUME j < s PROVE FALSE
      BY <1>1
    <2>1. PICK h \in Hard : h \in q[j]
      BY <1>3, NoSpacesIntoLine DEF Is
    <2>2. h \in classes
      BY <1>3, <2>1, Sole DEF IsPlain
    <2>. QED BY <2>2
  <1>. QED BY <1>1, <1>2, <1>3 DEF Spaced, Sequel, g

\* A number before a place is within the line.
LEMMA NumberFrom ==
  ASSUME NEW q, IsPlain(q), NEW s, LineStart(q, s), NEW r \in DOMAIN q, s < r
  PROVE  Number(From(q, s), r) <=> Number(q, r)
  <1> DEFINE g == From(q, s)
  <1>1. /\ s \in DOMAIN q /\ s \in Nat /\ DOMAIN q \subseteq Nat
        /\ DOMAIN g = {m \in DOMAIN q : s <= m}
        /\ \A j \in DOMAIN g : g[j] = q[j]
        /\ \A j, k \in DOMAIN g : \A C : Run(g, j, k, C) <=> Run(q, j, k, C)
    BY FromPlaces DEF LineStart, IsPlain
  <1> HIDE DEF g
  <1>2. r \in DOMAIN g
    BY <1>1
  <1>3. ASSUME NEW j \in DOMAIN q, Is(q[j], {"NU"}), Run(q, j, r, {"SY", "IS"})
        PROVE  j \in DOMAIN g
    BY <1>1, <1>3, NoNumberIntoLine
  <1>. QED BY <1>1, <1>2, <1>3 DEF Number, Sequel, g

\* A line that starts after a character which is no hard break, space or ZW.
LEMMA BeforeLine ==
  ASSUME NEW q, IsPlain(q), NEW s, LineStart(q, s),
         Prior(q, s) # {}, ~Is(Prior(q, s), Hard \cup {"SP", "ZW"})
  PROVE  \E p \in DOMAIN q :
           /\ Adjacent(q, p, s)
           /\ Prior(q, s) = q[p]
           /\ ~Joined11(q, p, s) /\ ~Joined15d(q, s) /\ ~Joined19(q, p, s)
           /\ Is(q[p] \cup q[s], {"CB"}) \/ ~Joined20a(q, p, s)
  <1>1. s \in DOMAIN q /\ s \in Nat
    BY DEF LineStart, IsPlain
  <1>2. PICK i \in DOMAIN q : Adjacent(q, i, s)
    BY DEF Prior
  <1>3. ~(s <= i)
    BY <1>1, <1>2 DEF Adjacent, IsPlain
  <1>4. PICK p \in DOMAIN q : Adjacent(q, p, s) /\ MayEnd(q, p, s)
    BY <1>3 DEF LineStart
  <1>5. Prior(q, s) = q[p]
    BY <1>1, <1>4, PriorIs
  <1>. QED BY <1>1, <1>4, <1>5, EndWithin

\* LB15a: a line starts with an opening quotation mark, not after a space or one
\* of the other classes, only between wide characters (LB19a).
LEMMA QuoteStartsLine ==
  ASSUME NEW q, IsPlain(q), NEW s, LineStart(q, s),
         {"PI", "QU"} \subseteq q[s],
         ~StartOr(q, s, Hard \cup {"OP", "QU", "GL", "SP", "ZW"})
  PROVE  Is(Following(q, s), {"EA"})
  <1>1. Prior(q, s) # {} /\ ~Is(Prior(q, s), Hard \cup {"SP", "ZW"})
    BY DEF StartOr, Is
  <1>2. PICK p \in DOMAIN q : ~Joined19(q, p, s)
    BY <1>1, BeforeLine
  <1>3. Is(q[s], {"QU"})
    BY DEF Is
  <1>. QED BY <1>2, <1>3 DEF Joined19, R19a

\* LB15a sees in the line what it sees in the text, but for a quotation mark that
\* starts the line.
LEMMA R15aFrom ==
  ASSUME NEW q, IsPlain(q), NEW s, LineStart(q, s),
         NEW l \in DOMAIN q, s <= l, NEW r \in DOMAIN q, Adjacent(q, l, r)
  PROVE  /\ R15a(q, r) => R15a(From(q, s), r)
         /\ R15a(From(q, s), r) /\ ~R15a(q, r) => l = s /\ {"PI", "QU"} \subseteq q[s]
  <1> DEFINE g == From(q, s)
             openers == Hard \cup {"OP", "QU", "GL", "SP", "ZW"}
  <1>1. /\ s \in DOMAIN q /\ s \in Nat /\ DOMAIN q \subseteq Nat
        /\ DOMAIN g = {m \in DOMAIN q : s <= m}
        /\ \A j \in DOMAIN g : g[j] = q[j]
        /\ \A j, k \in DOMAIN g : \A C : Run(g, j, k, C) <=> Run(q, j, k, C)
        /\ \A k \in DOMAIN g : s < k => Prior(g, k) = Prior(q, k)
        /\ Prior(g, s) = {}
    BY FromPlaces DEF LineStart, IsPlain
  <1> HIDE DEF g
  <1>2. l < r /\ s < r /\ r \in DOMAIN g /\ \A m \in DOMAIN q : ~(l < m /\ m < r)
    BY <1>1 DEF Adjacent
  <1>3. ASSUME NEW j \in DOMAIN q, j < r, {"PI", "QU"} \subseteq q[j], Run(q, j, r, {"SP"})
        PROVE  j \in DOMAIN g
    <2> SUFFICES ASSUME j < s PROVE FALSE
      BY <1>1
    <2>1. PICK h \in Hard : h \in q[j]
      BY <1>2, <1>3, NoSpacesIntoLine DEF Is
    <2>2. q[j] = {h}
      BY <2>1, OneClass DEF IsPlain
    <2>. QED BY <1>3, <2>2 DEF Hard
  <1>4. ASSUME NEW j \in DOMAIN g
        PROVE  /\ StartOr(q, j, openers) => StartOr(g, j, openers)
               /\ j # s => (StartOr(g, j, openers) => StartOr(q, j, openers))
    BY <1>1 DEF StartOr
  <1>5. ASSUME R15a(q, r) PROVE R15a(g, r)
    BY <1>1, <1>2, <1>3, <1>4, <1>5 DEF R15a
  <1>6. ASSUME R15a(g, r), ~R15a(q, r)
        PROVE  l = s /\ {"PI", "QU"} \subseteq q[s]
    <2>1. PICK j \in DOMAIN g : /\ j < r /\ {"PI", "QU"} \subseteq q[j]
                                /\ Run(q, j, r, {"SP"})
                                /\ StartOr(g, j, openers)
      BY <1>1, <1>2, <1>6 DEF R15a
    <2>2. j \in DOMAIN q /\ ~StartOr(q, j, openers)
      BY <1>1, <1>6, <2>1 DEF R15a
    <2>3. j = s
      BY <1>4, <2>1, <2>2
    <2>4. Is(Following(q, s), {"EA"})
      BY <2>1, <2>2, <2>3, QuoteStartsLine
    <2>5. PICK n \in DOMAIN q : Adjacent(q, s, n)
      BY <2>4 DEF Following, Is
    <2>6. Is(q[n], {"EA"})
      BY <1>1, <2>4, <2>5, FollowingIs
    <2>7. ~Is(q[n], {"SP"})
      <3>1. q[n] \in TableValue
        BY DEF IsPlain
      <3>2. "SP" \in q[n] => q[n] = {"SP"}
        BY <3>1, OneClass
      <3>. QED BY <2>6, <3>2 DEF Is
    <2>8. ~(s < n /\ n < r)
      BY <2>1, <2>3, <2>7 DEF Run
    <2>9. s < n /\ ~(s < l /\ l < n)
      BY <2>5 DEF Adjacent
    <2>10. l = s
      <3>1. s \in Nat /\ l \in Nat /\ n \in Nat /\ r \in Nat
        BY <1>1
      <3>. QED BY <1>2, <2>8, <2>9, <3>1
    <2>. QED BY <2>1, <2>3, <2>10
  <1>. QED BY <1>5, <1>6 DEF g

\* LB11 to LB15b join the same, but that a quotation mark which starts a line is
\* taken for one that starts the text.
LEMMA Joined11From ==
  ASSUME NEW q, IsPlain(q), NEW s, LineStart(q, s),
         NEW l \in DOMAIN q, s <= l, NEW r \in DOMAIN q, Adjacent(q, l, r)
  PROVE  /\ Joined11(q, l, r) => Joined11(From(q, s), l, r)
         /\ Joined11(From(q, s), l, r) /\ ~Joined11(q, l, r) =>
              l = s /\ {"PI", "QU"} \subseteq q[s]
  <1> DEFINE g == From(q, s)
  <1>1. /\ s \in Nat /\ l \in Nat /\ r \in Nat /\ l < r
        /\ g[l] = q[l] /\ g[r] = q[r]
        /\ Following(g, r) = Following(q, r)
    BY FromBoundary
  <1>2. s < r
    BY <1>1
  <1>3. Spaced(g, r, {"OP"}) <=> Spaced(q, r, {"OP"})
    BY <1>2, SpacedFrom DEF Hard
  <1>4. R15b(g, r) <=> R15b(q, r)
    BY <1>1 DEF R15b
  <1>5. /\ R15a(q, r) => R15a(g, r)
        /\ R15a(g, r) /\ ~R15a(q, r) => l = s /\ {"PI", "QU"} \subseteq q[s]
    BY R15aFrom
  <1> HIDE DEF g
  <1>6. Joined11(g, l, r) /\ ~R15a(g, r) <=> Joined11(q, l, r) /\ ~R15a(g, r)
    BY <1>1, <1>3, <1>4, <1>5 DEF Joined11
  <1>7. R15a(g, r) => Joined11(g, l, r)
    BY DEF Joined11
  <1>8. R15a(q, r) => Joined11(q, l, r)
    BY DEF Joined11
  <1>. QED BY <1>5, <1>6, <1>7, <1>8 DEF g

\* LB15d to LB17 join in the line where they join in the text.
LEMMA Joined15dFrom ==
  ASSUME NEW q, IsPlain(q), NEW s, LineStart(q, s), NEW r \in DOMAIN q, s < r
  PROVE  Joined15d(From(q, s), r) <=> Joined15d(q, r)
  <1> DEFINE g == From(q, s)
  <1>1. g[r] = q[r]
    BY DEF From, LineStart, IsPlain
  <1>2. /\ Spaced(g, r, {"CL", "CP"}) <=> Spaced(q, r, {"CL", "CP"})
        /\ Spaced(g, r, {"B2"}) <=> Spaced(q, r, {"B2"})
    BY SpacedFrom DEF Hard
  <1> HIDE DEF g
  <1>. QED BY <1>1, <1>2 DEF Joined15d, g

\* LB19, LB19a: what LB19a takes for the start of the text, LB19 joins.
LEMMA Joined19From ==
  ASSUME NEW q, IsPlain(q), NEW s, LineStart(q, s),
         NEW l \in DOMAIN q, s <= l, NEW r \in DOMAIN q, Adjacent(q, l, r)
  PROVE  Joined19(From(q, s), l, r) <=> Joined19(q, l, r)
  <1> DEFINE g == From(q, s)
  <1>1. /\ s \in Nat /\ l \in Nat /\ r \in Nat /\ l < r
        /\ s \in DOMAIN q
        /\ g[l] = q[l] /\ g[r] = q[r]
        /\ Following(g, r) = Following(q, r)
        /\ s < l => Prior(g, l) = Prior(q, l)
        /\ Prior(g, s) = {}
    BY FromBoundary
  <1> HIDE DEF g
  <1>2. CASE s < l
    <2>1. R19a(g, l, r) <=> R19a(q, l, r)
      BY <1>1, <1>2 DEF R19a
    <2>. QED BY <1>1, <2>1 DEF Joined19, g
  <1>3. CASE l = s
    <2>1. ~Is(Prior(g, l), {"EA"})
      BY <1>1, <1>3 DEF Is
    <2>2. ASSUME Is(q[s], {"QU"}) PROVE Joined19(g, l, r) /\ Joined19(q, l, r)
      <3>1. R19a(g, l, r)
        BY <1>1, <1>3, <2>1, <2>2 DEF R19a
      <3>2. ASSUME ~Joined19(q, l, r) PROVE FALSE
        <4>1. Is(q[s], {"PF"}) /\ Is(Prior(q, s), {"EA"})
          BY <1>3, <2>2, <3>2 DEF Joined19, R19a
        <4>2. PICK p \in DOMAIN q : p < s /\ Prior(q, s) = q[p]
          <5>1. PICK p \in DOMAIN q : Adjacent(q, p, s)
            BY <4>1 DEF Prior, Is
          <5>. QED BY <1>1, <5>1, PriorIs DEF Adjacent
        <4>3. ~Is(Prior(q, s), Hard \cup {"SP", "ZW"}) /\ Prior(q, s) # {}
          <5> SUFFICES ASSUME NEW h \in Hard \cup {"SP", "ZW"}, h \in q[p] PROVE FALSE
            BY <4>1, <4>2 DEF Is
          <5>1. h \in {"EA"}
            BY <4>1, <4>2, Sole DEF IsPlain
          <5>. QED BY <5>1 DEF Hard
        <4>4. PICK i \in DOMAIN q : ~Joined19(q, i, s)
          BY <4>3, BeforeLine
        <4>5. Is(q[s], {"PI"})
          BY <2>2, <4>4 DEF Joined19
        <4>6. "PI" \in q[s] /\ "PF" \in q[s] /\ q[s] \in TableValue
          BY <1>1, <4>1, <4>5 DEF Is, IsPlain
        <4>. QED BY <4>6, OneClass
      <3>. QED BY <3>1, <3>2 DEF Joined19
    <2>3. ASSUME ~Is(q[s], {"QU"}) PROVE Joined19(g, l, r) <=> Joined19(q, l, r)
      BY <1>1, <1>3, <2>3 DEF Joined19, R19a
    <2>. QED BY <2>2, <2>3 DEF g
  <1>. QED BY <1>1, <1>2, <1>3

\* LB30a: a line starts between two RI only after an even number of them.
LEMMA FlagsFrom ==
  ASSUME NEW q, IsPlain(q), NEW s, LineStart(q, s), NEW r \in DOMAIN q, s < r,
         Is(q[r], {"RI"})
  PROVE  R30a(From(q, s), r) <=> R30a(q, r)
  <1> DEFINE g == From(q, s)
             before == Flags(q, s)
             inLine == Flags(g, r)
             all    == Flags(q, r)
  <1>1. /\ s \in DOMAIN q /\ s \in Nat /\ r \in Nat /\ DOMAIN q \subseteq Nat
        /\ DOMAIN g = {m \in DOMAIN q : s <= m}
        /\ \A j \in DOMAIN g : g[j] = q[j]
        /\ \A j, k \in DOMAIN g : \A C : Run(g, j, k, C) <=> Run(q, j, k, C)
    BY FromPlaces DEF LineStart, IsPlain
  <1>2. r \in DOMAIN g
    BY <1>1
  <1> HIDE DEF g
  <1>3. inLine = {j \in all : s <= j}
    BY <1>1, <1>2 DEF Flags
  <1>4. \A j \in all : j \in DOMAIN q /\ j \in Nat
    BY <1>1 DEF Flags
  <1>5. CASE \A j \in all : s <= j
    <2>1. inLine = all
      BY <1>3, <1>5
    <2>. QED BY <1>1, <1>2, <2>1 DEF R30a, g
  <1>6. CASE \E j \in all : ~(s <= j)
    <2>1. PICK j \in all : j < s
      BY <1>1, <1>4, <1>6
    <2>2. j \in DOMAIN q /\ j \in Nat /\ Is(q[j], {"RI"}) /\ Run(q, j, r, {"RI"})
      BY <1>4 DEF Flags
    <2>3. Is(q[s], {"RI"})
      BY <2>1, <2>2, RunIntoLine
    <2>4. PICK p \in DOMAIN q : /\ Adjacent(q, p, s) /\ MayEnd(q, p, s)
                                /\ p = j \/ Is(q[p], {"RI"})
      BY <2>1, <2>2, RunIntoLine
    <2>5. Is(q[p], {"RI"})
      BY <2>2, <2>4
    <2>6. /\ ~Is(q[p], Hard \cup {"SP", "ZW"})
          /\ ~Is(q[p] \cup q[s], {"CB"})
      <3>1. ASSUME NEW h \in Hard \cup {"SP", "ZW"}, h \in q[p] PROVE FALSE
        <4>1. h \in {"RI"}
          BY <2>5, <3>1, Sole DEF IsPlain
        <4>. QED BY <4>1 DEF Hard
      <3>2. ASSUME NEW k \in DOMAIN q, "RI" \in q[k] PROVE "CB" \notin q[k]
        <4>1. q[k] \in TableValue /\ "RI" \notin annotationMask /\ "CB" \notin annotationMask
          BY DEF IsPlain, annotationMask
        <4>. QED BY <3>2, <4>1, OneClass
      <3>. QED BY <1>1, <2>3, <2>5, <3>1, <3>2 DEF Is
    <2>7. ~R30a(q, s)
      BY <1>1, <2>4, <2>6, EndWithin DEF Joined20a
    <2>8. Cardinality(before) % 2 # 1
      BY <2>3, <2>7 DEF R30a
    <2>9. before = {k \in all : k < s}
      <3>1. ASSUME NEW k \in before PROVE k \in all /\ k < s
        <4>1. k \in DOMAIN q /\ k < s /\ Is(q[k], {"RI"}) /\ Run(q, k, s, {"RI"})
          BY DEF Flags
        <4>2. k \in Nat /\ k < r
          BY <1>1, <4>1
        <4>3. ASSUME NEW m \in DOMAIN q, k < m, m < r PROVE Is(q[m], {"RI"})
          <5>1. m \in Nat
            BY <1>1
          <5>2. m < s \/ m = s \/ j < m
            BY <1>1, <2>1, <2>2, <5>1
          <5>. QED BY <2>2, <2>3, <4>1, <4>3, <5>2 DEF Run
        <4>. QED BY <4>1, <4>2, <4>3 DEF Flags, Run
      <3>2. ASSUME NEW k \in all, k < s PROVE k \in before
        <4>1. k \in DOMAIN q /\ Is(q[k], {"RI"}) /\ Run(q, k, r, {"RI"})
          BY DEF Flags
        <4>2. \A m \in DOMAIN q : m < s => m < r
          BY <1>1
        <4>3. Run(q, k, s, {"RI"})
          BY <4>1, <4>2 DEF Run
        <4>. QED BY <3>2, <4>1, <4>3 DEF Flags
      <3>. QED BY <3>1, <3>2
    <2>10. IsFiniteSet(before) /\ IsFiniteSet(inLine)
      <3>1. all \subseteq DOMAIN q /\ IsFiniteSet(DOMAIN q)
        BY DEF Flags, IsPlain
      <3>2. IsFiniteSet(all)
        BY <3>1, FS_Subset
      <3>3. before \subseteq all /\ inLine \subseteq all
        BY <1>3, <2>9
      <3>. QED BY <3>2, <3>3, FS_Subset
    <2>11. all = before \cup inLine /\ before \cap inLine = {}
      <3>1. \A k \in all : (k < s \/ s <= k) /\ ~(k < s /\ s <= k)
        BY <1>1, <1>4
      <3> HIDE DEF before, inLine, all
      <3>. QED BY <1>3, <2>9, <3>1
    <2> HIDE DEF before, inLine, all
    <2>12. Cardinality(all) = Cardinality(before) + Cardinality(inLine)
      <3>1. Cardinality(before \cup inLine) = Cardinality(before) + Cardinality(inLine)
                                                - Cardinality(before \cap inLine)
        BY <2>10, FS_Union
      <3>2. Cardinality(before \cap inLine) = 0
        BY <2>11, FS_EmptySet
      <3>3. Cardinality(before) \in Nat /\ Cardinality(inLine) \in Nat
        BY <2>10, FS_CardinalityType
      <3>. QED BY <2>11, <3>1, <3>2, <3>3
    <2>13. Cardinality(all) % 2 = 1 <=> Cardinality(inLine) % 2 = 1
      <3>1. PICK a \in Nat, b \in Nat : a = Cardinality(before) /\ b = Cardinality(inLine)
        BY <2>10, FS_CardinalityType
      <3>2. a % 2 # 1 => ((a + b) % 2 = 1 <=> b % 2 = 1)
        OBVIOUS
      <3>. QED BY <2>8, <2>12, <3>1, <3>2
    <2>. QED BY <1>1, <1>2, <2>13 DEF R30a, all, inLine, g
  <1>. QED BY <1>5, <1>6

\* LB20a to LB30b: what LB20a takes for the start of the text, LB21 would have
\* joined, as it would have a HL, and LB28a an aksara, to the start of the line.
LEMMA Joined20aFrom ==
  ASSUME NEW q, IsPlain(q), NEW s, LineStart(q, s),
         NEW l \in DOMAIN q, s <= l, NEW r \in DOMAIN q, Adjacent(q, l, r)
  PROVE  Joined20a(From(q, s), l, r) <=> Joined20a(q, l, r)
  <1> DEFINE g == From(q, s)
  <1>1. /\ s \in Nat /\ l \in Nat /\ r \in Nat /\ l < r /\ s < r
        /\ s \in DOMAIN q
        /\ g[l] = q[l] /\ g[r] = q[r]
        /\ Following(g, r) = Following(q, r)
        /\ s < l => Prior(g, l) = Prior(q, l)
        /\ Prior(g, s) = {}
    BY FromBoundary
  <1>2. /\ DOMAIN g = {m \in DOMAIN q : s <= m}
        /\ \A j \in DOMAIN g : g[j] = q[j] /\ Following(g, j) = Following(q, j)
        /\ \A j, k \in DOMAIN g : Adjacent(g, j, k) <=> Adjacent(q, j, k)
    BY <1>1, FromPlaces
  <1> HIDE DEF g
  \* HY, HH or VI starts no line after a character of these classes.
  <1>3. ASSUME NEW A, Is(Prior(q, s), A), ~Is(Prior(q, s), Hard \cup {"SP", "ZW", "CB"}),
               Is(q[s], {"HY", "HH", "VI"})
        PROVE  \E p \in DOMAIN q : /\ Adjacent(q, p, s) /\ Prior(q, s) = q[p]
                                   /\ ~Joined20a(q, p, s)
    <2>1. Prior(q, s) # {} /\ ~Is(Prior(q, s), Hard \cup {"SP", "ZW"})
          /\ "CB" \notin Prior(q, s)
      BY <1>3 DEF Is
    <2>2. "CB" \notin q[s]
      <3>1. q[s] \in TableValue
        BY <1>1 DEF IsPlain
      <3>2. PICK c \in {"HY", "HH", "VI"} : c \in q[s]
        BY <1>3 DEF Is
      <3>3. c \notin annotationMask /\ "CB" \notin annotationMask /\ c # "CB"
        BY DEF annotationMask
      <3>. QED BY <3>1, <3>2, <3>3, OneClass
    <2>3. ~Is(Prior(q, s) \cup q[s], {"CB"})
      BY <2>1, <2>2 DEF Is
    <2>. QED BY <2>1, <2>3, BeforeLine
  <1>4. R20a(g, l, r) <=> R20a(q, l, r)
    <2>1. CASE s < l
      BY <1>1, <2>1 DEF R20a, Pair, StartOr
    <2>2. CASE l = s
      <3>1. StartOr(g, s, Hard \cup {"SP", "ZW", "CB", "GL"})
        BY <1>1 DEF StartOr
      <3>2. ASSUME Is(q[s], {"HY", "HH"})
            PROVE  StartOr(q, s, Hard \cup {"SP", "ZW", "CB", "GL"})
        <4> SUFFICES ASSUME ~StartOr(q, s, Hard \cup {"SP", "ZW", "CB", "GL"}) PROVE FALSE
          OBVIOUS
        <4>1. /\ Prior(q, s) # {}
              /\ ~Is(Prior(q, s), Hard \cup {"SP", "ZW", "CB"})
          BY DEF StartOr, Is
        <4>2. Is(Prior(q, s), Prior(q, s))
          BY <4>1 DEF Is
        <4>3. PICK p \in DOMAIN q : ~Joined20a(q, p, s)
          BY <1>3, <3>2, <4>1, <4>2 DEF Is
        <4>4. Is(q[s], {"BA", "HH", "HY", "NS"})
          BY <3>2 DEF Is
        <4>. QED BY <4>3, <4>4 DEF Joined20a
      <3>. QED BY <1>1, <2>2, <3>1, <3>2 DEF R20a, Pair
    <2>. QED BY <1>1, <2>1, <2>2
  <1>5. R21a(g, l, r) <=> R21a(q, l, r)
    <2>1. CASE s < l
      BY <1>1, <2>1 DEF R21a
    <2>2. CASE l = s
      <3>1. ~R21a(g, s, r)
        BY <1>1 DEF R21a, Is
      <3>2. ASSUME Is(Prior(q, s), {"HL"}), Is(q[s], {"HY", "HH"}) PROVE FALSE
        <4>1. Prior(q, s) \in TableValue
          BY <1>1, <3>2, PriorValue DEF Is
        <4>2. ~Is(Prior(q, s), Hard \cup {"SP", "ZW", "CB"})
          <5>1. "HL" \notin annotationMask /\ "CB" \notin annotationMask
            BY DEF annotationMask
          <5>2. "CB" \notin Prior(q, s)
            BY <3>2, <4>1, <5>1, OneClass DEF Is
          <5>3. ASSUME NEW h \in Hard \cup {"SP", "ZW"}, h \in Prior(q, s) PROVE FALSE
            <6>1. h \in {"HL"}
              BY <3>2, <4>1, <5>3, Sole
            <6>. QED BY <6>1 DEF Hard
          <5>. QED BY <5>2, <5>3 DEF Is
        <4>3. PICK p \in DOMAIN q : ~Joined20a(q, p, s)
          BY <1>3, <3>2, <4>2 DEF Is
        <4>4. Is(q[s], {"BA", "HH", "HY", "NS"})
          BY <3>2 DEF Is
        <4>. QED BY <4>3, <4>4 DEF Joined20a
      <3>. QED BY <2>2, <3>1, <3>2 DEF R21a
    <2>. QED BY <1>1, <2>1, <2>2
  <1>6. R25(g, l, r) <=> R25(q, l, r)
    <2>1. Number(g, r) <=> Number(q, r)
      BY <1>1, NumberFrom DEF g
    <2>2. NumberFollows(g, r) <=> NumberFollows(q, r)
      <3>1. \A j \in DOMAIN q : Adjacent(q, r, j) => j \in DOMAIN g
        BY <1>1, <1>2 DEF Adjacent, IsPlain
      <3>2. r \in DOMAIN g
        BY <1>1, <1>2
      <3>. QED BY <1>1, <1>2, <3>1, <3>2 DEF NumberFollows
    <2>3. CASE s < l
      <3>1. Number(g, l) <=> Number(q, l)
        BY <2>3, NumberFrom DEF g
      <3>. QED BY <1>1, <2>1, <2>2, <3>1 DEF R25, Pair
    <2>4. CASE l = s
      <3>1. ~Number(g, s)
        BY <1>1, <1>2 DEF Number, Sequel, IsPlain
      <3>2. ASSUME Number(q, s), Is(q[s], {"CL", "CP"}) PROVE FALSE
        <4>1. PICK j \in DOMAIN q : /\ j < s /\ Is(q[j], {"NU"})
                                    /\ Run(q, j, s, {"SY", "IS"})
          BY <3>2 DEF Number, Sequel
        <4>2. PICK p \in DOMAIN q : Adjacent(q, p, s) /\ MayEnd(q, p, s)
          <5>1. ~(s <= j)
            BY <1>1, <4>1 DEF IsPlain
          <5>. QED BY <5>1 DEF LineStart
        <4>3. p = j \/ Is(q[p], {"SY", "IS"})
          <5>1. p < s /\ ~(p < j) /\ p \in Nat /\ j \in Nat
            BY <1>1, <4>1, <4>2 DEF Adjacent, IsPlain
          <5>. QED BY <4>1, <5>1 DEF Run
        <4>4. Is(q[p], {"NU", "SY", "IS"})
          BY <4>1, <4>3 DEF Is
        <4>5. ~Is(q[p], Hard \cup {"SP", "ZW"})
          <5> SUFFICES ASSUME NEW h \in Hard \cup {"SP", "ZW"}, h \in q[p] PROVE FALSE
            BY DEF Is
          <5>1. h \in {"NU", "SY", "IS"}
            BY <4>4, Sole DEF IsPlain
          <5>. QED BY <5>1 DEF Hard
        <4>6. ~Joined11(q, p, s)
          BY <1>1, <4>2, <4>5, EndWithin
        <4>. QED BY <3>2, <4>6 DEF Joined11, Is
      <3>. QED BY <1>1, <2>1, <2>2, <2>4, <3>1, <3>2 DEF R25, Pair
    <2>. QED BY <1>1, <2>3, <2>4
  <1>7. R28a(g, l, r) <=> R28a(q, l, r)
    <2>1. CASE s < l
      BY <1>1, <2>1 DEF R28a, Pair
    <2>2. CASE l = s
      <3>1. ~Is(Prior(g, s), {"AK", "DC", "AS"})
        BY <1>1 DEF Is
      <3>2. ASSUME Is(Prior(q, s), {"AK", "DC", "AS"}), Is(q[s], {"VI"}) PROVE FALSE
        <4>1. Prior(q, s) \in TableValue
          BY <1>1, <3>2, PriorValue DEF Is
        <4>2. ~Is(Prior(q, s), Hard \cup {"SP", "ZW", "CB"})
          <5>1. Is(Prior(q, s), {"AK", "AL", "AS"})
            BY <3>2, <4>1, OneClass DEF Is
          <5>2. "CB" \notin Prior(q, s)
            <6>1. PICK c \in {"AK", "AL", "AS"} : c \in Prior(q, s)
              BY <5>1 DEF Is
            <6>2. c \notin annotationMask /\ "CB" \notin annotationMask /\ c # "CB"
              BY DEF annotationMask
            <6>. QED BY <4>1, <6>1, <6>2, OneClass
          <5>3. ASSUME NEW h \in Hard \cup {"SP", "ZW"}, h \in Prior(q, s) PROVE FALSE
            <6>1. h \in {"AK", "AL", "AS"}
              BY <4>1, <5>1, <5>3, Sole
            <6>. QED BY <6>1 DEF Hard
          <5>. QED BY <5>2, <5>3 DEF Is
        <4>3. PICK p \in DOMAIN q : Prior(q, s) = q[p] /\ ~Joined20a(q, p, s)
          BY <1>3, <3>2, <4>2 DEF Is
        <4>4. Pair(q, p, s, {"AK", "DC", "AS"}, {"VF", "VI"})
          BY <3>2, <4>3 DEF Pair, Is
        <4>. QED BY <4>3, <4>4 DEF Joined20a, R28a
      <3>. QED BY <1>1, <2>2, <3>1, <3>2 DEF R28a, Pair
    <2>. QED BY <1>1, <2>1, <2>2
  <1>8. R30a(g, r) <=> R30a(q, r)
    BY <1>1, FlagsFrom DEF R30a, g
  <1>9. /\ R26(g, l, r) <=> R26(q, l, r)
        /\ R30(g, l, r) <=> R30(q, l, r)
        /\ OtherPairs(g, l, r) <=> OtherPairs(q, l, r)
    BY <1>1 DEF R26, R30, OtherPairs, Pair
  <1>. QED BY <1>1, <1>4, <1>5, <1>6, <1>7, <1>8, <1>9 DEF Joined20a, g

\* The rules say of a boundary in a line what they would say if the text started
\* where the line does: no line depends on the ones before it.
THEOREM LinesAreIndependent ==
  ASSUME NEW q, IsPlain(q), NEW s, LineStart(q, s),
         NEW l \in DOMAIN q, s <= l, NEW r \in DOMAIN q, Adjacent(q, l, r)
  PROVE  MayEnd(From(q, s), l, r) <=> MayEnd(q, l, r)
  <1> DEFINE g == From(q, s)
  <1>1. /\ s < r
        /\ g[l] = q[l] /\ g[r] = q[r]
        /\ Following(g, r) = Following(q, r)
    BY FromBoundary
  <1>2. Spaced(g, r, {"ZW"}) <=> Spaced(q, r, {"ZW"})
    BY <1>1, SpacedFrom DEF Hard
  <1>3. /\ Joined11(q, l, r) => Joined11(g, l, r)
        /\ Joined11(g, l, r) /\ ~Joined11(q, l, r) => l = s /\ {"PI", "QU"} \subseteq q[s]
    BY Joined11From
  <1>4. Joined15d(g, r) <=> Joined15d(q, r)
    BY <1>1, Joined15dFrom
  <1>5. Joined19(g, l, r) <=> Joined19(q, l, r)
    BY Joined19From
  <1>6. Joined20a(g, l, r) <=> Joined20a(q, l, r)
    BY Joined20aFrom
  <1> HIDE DEF g
  \* An opening quotation mark at the start of the line, which LB15a takes for
  \* one at the start of the text: LB19 joins what follows it in any case.
  <1>7. ASSUME Joined11(g, l, r), ~Joined11(q, l, r),
               ~Is(q[l], Hard), ~Is(q[r], Hard \cup {"SP", "ZW"}), ~Spaced(q, r, {"ZW"})
        PROVE  ~MayEnd(g, l, r) /\ ~MayEnd(q, l, r)
    <2>1. "PI" \in q[l] /\ "QU" \in q[l] /\ q[l] \in TableValue
      BY <1>3, <1>7 DEF IsPlain
    <2>2. "PF" \notin q[l] /\ "SP" \notin q[l]
      BY <2>1, OneClass
    <2>3. Joined19(q, l, r)
      BY <2>1, <2>2 DEF Joined19, Is
    <2>4. ~Is(q[l], {"SP"}) /\ ~Pair(q, l, r, {"SP"}, {"IS"})
      BY <2>2 DEF Is, Pair
    <2>5. ~MayEnd(q, l, r)
      BY <1>7, <2>3, <2>4 DEF MayEnd
    <2>6. ~MayEnd(g, l, r)
      BY <1>1, <1>2, <1>7 DEF MayEnd
    <2>. QED BY <2>5, <2>6
  <1>8. ASSUME Joined11(g, l, r) <=> Joined11(q, l, r)
        PROVE  MayEnd(g, l, r) <=> MayEnd(q, l, r)
    BY <1>1, <1>2, <1>4, <1>5, <1>6, <1>8 DEF MayEnd, Mandatory, Pair
  <1>9. ASSUME Is(q[l], Hard) \/ Is(q[r], Hard \cup {"SP", "ZW"}) \/ Spaced(q, r, {"ZW"})
        PROVE  MayEnd(g, l, r) <=> MayEnd(q, l, r)
    BY <1>1, <1>2, <1>9 DEF MayEnd, Mandatory, Pair
  <1>. QED BY <1>3, <1>7, <1>8, <1>9 DEF g
=============================================================================
