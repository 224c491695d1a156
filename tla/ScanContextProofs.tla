------------------------- MODULE ScanContextProofs -------------------------
(***************************************************************************)
(* The variables of the loop are what they are named for, for every text   *)
(* that is valid UTF-8 and every call that breaks makes on it.             *)
(***************************************************************************)
EXTENDS BreaksProofs, ScanContext, FiniteSetTheorems

-----------------------------------------------------------------------------
(* One more character.                                                     *)

\* A character after all the others is the latest.
LEMMA LatestOne ==
  ASSUME NEW P \in SUBSET Nat, NEW l \in Nat, \A k \in P : k < l
  PROVE  Latest(P \cup {l}) = ValueAt(l)
  <1>1. /\ l \in P \cup {l}
        /\ \A y \in P \cup {l} : l >= y
        /\ \A x \in P \cup {l} : (\A y \in P \cup {l} : x >= y) => x = l
    OBVIOUS
  <1>2. Max(P \cup {l}) = l
    BY <1>1 DEF Max
  <1>. QED BY <1>2 DEF Latest

\* Those without some classes.
LEMMA WithoutOne ==
  ASSUME NEW P, NEW l, NEW classes
  PROVE  Without(P \cup {l}, classes)
           = IF Is(ValueAt(l), classes) THEN Without(P, classes)
                                        ELSE Without(P, classes) \cup {l}
  BY DEF Without

\* While the last base is no separator, it is also the last base that is none.
SameNumeric(s) ==
  ~Is(s.lastExCMZWJ, {"SY", "IS"}) => s.lastExSYIS = s.lastExCMZWJ

\* Remember adds one character to what is remembered.
LEMMA RememberOne ==
  ASSUME NEW P \in SUBSET Nat, IsFiniteSet(P), NEW l \in Nat, \A k \in P : k < l,
         NEW s, Remembers(s, P), SameNumeric(s),
         NEW v, v = ValueAt(l)
  PROVE  Remembers(Remember(s, v), P \cup {l}) /\ SameNumeric(Remember(s, v))
  <1> DEFINE Q == P \cup {l}
             r == Remember(s, v)
             bases == Without(P, Marks)
             solid == Without(P, {"SP"})
             noInfix == Without(P, {"SY", "IS"})
             noRI == Without(P, {"RI"})
             bases2 == Without(Q, Marks)
             solid2 == Without(Q, {"SP"})
             noInfix2 == Without(Q, {"SY", "IS"})
             noRI2 == Without(Q, {"RI"})
  <1>0. /\ l \notin P /\ ~(l < l)
        /\ \A k \in P : k < l /\ ~(l < k)
    OBVIOUS
  <1>1. /\ bases \subseteq P /\ solid \subseteq P
        /\ noInfix \subseteq P /\ noRI \subseteq P
    BY DEF Without
  <1>2. /\ bases2 = IF Is(v, Marks) THEN bases ELSE bases \cup {l}
        /\ solid2 = IF Is(v, {"SP"}) THEN solid ELSE solid \cup {l}
        /\ noInfix2 = IF Is(v, {"SY", "IS"}) THEN noInfix ELSE noInfix \cup {l}
        /\ noRI2 = IF Is(v, {"RI"}) THEN noRI ELSE noRI \cup {l}
    BY WithoutOne
  <1>3. \A A \in SUBSET P : Latest(A \cup {l}) = v
    BY LatestOne
  <1>4. /\ s.lastExSP = Latest(solid)
        /\ s.beforeLastExSP = Latest({j \in bases : \E k \in solid : j < k})
        /\ s.lastExCMZWJ = Latest(bases)
        /\ s.lastExCMZWJSP = Latest(bases \cap solid)
        /\ s.lastExSYIS = Latest(bases \cap noInfix)
        /\ bases = P =>
             s.beforeLastExSYIS = Latest(AllButLatest(bases \cap noInfix))
        /\ s.regionalIndicatorCount =
             Cardinality({j \in bases : \A k \in bases \cap noRI : k < j})
    BY DEF Remembers
  <1>5. \A A \in SUBSET P : AllButLatest(A \cup {l}) = A
    <2> SUFFICES ASSUME NEW A \in SUBSET P
                 PROVE  {j \in A \cup {l} : \E k \in A \cup {l} : j < k} = A
      BY DEF AllButLatest
    <2>. QED BY <1>0
  <1>6. /\ r.last = v
        /\ r.prevExCMZWJ = s.lastExCMZWJ
        /\ r.lastExSP = IF Is(v, {"SP"}) THEN s.lastExSP ELSE v
        /\ r.beforeLastExSP = IF Is(v, {"SP"}) THEN s.beforeLastExSP ELSE s.lastExCMZWJ
        /\ r.lastExCMZWJ = IF Is(v, Marks) THEN s.lastExCMZWJ ELSE v
        /\ r.lastExCMZWJSP = IF Is(v, Marks) \/ Is(v, {"SP"}) THEN s.lastExCMZWJSP ELSE v
        /\ r.lastExSYIS = IF Is(r.lastExCMZWJ, {"SY", "IS"})
                          THEN s.lastExSYIS ELSE r.lastExCMZWJ
        /\ r.beforeLastExSYIS = IF Is(r.lastExCMZWJ, {"SY", "IS"})
                                THEN s.beforeLastExSYIS ELSE s.lastExSYIS
        /\ r.regionalIndicatorCount = IF Is(v, Marks) THEN s.regionalIndicatorCount
                                      ELSE IF Is(v, {"RI"})
                                      THEN s.regionalIndicatorCount + 1 ELSE 0
    BY DEF Remember
  <1> HIDE DEF r, bases, solid, noInfix, noRI, bases2, solid2, noInfix2, noRI2
  <1>7. SameNumeric(r)
    BY <1>6 DEF SameNumeric
  <1>8. r.last = Latest(Q) /\ r.lastExSP = Latest(solid2) /\ r.lastExCMZWJ = Latest(bases2)
    BY <1>1, <1>2, <1>3, <1>4, <1>6
  <1>9. r.prevExCMZWJ = Latest(bases2 \cap AllButLatest(Q))
    <2>1. AllButLatest(Q) = P
      BY <1>5
    <2>2. bases2 \cap P = bases
      BY <1>0, <1>1, <1>2
    <2>. QED BY <1>4, <1>6, <2>1, <2>2
  <1>10. r.beforeLastExSP = Latest({j \in bases2 : \E k \in solid2 : j < k})
    <2>1. CASE Is(v, {"SP"})
      <3>1. {j \in bases2 : \E k \in solid2 : j < k} = {j \in bases : \E k \in solid : j < k}
        BY <1>1, <1>2, <2>1
      <3>. QED BY <1>4, <1>6, <2>1, <3>1
    <2>2. CASE ~Is(v, {"SP"})
      <3>1. {j \in bases2 : \E k \in solid2 : j < k} = bases
        <4>1. \A j \in bases : j \in bases2 /\ j < l /\ l \in solid2
          BY <1>0, <1>1, <1>2, <2>2
        <4>2. \A j \in bases2 : j \in bases \/ j = l
          BY <1>2
        <4>3. \A k \in solid2 : ~(l < k)
          BY <1>0, <1>1, <1>2
        <4>. QED BY <4>1, <4>2, <4>3
      <3>. QED BY <1>4, <1>6, <2>2, <3>1
    <2>. QED BY <2>1, <2>2
  <1>11. r.lastExCMZWJSP = Latest(bases2 \cap solid2)
    <2>1. CASE Is(v, Marks) \/ Is(v, {"SP"})
      <3>1. bases2 \cap solid2 = bases \cap solid
        BY <1>1, <1>2, <2>1
      <3>. QED BY <1>4, <1>6, <2>1, <3>1
    <2>2. CASE ~(Is(v, Marks) \/ Is(v, {"SP"}))
      <3>1. bases2 \cap solid2 = (bases \cap solid) \cup {l}
        BY <1>1, <1>2, <2>2
      <3>. QED BY <1>1, <1>3, <1>6, <2>2, <3>1
    <2>. QED BY <2>1, <2>2
  <1>12. /\ r.lastExSYIS = Latest(bases2 \cap noInfix2)
         /\ bases2 = Q =>
              r.beforeLastExSYIS = Latest(AllButLatest(bases2 \cap noInfix2))
    <2>1. CASE Is(v, Marks)
      <3>1. bases2 \cap noInfix2 = bases \cap noInfix
        BY <1>1, <1>2, <2>1
      <3>2. l \notin bases2
        BY <1>1, <1>2, <2>1
      <3>3. r.lastExCMZWJ = s.lastExCMZWJ
        BY <1>6, <2>1
      <3>4. r.lastExSYIS = s.lastExSYIS
        BY <1>6, <3>3 DEF SameNumeric
      <3>. QED BY <1>4, <3>1, <3>2, <3>4
    <2>2. CASE ~Is(v, Marks) /\ Is(v, {"SY", "IS"})
      <3>1. bases2 \cap noInfix2 = bases \cap noInfix
        BY <1>1, <1>2, <2>2
      <3>2. bases2 = Q => bases = P
        BY <1>1, <1>2
      <3>. QED BY <1>4, <1>6, <2>2, <3>1, <3>2
    <2>3. CASE ~Is(v, Marks) /\ ~Is(v, {"SY", "IS"})
      <3>1. bases2 \cap noInfix2 = (bases \cap noInfix) \cup {l}
        BY <1>1, <1>2, <2>3
      <3>2. r.lastExSYIS = v /\ r.beforeLastExSYIS = s.lastExSYIS
        BY <1>6, <2>3
      <3>3. AllButLatest((bases \cap noInfix) \cup {l}) = bases \cap noInfix
        <4>1. bases \cap noInfix \in SUBSET P
          BY <1>1
        <4>. QED BY <1>5, <4>1
      <3>4. Latest((bases \cap noInfix) \cup {l}) = v
        BY <1>1, <1>3
      <3>. QED BY <1>4, <3>1, <3>2, <3>3, <3>4
    <2>. QED BY <2>1, <2>2, <2>3
  <1>13. r.regionalIndicatorCount =
           Cardinality({j \in bases2 : \A k \in bases2 \cap noRI2 : k < j})
    <2> DEFINE run == {j \in bases : \A k \in bases \cap noRI : k < j}
               run2 == {j \in bases2 : \A k \in bases2 \cap noRI2 : k < j}
    <2>1. CASE Is(v, Marks)
      <3>1. run2 = run
        BY <1>1, <1>2, <2>1
      <3>. QED BY <1>4, <1>6, <2>1, <3>1
    <2>2. CASE ~Is(v, Marks) /\ Is(v, {"RI"})
      <3>1. run2 = run \cup {l}
        BY <1>1, <1>2, <2>2
      <3>2. IsFiniteSet(run) /\ l \notin run
        <4>1. run \subseteq P
          BY <1>1
        <4>2. IsFiniteSet(run)
          BY <4>1, FS_Subset
        <4>. QED BY <4>1, <4>2
      <3> HIDE DEF run, run2
      <3>3. Cardinality(run \cup {l}) = Cardinality(run) + 1
        BY <3>2, FS_AddElement
      <3>. QED BY <1>4, <1>6, <2>2, <3>1, <3>3 DEF run, run2
    <2>3. CASE ~Is(v, Marks) /\ ~Is(v, {"RI"})
      <3>1. run2 = {}
        <4>1. l \in bases2 \cap noRI2
          BY <1>2, <2>3
        <4>2. \A j \in bases2 : ~(l < j)
          BY <1>0, <1>1, <1>2
        <4>. QED BY <4>1, <4>2
      <3>. QED BY <1>6, <2>3, <3>1, FS_EmptySet
    <2>. QED BY <2>1, <2>2, <2>3
  <1>14. Remembers(r, Q)
    BY <1>8, <1>9, <1>10, <1>11, <1>12, <1>13
       DEF Remembers, bases2, solid2, noInfix2, noRI2
  <1>. QED BY <1>7, <1>14 DEF r

-----------------------------------------------------------------------------
(* The characters of a slice.                                              *)

\* No encoding starts within another one.
LEMMA NoneWithin ==
  ASSUME NEW t \in Seq(Byte), NEW l \in Nat, Complete(t, l),
         NEW q \in Nat, Complete(t, q), l < q
  PROVE  l + t[l + 1].len <= q
  <1>1. l \in 0 .. Len(t) - 1 /\ t[l + 1].len \in 0 .. 4
    BY ByteFields DEF Complete
  <1>2. SUFFICES ASSUME q \in l + 1 .. l + t[l + 1].len - 1 PROVE FALSE
    BY <1>1
  <1>3. t[q + 1].len = 0
    BY <1>2, WithinEncoding
  <1>. QED BY <1>3 DEF Complete

\* The characters that end before e, and those that start before l.
Ended(t, s, e) == {q \in s .. e - 1 : Complete(t, q) /\ q + t[q + 1].len < e}
Started(t, s, l) == {q \in s .. l - 1 : Complete(t, q)}

\* Those that end before the end of l are those that start before l.
LEMMA PassedBefore ==
  ASSUME NEW t \in Seq(Byte), NEW s \in Nat, NEW l \in Nat, s <= l, Complete(t, l),
         NEW e, e = l + t[l + 1].len
  PROVE  /\ Ended(t, s, e) = Started(t, s, l)
         /\ Started(t, s, e) = Started(t, s, l) \cup {l}
         /\ \A q \in s .. l - 1 : Complete(t, q) => q + t[q + 1].len # e
  <1>1. l \in 0 .. Len(t) - 1 /\ t[l + 1].len \in 1 .. 4 /\ e \in Nat /\ l < e
    <2>1. l \in 0 .. Len(t) - 1 /\ t[l + 1].len > 0
      BY DEF Complete
    <2>2. t[l + 1].len \in 0 .. 4
      BY <2>1, ByteFields
    <2>. QED BY <2>1, <2>2
  <1>2. ASSUME NEW q \in s .. e - 1, Complete(t, q)
        PROVE  /\ q < l => q + t[q + 1].len < e
               /\ q <= l
    <2>1. q \in 0 .. Len(t) - 1 /\ t[q + 1].len \in 1 .. 4
      BY <1>2, ByteFields DEF Complete
    <2>2. q < l => q + t[q + 1].len <= l
      BY <1>2, <2>1, NoneWithin
    <2>3. l < q => l + t[l + 1].len <= q
      BY <1>2, <2>1, NoneWithin
    <2>4. e <= q => ~(q \in s .. e - 1)
      BY <1>1, <2>1
    <2>5. q <= l
      BY <1>1, <1>2, <2>1, <2>3, <2>4
    <2>6. q < l => q + t[q + 1].len < e
      <3>1. PICK w : w = t[q + 1].len
        OBVIOUS
      <3>2. q < l => q + w <= l
        BY <2>2, <3>1
      <3>3. q \in Nat /\ w \in Nat
        BY <2>1, <3>1
      <3>4. q < l => q + w < e
        BY <1>1, <3>2, <3>3
      <3>. QED BY <3>1, <3>4
    <2>. QED BY <2>5, <2>6
  <1>3. ~(l + t[l + 1].len < e)
    BY <1>1
  <1>4. \A q \in s .. l - 1 : q \in s .. e - 1 /\ q < l
    BY <1>1
  <1>5. \A q \in s .. e - 1 : q <= l => q \in s .. l - 1 \/ q = l
    BY <1>1
  <1>6. l \in s .. e - 1
    BY <1>1
  <1>7. ASSUME NEW q \in s .. l - 1, Complete(t, q), q + t[q + 1].len = e
        PROVE  FALSE
    <2>1. q + t[q + 1].len < e
      BY <1>2, <1>4, <1>7
    <2>. QED BY <1>1, <1>7, <2>1
  <1>. QED BY <1>2, <1>3, <1>4, <1>5, <1>6, <1>7 DEF Ended, Started

\* l is the character that ends where the scan stands.
Scanned(l) ==
  /\ l \in Nat /\ start <= l
  /\ Complete(text, l)
  /\ l + text[l + 1].len = start + pos

\* The characters that have been passed are those before it.
LEMMA PassedIsBefore ==
  ASSUME TypeOK, NEW l, Scanned(l)
  PROVE  /\ Passed = Started(text, start, l)
         /\ Passed \in SUBSET Nat /\ IsFiniteSet(Passed)
         /\ \A q \in Passed : q < l
  <1>1. /\ text \in Seq(Byte) /\ start \in Nat /\ pos \in Nat
        /\ l \in Nat /\ start <= l /\ Complete(text, l)
        /\ l + text[l + 1].len = start + pos
    BY DEF TypeOK, Scanned
  <1>2. Passed = Started(text, start, l)
    <2>1. PICK e : e = start + pos
      OBVIOUS
    <2>2. Passed = Ended(text, start, e)
      BY <1>1, <2>1 DEF Passed, Ended
    <2>3. Ended(text, start, e) = Started(text, start, l)
      BY <1>1, <2>1, PassedBefore
    <2>. QED BY <2>2, <2>3
  <1>3. IsFiniteSet(Passed)
    <2>1. IsFiniteSet(start .. l - 1)
      BY <1>1, FS_Interval
    <2>2. Passed \subseteq start .. l - 1
      BY <1>2 DEF Started
    <2>. QED BY <2>1, <2>2, FS_Subset
  <1>. QED BY <1>1, <1>2, <1>3 DEF Started

\* One character further on there is one more.
LEMMA EndedGrows ==
  ASSUME NEW t \in Seq(Byte), NEW s \in Nat, NEW l \in Nat, s <= l, Complete(t, l),
         NEW o \in Nat, o = l + t[l + 1].len, Complete(t, o),
         NEW e, e = o + t[o + 1].len
  PROVE  \A q : q \in Ended(t, s, e) <=> (q \in Ended(t, s, o) \/ q = l)
  <1>1. t[l + 1].len \in 0 .. 4
    BY ByteFields DEF Complete
  <1>2. s <= o
    BY <1>1
  <1>3. Ended(t, s, e) = Started(t, s, o)
    BY <1>2, PassedBefore
  <1>4. /\ Ended(t, s, o) = Started(t, s, l)
        /\ Started(t, s, o) = Started(t, s, l) \cup {l}
    BY PassedBefore
  <1>. QED BY <1>3, <1>4

\* The same of the characters that have been passed.
LEMMA PassedGrows ==
  ASSUME TypeOK, NEW l, Scanned(l), NEW o, o = start + pos, Complete(text, o),
         NEW e, e = o + text[o + 1].len
  PROVE  Ended(text, start, e) = Passed \cup {l}
  <1>1. /\ text \in Seq(Byte) /\ start \in Nat /\ pos \in Nat
        /\ l \in Nat /\ start <= l /\ Complete(text, l)
        /\ o = l + text[l + 1].len /\ o \in Nat
    BY DEF TypeOK, Scanned
  <1>2. \A q : q \in Ended(text, start, e) <=> (q \in Ended(text, start, o) \/ q = l)
    BY <1>1, EndedGrows
  <1>3. Passed = Ended(text, start, o)
    BY <1>1 DEF Passed, Ended
  <1>. QED BY <1>2, <1>3

-----------------------------------------------------------------------------
(* The value that the loop takes the next character for.                   *)

\* What the value of a whole encoding may be.
LEMMA RawFields ==
  ASSUME TypeOK, NEW o, Complete(text, o)
  PROVE  /\ Raw(o) \in Property /\ Raw(o) # {}
         /\ Is(Raw(o), Marks) => ~Is(Raw(o), Hard \cup {"SP", "ZW"})
  <1>1. text[o + 1] \in Byte
    BY DEF TypeOK, Complete
  <1>2. /\ text[o + 1].prop \in Property
        /\ \A h \in Hard \cup {"SP", "ZW"} : h \in text[o + 1].prop => text[o + 1].prop = {h}
    BY <1>1 DEF Byte, TableValue
  <1>3. {"AL"} \in Property /\ ~Is({"AL"}, Marks)
    BY DEF Property, Class, Is, Marks
  <1>4. CASE text[o + 1].prop = {}
    BY <1>3, <1>4 DEF Raw
  <1>5. CASE text[o + 1].prop # {}
    <2>1. Raw(o) = text[o + 1].prop
      BY <1>5 DEF Raw
    <2>2. ASSUME Is(Raw(o), Marks), NEW h \in Hard \cup {"SP", "ZW"}, h \in Raw(o)
          PROVE  FALSE
      <3>1. Raw(o) = {h}
        BY <1>2, <2>1, <2>2
      <3>. QED BY <2>2, <3>1 DEF Is, Marks, Hard
    <2>. QED BY <1>2, <1>5, <2>1, <2>2 DEF Is
  <1>. QED BY <1>4, <1>5

\* The character scanned last, and what it was taken for.  A mark is one that
\* joined its base, or is in a run of marks at the start of the slice.
CurrentInv(l) ==
  /\ Scanned(l)
  /\ current = ValueAt(l)
  /\ Is(current, Marks) =>
       \/ /\ seen.lastExCMZWJ # {}
          /\ ~Is(seen.lastExCMZWJ, Hard \cup {"SP", "ZW"})
       \/ /\ seen.lastExCMZWJ = {}
          /\ \A q \in Passed : Is(Raw(q), {"ZWJ"})

\* With TypeOK and LinesInv, the inductive invariant.
ContextInv ==
  (pc = "scan" /\ WellFormed(text)) =>
    /\ Remembers(seen, Passed)
    /\ SameNumeric(seen)
    /\ \E l : CurrentInv(l)

\* A character alone follows one that is no ZWJ.
LEMMA AloneFollows ==
  ASSUME NEW o, Alone(o)
  PROVE  \E p \in start .. o - 1 : Complete(text, p) /\ ~Is(Raw(p), {"ZWJ"})
  <1>1. PICK p \in start .. o - 1 :
          /\ Complete(text, p)
          /\ IF Is(Raw(p), Marks) THEN ~Is(Raw(p), {"ZWJ"}) ELSE TRUE
    BY DEF Alone
  <1>2. Is(Raw(p), {"ZWJ"}) => Is(Raw(p), Marks)
    BY DEF Is, Marks
  <1>. QED BY <1>1, <1>2

\* Whether a mark is alone after the character that has just been scanned.
LEMMA AloneAfter ==
  ASSUME TypeOK, NEW l, Scanned(l), NEW o, o = start + pos
  PROVE  Alone(o)
           <=> /\ Is(Raw(o), Marks)
               /\ IF Is(Raw(l), Marks)
                  THEN /\ ~Is(Raw(l), {"ZWJ"})
                       /\ \A q \in Passed : Is(Raw(q), {"ZWJ"})
                  ELSE Is(Raw(l), Hard \cup {"SP", "ZW"})
  <1> DEFINE after(p) == IF Is(Raw(p), Marks)
                         THEN /\ ~Is(Raw(p), {"ZWJ"})
                              /\ \A q \in start .. p - 1 :
                                   Complete(text, q) => Is(Raw(q), {"ZWJ"})
                         ELSE Is(Raw(p), Hard \cup {"SP", "ZW"})
  <1>1. /\ text \in Seq(Byte) /\ start \in Nat
        /\ l \in Nat /\ start <= l /\ Complete(text, l)
        /\ o = l + text[l + 1].len /\ o \in Nat
    BY DEF TypeOK, Scanned
  <1>2. l \in start .. o - 1
    <2>1. text[l + 1].len \in 1 .. 4
      BY <1>1, ByteFields DEF Complete
    <2>. QED BY <1>1, <2>1
  <1>3. ASSUME NEW p \in start .. o - 1, Complete(text, p), p + text[p + 1].len = o
        PROVE  p = l
    <2>1. p \in 0 .. Len(text) - 1 /\ text[p + 1].len \in 1 .. 4
      <3>1. p \in 0 .. Len(text) - 1 /\ text[p + 1].len > 0
        BY <1>3 DEF Complete
      <3>. QED BY <1>1, <3>1, ByteFields
    <2>2. l \in 0 .. Len(text) - 1 /\ text[l + 1].len \in 1 .. 4
      BY <1>1, ByteFields DEF Complete
    <2>3. p < l => p + text[p + 1].len <= l
      BY <1>1, <1>3, <2>1, NoneWithin
    <2>4. l < p => l + text[l + 1].len <= p
      BY <1>1, <1>3, <2>1, NoneWithin
    <2>5. ~(p < l)
      BY <1>1, <1>3, <2>2, <2>3
    <2>6. ~(l < p)
      BY <1>1, <1>3, <2>1, <2>4
    <2>. QED BY <1>1, <2>1, <2>5, <2>6
  <1>4. after(l) <=> IF Is(Raw(l), Marks)
                     THEN /\ ~Is(Raw(l), {"ZWJ"})
                          /\ \A q \in Passed : Is(Raw(q), {"ZWJ"})
                     ELSE Is(Raw(l), Hard \cup {"SP", "ZW"})
    BY PassedIsBefore DEF Started
  <1>5. Alone(o) <=> /\ Is(Raw(o), Marks)
                     /\ \E p \in start .. o - 1 :
                          Complete(text, p) /\ p + text[p + 1].len = o /\ after(p)
    BY DEF Alone
  <1> HIDE DEF after
  <1>6. (\E p \in start .. o - 1 :
           Complete(text, p) /\ p + text[p + 1].len = o /\ after(p)) <=> after(l)
    BY <1>1, <1>2, <1>3
  <1>. QED BY <1>4, <1>5, <1>6

\* Where no break is reported before a mark, it is taken for what it is just if
\* LB8a or LB9 joins it.
LEMMA MarkSettled ==
  ASSUME NEW s, NEW c, NEW next, NEW next2,
         Verdict(s, c, next, next2) = join,
         Is(c, Marks), ~Is(c, Hard \cup {"SP", "ZW"})
  PROVE  /\ Settled(s, c) = IF LB8a(s) \/ LB9(s, c) THEN c ELSE {"AL"}
         /\ ~Is(s.last, Hard)
  <1>1. ~LB5Joins(s, c) /\ ~LB6(c) /\ ~LB7(c)
    BY DEF LB5Joins, LB6, LB7, Is, Hard
  <1>2. RawVerdict(s, c) \in {join, undecided}
    BY DEF Verdict, join, undecided, breakMandatory, breakOpportunity
  <1>3. ~LB4(s) /\ ~LB5(s) /\ ~LB8(s)
    BY <1>1, <1>2 DEF RawVerdict, join, undecided, breakMandatory, breakOpportunity
  <1>4. ~Is(s.last, Hard)
    BY <1>3 DEF LB4, LB5, Is, Hard
  <1>5. RawVerdict(s, c) = IF LB8a(s) \/ LB9(s, c) THEN join ELSE undecided
    BY <1>1, <1>3 DEF RawVerdict
  <1>. QED BY <1>4, <1>5 DEF Settled, LB10, join, undecided

\* The loop takes the next character for what looking back says of it.
LEMMA SettledIsValue ==
  ASSUME TypeOK, NEW l, CurrentInv(l), Remembers(seen, Passed),
         NEW o, o = start + pos, Complete(text, o), following = Raw(o),
         verdict = join
  PROVE  Settled(remembered, following) = ValueAt(o)
  <1> DEFINE c == Raw(o)
             r == remembered
  <1>1. /\ Scanned(l) /\ current = ValueAt(l)
        /\ Complete(text, l)
    BY DEF CurrentInv, Scanned
  <1>2. /\ Raw(o) # {} /\ Raw(l) # {}
        /\ Is(Raw(o), Marks) => ~Is(Raw(o), Hard \cup {"SP", "ZW"})
    BY <1>1, RawFields
  <1>3. /\ r.last = current
        /\ r.lastExCMZWJ = IF Is(current, Marks) THEN seen.lastExCMZWJ ELSE current
    BY DEF remembered, Remember
  <1>4. Alone(o)
          <=> /\ Is(Raw(o), Marks)
              /\ IF Is(Raw(l), Marks)
                 THEN /\ ~Is(Raw(l), {"ZWJ"})
                      /\ \A q \in Passed : Is(Raw(q), {"ZWJ"})
                 ELSE Is(Raw(l), Hard \cup {"SP", "ZW"})
    BY <1>1, AloneAfter
  <1>5. Passed = Started(text, start, l)
    BY <1>1, PassedIsBefore
  \* One that is alone, or follows one that is, has a character that is no ZWJ
  \* before it.
  <1>6. ASSUME NEW q, q = l \/ q \in Passed, Alone(q)
        PROVE  \E p \in Passed : ~Is(Raw(p), {"ZWJ"})
    <2>1. PICK p \in start .. q - 1 : Complete(text, p) /\ ~Is(Raw(p), {"ZWJ"})
      BY <1>6, AloneFollows
    <2>2. q \in Int /\ q <= l /\ l \in Int /\ start \in Int
      BY <1>1, <1>5, <1>6 DEF Started, Scanned, TypeOK
    <2>3. p \in start .. l - 1
      BY <2>2
    <2>. QED BY <1>5, <2>1, <2>3 DEF Started
  <1>7. ASSUME ~Is(c, Marks) PROVE Settled(r, following) = ValueAt(o)
    BY <1>4, <1>7 DEF Settled, LB10, ValueAt
  <1>8. ASSUME Is(c, Marks) PROVE Settled(r, following) = ValueAt(o)
    <2>1. /\ Settled(r, c) = IF LB8a(r) \/ LB9(r, c) THEN c ELSE {"AL"}
          /\ ~Is(current, Hard)
      BY <1>2, <1>3, <1>8, MarkSettled DEF verdict
    <2>2. Alone(o) <=> ~(LB8a(r) \/ LB9(r, c))
      <3>1. LB9(r, c) <=> /\ r.lastExCMZWJ # {}
                          /\ ~Is(r.lastExCMZWJ, Hard \cup {"SP", "ZW"})
        BY <1>8 DEF LB9
      <3>2. LB8a(r) <=> Is(current, {"ZWJ"})
        BY <1>3 DEF LB8a
      <3>3. CASE ~Is(Raw(l), Marks)
        <4>1. current = Raw(l)
          BY <1>1, <3>3 DEF ValueAt, Alone
        <4>2. ~Is(current, {"ZWJ"})
          BY <3>3, <4>1 DEF Is, Marks
        <4>. QED BY <1>2, <1>3, <1>4, <1>8, <3>1, <3>2, <3>3, <4>1, <4>2
      <3>4. CASE Is(Raw(l), Marks) /\ Alone(l)
        <4>1. current = {"AL"} /\ ~Is({"AL"}, Marks)
              /\ ~Is({"AL"}, Hard \cup {"SP", "ZW"})
          BY <1>1, <3>4 DEF ValueAt, Is, Marks, Hard
        <4>2. \E p \in Passed : ~Is(Raw(p), {"ZWJ"})
          BY <1>6, <3>4
        <4>3. LB9(r, c)
          BY <1>3, <3>1, <4>1
        <4>. QED BY <1>4, <3>4, <4>2, <4>3
      <3>5. CASE Is(Raw(l), Marks) /\ ~Alone(l)
        <4>1. current = Raw(l) /\ r.lastExCMZWJ = seen.lastExCMZWJ
          BY <1>1, <1>3, <3>5 DEF ValueAt
        <4>2. CASE /\ seen.lastExCMZWJ # {}
                   /\ ~Is(seen.lastExCMZWJ, Hard \cup {"SP", "ZW"})
          <5>1. Latest(Without(Passed, Marks)) # {}
            BY <4>2 DEF Remembers
          <5>2. PICK q \in Passed : ~Is(ValueAt(q), Marks)
            BY <5>1 DEF Latest, Without
          <5>3. \E p \in Passed : ~Is(Raw(p), {"ZWJ"})
            <6>1. CASE Alone(q)
              BY <1>6, <6>1
            <6>2. CASE ~Alone(q)
              <7>1. ~Is(Raw(q), Marks)
                BY <5>2, <6>2 DEF ValueAt
              <7>2. ~Is(Raw(q), {"ZWJ"})
                BY <7>1 DEF Is, Marks
              <7>. QED BY <7>2
            <6>. QED BY <6>1, <6>2
          <5>. QED BY <1>4, <3>1, <3>5, <4>1, <4>2, <5>3
        <4>3. CASE /\ seen.lastExCMZWJ = {}
                   /\ \A q \in Passed : Is(Raw(q), {"ZWJ"})
          BY <1>4, <1>8, <3>1, <3>2, <3>5, <4>1, <4>3
        <4>. QED BY <3>5, <4>1, <4>2, <4>3 DEF CurrentInv
      <3>. QED BY <3>3, <3>4, <3>5
    <2>. QED BY <2>1, <2>2 DEF ValueAt
  <1>. QED BY <1>7, <1>8

-----------------------------------------------------------------------------
(* The steps.                                                              *)

\* What is remembered does not depend on the call's other variables.
LEMMA SameSlice ==
  ASSUME text' = text, start' = start
  PROVE  /\ \A o : ValueAt(o)' = ValueAt(o) /\ Raw(o)' = Raw(o)
         /\ \A s, P : Remembers(s, P)' <=> Remembers(s, P)
         /\ \A s : SameNumeric(s)' <=> SameNumeric(s)
  <1>1. \A o : Raw(o)' = Raw(o)
    BY DEF Raw
  <1>2. \A o : Complete(text, o)' <=> Complete(text, o)
    OBVIOUS
  <1>3. \A o : Alone(o)' <=> Alone(o)
    BY <1>1, <1>2 DEF Alone
  <1>4. \A o : ValueAt(o)' = ValueAt(o)
    BY <1>1, <1>3 DEF ValueAt
  <1>5. \A P : Latest(P)' = Latest(P)
    BY <1>4 DEF Latest
  <1>6. \A P, classes : Without(P, classes)' = Without(P, classes)
    BY <1>4 DEF Without
  <1>7. \A P : AllButLatest(P)' = AllButLatest(P)
    BY DEF AllButLatest
  <1>8. ASSUME NEW s, NEW P PROVE Remembers(s, P)' <=> Remembers(s, P)
    <2>1. /\ Without(P, Marks)' = Without(P, Marks)
          /\ Without(P, {"SP"})' = Without(P, {"SP"})
          /\ Without(P, {"SY", "IS"})' = Without(P, {"SY", "IS"})
          /\ Without(P, {"RI"})' = Without(P, {"RI"})
      BY <1>6
    <2>. QED BY <1>5, <1>7, <2>1 DEF Remembers
  <1>. QED BY <1>1, <1>4, <1>8 DEF SameNumeric

\* The slice starts with a character: nothing is remembered, nothing has passed.
LEMMA FirstKeepsContext ==
  ASSUME TypeOK, LinesInv, CallFirst, WellFormed(text)
  PROVE  ContextInv'
  <1>1. /\ text \in Seq(Byte) /\ start \in 0 .. Len(text) - 1 /\ start \in Nat
        /\ ~Inside(text, start)
        /\ text' = text /\ start' = start
        /\ pos' = lookupProperty(text, start).sz /\ pos' > 0
        /\ current' = lookupProperty(text, start).v
        /\ seen' = Nothing
    BY LookedFirst DEF CallFirst, LinesInv, SliceInv, TypeOK
  <1>2. Complete(text, start)
    BY <1>1, WellFormedDecodes DEF Decodable
  <1>3. /\ lookup(text, start).sz = text[start + 1].len
        /\ lookup(text, start).v = text[start + 1].prop
        /\ text[start + 1].len \in 0 .. 4
    BY <1>1, <1>2, LookupStep
  <1>4. pos' = text[start + 1].len
    BY <1>1, <1>3, LookedFirst DEF CallFirst
  <1>5. current' = Raw(start)
    <2>1. CASE text[start + 1].prop # {}
      BY <1>1, <1>3, <2>1 DEF lookupProperty, Raw
    <2>2. CASE text[start + 1].prop = {}
      BY <1>1, <1>3, <2>2 DEF lookupProperty, Raw
    <2>. QED BY <2>1, <2>2
  <1>6. current' = ValueAt(start)'
    <2>1. ~Alone(start)
      BY <1>1 DEF Alone
    <2>. QED BY <1>1, <1>5, <2>1, SameSlice DEF ValueAt
  <1>7. Passed' = {}
    <2>1. PICK l, e : l = start /\ e = l + text[l + 1].len
      OBVIOUS
    <2>2. Ended(text, start, e) = Started(text, start, l)
      <3>1. start <= l /\ l \in Nat /\ Complete(text, l)
        BY <1>1, <1>2, <2>1
      <3>. QED BY <1>1, <2>1, <3>1, PassedBefore
    <2>3. Started(text, start, start) = {}
      BY <1>1 DEF Started
    <2>4. e = start' + pos' /\ e \in Nat /\ pos' \in Nat
      BY <1>1, <1>3, <1>4, <2>1
    <2>5. Passed' = Ended(text, start, e)
      BY <1>1, <2>4 DEF Passed, Ended
    <2>. QED BY <2>1, <2>2, <2>3, <2>5
  <1>8. Remembers(Nothing, {})
    <2>1. /\ Latest({}) = {}
          /\ \A classes : Without({}, classes) = {}
          /\ AllButLatest({}) = {}
      BY DEF Latest, Without, AllButLatest
    <2>2. Cardinality({}) = 0
      BY FS_EmptySet
    <2>. QED BY <2>1, <2>2 DEF Remembers, Nothing
  <1>9. Remembers(seen, Passed)' /\ SameNumeric(seen)'
    BY <1>1, <1>7, <1>8, SameSlice DEF Nothing, SameNumeric
  <1>10. Scanned(start)'
    BY <1>1, <1>2, <1>4 DEF Scanned
  <1>11. CurrentInv(start)'
    BY <1>1, <1>6, <1>7, <1>10 DEF CurrentInv, Nothing
  <1>. QED BY <1>1, <1>9, <1>11 DEF ContextInv

\* A character is taken into the segment.
LEMMA ContinueKeepsContext ==
  ASSUME TypeOK, LinesInv, ContextInv, Continue, WellFormed(text)
  PROVE  ContextInv'
  <1> DEFINE r == remembered
  <1>0. PICK o : o = start + pos
    OBVIOUS
  <1>1. /\ o \in 0 .. Len(text) - 1 /\ text \in Seq(Byte)
        /\ start \in Nat /\ pos \in Nat
        /\ text' = text /\ start' = start /\ pos' = pos + width
        /\ current' = Settled(r, following) /\ seen' = r
        /\ verdict = join
    BY <1>0, Looked DEF Continue, TypeOK
  <1>2. Complete(text, o)
    <2>1. ~Inside(text, o)
      BY <1>0 DEF LinesInv, ScanInv, Continue
    <2>. QED BY <1>1, <2>1, WellFormedDecodes DEF Decodable
  <1>3. /\ width = text[o + 1].len /\ following = Raw(o)
        /\ text[o + 1].len \in 0 .. 4
    BY <1>0, <1>1, <1>2, LookupStep DEF width, following, Raw
  <1>4. PICK l : CurrentInv(l)
    BY DEF ContextInv, Continue
  <1>5. Remembers(seen, Passed) /\ SameNumeric(seen)
    BY DEF ContextInv, Continue
  <1>6. /\ Scanned(l) /\ current = ValueAt(l) /\ l \in Nat
    BY <1>4 DEF CurrentInv, Scanned
  <1>7. Passed' = Passed \cup {l}
    <2>1. PICK e : e = o + text[o + 1].len
      OBVIOUS
    <2>2. Ended(text, start, e) = Passed \cup {l}
      BY <1>0, <1>2, <1>6, <2>1, PassedGrows
    <2>3. e = start' + pos' /\ e \in Nat
      <3>1. PICK w : w = width
        OBVIOUS
      <3>2. w \in 0 .. 4 /\ e = o + w /\ pos' = pos + w
        BY <1>1, <1>3, <2>1, <3>1
      <3>. QED BY <1>0, <1>1, <3>2
    <2>4. Passed' = Ended(text, start, e)
      BY <1>1, <2>3 DEF Passed, Ended
    <2>. QED BY <2>2, <2>4
  <1>8. Remembers(r, Passed \cup {l}) /\ SameNumeric(r)
    <2>1. /\ Passed \in SUBSET Nat /\ IsFiniteSet(Passed)
          /\ \A q \in Passed : q < l
      BY <1>6, PassedIsBefore
    <2>. QED BY <1>5, <1>6, <2>1, RememberOne DEF remembered
  <1>9. Remembers(seen, Passed)' /\ SameNumeric(seen)'
    BY <1>1, <1>7, <1>8, SameSlice DEF SameNumeric
  <1>10. current' = ValueAt(o)
    BY <1>0, <1>1, <1>2, <1>3, <1>4, <1>5, SettledIsValue
  <1>11. Scanned(o)'
    <2>1. o + text[o + 1].len = start + (pos + width) /\ o \in Nat /\ start <= o
      BY <1>0, <1>1, <1>3
    <2>. QED BY <1>1, <1>2, <2>1 DEF Scanned
  <1>12. Is(current', Marks) =>
           \/ /\ r.lastExCMZWJ # {}
              /\ ~Is(r.lastExCMZWJ, Hard \cup {"SP", "ZW"})
           \/ /\ r.lastExCMZWJ = {}
              /\ \A q \in Passed \cup {l} : Is(Raw(q), {"ZWJ"})
    <2> SUFFICES ASSUME Is(current', Marks)
                 PROVE  \/ /\ r.lastExCMZWJ # {}
                           /\ ~Is(r.lastExCMZWJ, Hard \cup {"SP", "ZW"})
                        \/ /\ r.lastExCMZWJ = {}
                           /\ \A q \in Passed \cup {l} : Is(Raw(q), {"ZWJ"})
      OBVIOUS
    <2>1. ~Is({"AL"}, Marks)
      BY DEF Is, Marks
    <2>2. Is(Raw(o), Marks)
      BY <1>10, <2>1 DEF ValueAt
    <2>3. LB8a(r) \/ LB9(r, Raw(o))
      <3>1. ~Is(Raw(o), Hard \cup {"SP", "ZW"})
        BY <1>2, <2>2, RawFields
      <3>2. Settled(r, Raw(o)) = IF LB8a(r) \/ LB9(r, Raw(o)) THEN Raw(o) ELSE {"AL"}
        BY <1>1, <1>3, <2>2, <3>1, MarkSettled DEF verdict
      <3>. QED BY <1>1, <1>3, <2>1, <3>2
    <2>4. CASE LB9(r, Raw(o))
      BY <2>4 DEF LB9
    <2>5. CASE LB8a(r)
      <3>1. Is(current, {"ZWJ"}) /\ Is(current, Marks)
        BY <2>5 DEF LB8a, remembered, Remember, Is, Marks
      <3>2. r.lastExCMZWJ = seen.lastExCMZWJ
        BY <3>1 DEF remembered, Remember
      <3>3. Is(Raw(l), {"ZWJ"})
        BY <1>6, <2>1, <3>1 DEF ValueAt
      <3>. QED BY <1>4, <3>1, <3>2, <3>3 DEF CurrentInv
    <2>. QED BY <2>3, <2>4, <2>5
  <1>13. CurrentInv(o)'
    <2>1. current' = ValueAt(o)' /\ \A q : Raw(q)' = Raw(q)
      BY <1>1, <1>10, SameSlice
    <2>. QED BY <1>1, <1>7, <1>11, <1>12, <2>1 DEF CurrentInv
  <1>. QED BY <1>9, <1>13 DEF ContextInv

\* The invariant holds in every run of breaks.
LEMMA ContextKept == BreaksSpec => []ContextInv
  <1>1. BreaksInit => ContextInv
    BY DEF BreaksInit, Init, ContextInv
  <1>2. TypeOK /\ LinesInv /\ ContextInv /\ [BreaksNext]_vars => ContextInv'
    <2> SUFFICES ASSUME TypeOK, LinesInv, ContextInv, [BreaksNext]_vars,
                        pc' = "scan", WellFormed(text')
                 PROVE  ContextInv'
      BY DEF ContextInv
    <2>1. CASE Scan
      <3>1. text' = text
        BY <2>1 DEF Scan, Step, Return, CallEmpty, CallUndecodable, CallFirst,
                    EndOfText, Truncated, Continue, Break
      <3>2. CallFirst \/ Continue
        BY <2>1 DEF Scan, Step, Return, CallEmpty, CallUndecodable,
                    EndOfText, Truncated, Break
      <3>. QED BY <3>1, <3>2, FirstKeepsContext, ContinueKeepsContext
    <2>2. CASE Collect
      BY <2>2 DEF Collect
    <2>3. CASE UNCHANGED vars
      <3>1. /\ text' = text /\ start' = start /\ pos' = pos /\ pc' = pc
            /\ seen' = seen /\ current' = current
        BY <2>3 DEF vars
      <3>2. Passed' = Passed
        BY <3>1 DEF Passed
      <3>3. \A l : CurrentInv(l)' <=> CurrentInv(l)
        BY <3>1, <3>2, SameSlice DEF CurrentInv, Scanned
      <3>. QED BY <3>1, <3>2, <3>3, SameSlice DEF ContextInv
    <2>. QED BY <2>1, <2>2, <2>3 DEF BreaksNext, Finished
  <1>. QED BY <1>1, <1>2, TypeCorrect, LinesCorrect, PTL DEF BreaksSpec

\* At the head of the loop the variables are what they are named for: for every
\* valid text, however it is cut, and every character of every call.
THEOREM ContextRemembered == BreaksSpec => []RememberedContext
  <1>1. ContextInv => RememberedContext
    BY DEF ContextInv, RememberedContext
  <1>. QED BY <1>1, ContextKept, PTL
=============================================================================
