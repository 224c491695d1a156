-------------------------- MODULE NextBreakProofs --------------------------
(***************************************************************************)
(* A call of NextBreak keeps its contract, for every set of texts, UTF-8   *)
(* or not, and every type of text; and what its two parts guarantee: a     *)
(* lookup, of the bytes it reads, and the rules, whatever they remember.   *)
(***************************************************************************)
EXTENDS NextBreak, TLAPS

-----------------------------------------------------------------------------
(* Lookups: why a scan that moves by their widths stays between characters. *)

\* The fields of a byte, and what the table promises of its value.
LEMMA ByteFields ==
  ASSUME NEW t \in Seq(Byte), NEW i \in 0 .. Len(t) - 1
  PROVE  /\ t[i + 1].len \in 0 .. 4
         /\ t[i + 1].cont \in BOOLEAN
         /\ t[i + 1].prop \in Property
         /\ t[i + 1].scalar \in BOOLEAN
         /\ t[i + 1].cont => t[i + 1].len = 0
         /\ ~t[i + 1].scalar => t[i + 1].prop = {}
         /\ \A h \in Hard : h \in t[i + 1].prop => t[i + 1].prop = {h}
  <1>1. t[i + 1] \in Byte
    OBVIOUS
  <1>. QED BY <1>1 DEF Byte, TableValue

\* The least of a few places of an encoding.
LEMMA LeastPlace ==
  ASSUME NEW n \in 0 .. 3, NEW B \in SUBSET (1 .. n), B # {}
  PROVE  Min(B) \in B /\ \A k \in B : Min(B) <= k
  <1>1. \E m \in B : \A k \in B : m <= k
    <2>1. CASE 1 \in B
      BY <2>1
    <2>2. CASE 1 \notin B /\ 2 \in B
      BY <2>2
    <2>3. CASE 1 \notin B /\ 2 \notin B
      <3>1. \A k \in B : k = 3
        BY <2>3
      <3>2. PICK m \in B : TRUE
        OBVIOUS
      <3>. QED BY <3>1, <3>2
    <2>. QED BY <2>1, <2>2, <2>3
  <1>. QED BY <1>1 DEF Min

\* lookup: a width of 0 says that the text ends within the encoding.  Any other
\* stays in the text and covers, after the byte at i, continuation bytes only;
\* it is the whole encoding, with its value, exactly when there is one.
LEMMA LookupStep ==
  ASSUME NEW t \in Seq(Byte), NEW i \in 0 .. Len(t) - 1
  PROVE  LET w == lookup(t, i).sz
             v == lookup(t, i).v
         IN  /\ w \in 0 .. 4
             /\ v \in Property
             /\ w = 0 => i + t[i + 1].len > Len(t)
             /\ w > 0 => i + w <= Len(t)
             /\ \A k \in 1 .. w - 1 : t[i + k + 1].cont
             /\ Complete(t, i) => w = t[i + 1].len /\ v = t[i + 1].prop
             /\ v # {} => Complete(t, i)
  <1> DEFINE lead == t[i + 1]
             B == Broken(t, i)
  <1>1. lead.len \in 0 .. 4 /\ lead.prop \in Property /\ {} \in Property
    BY ByteFields DEF Property
  <1>2. CASE lead.len = 0
    BY <1>1, <1>2 DEF lookup, Complete
  <1>3. CASE lead.len > 0 /\ i + lead.len > Len(t)
    BY <1>1, <1>3 DEF lookup, Complete
  <1>4. CASE lead.len > 0 /\ i + lead.len <= Len(t) /\ B # {}
    <2>1. lead.len - 1 \in 0 .. 3 /\ B \in SUBSET (1 .. lead.len - 1)
      BY <1>1, <1>4 DEF Broken
    <2>2. Min(B) \in B /\ \A k \in B : Min(B) <= k
      BY <2>1, <1>4, LeastPlace
    <2>3. lookup(t, i) = [v |-> {}, sz |-> Min(B)]
      BY <1>1, <1>4 DEF lookup
    <2>4. ASSUME NEW k \in 1 .. Min(B) - 1 PROVE t[i + k + 1].cont
      <3>1. k \in Int /\ ~(Min(B) <= k) /\ k \in 1 .. lead.len - 1
        BY <2>1, <2>2
      <3>2. k \notin B
        BY <2>2, <3>1
      <3>. QED BY <3>1, <3>2 DEF Broken
    <2>5. ~Complete(t, i)
      BY <1>4 DEF Broken, Complete
    <2>. QED BY <1>1, <1>4, <2>1, <2>2, <2>3, <2>4, <2>5
  <1>5. CASE lead.len > 0 /\ i + lead.len <= Len(t) /\ B = {}
    <2>1. lookup(t, i) = [v |-> lead.prop, sz |-> lead.len]
      BY <1>1, <1>5 DEF lookup
    <2>2. Complete(t, i)
      BY <1>5 DEF Broken, Complete
    <2>. QED BY <1>1, <1>5, <2>1, <2>2 DEF Complete
  <1>. QED BY <1>1, <1>2, <1>3, <1>4, <1>5

\* lookupProperty moves as lookup does, or says that nothing can be decoded.
\* Then the text does not hold a scalar there, unless the type switch of
\* isValidUTF8Prefix missed the type of the text.
LEMMA LookupPropertyStep ==
  ASSUME NEW t \in Seq(Byte), NEW i \in 0 .. Len(t) - 1
  PROVE  LET found == lookupProperty(t, i)
         IN  /\ found.v \in Property
             /\ found.sz \in {0, lookup(t, i).sz}
             /\ found.v # {} => found.v \in {lookup(t, i).v, {"AL"}}
             /\ found.sz > 0 /\ lookup(t, i).v # {} => found.v = lookup(t, i).v
             /\ found.sz = 0 => DefinedType \/ ~Decodable(t, i)
  <1>1. /\ lookup(t, i).sz \in 0 .. 4
        /\ lookup(t, i).v \in Property
        /\ Complete(t, i) => lookup(t, i).sz = t[i + 1].len
    BY LookupStep
  <1>2. {"AL"} \in Property /\ {} \in Property
    BY DEF Property, Class
  <1>3. CASE lookup(t, i).v # {} \/ lookup(t, i).sz = 0
    <2>1. lookupProperty(t, i) = lookup(t, i)
      BY <1>3 DEF lookupProperty
    <2>2. lookup(t, i).sz = 0 => ~Complete(t, i)
      BY <1>1 DEF Complete
    <2>. QED BY <1>1, <2>1, <2>2 DEF Decodable
  <1>4. CASE lookup(t, i).v = {} /\ lookup(t, i).sz # 0
    BY <1>1, <1>2, <1>4 DEF lookupProperty, isValidUTF8Prefix, Decodable
  <1>. QED BY <1>3, <1>4

\* A lookup sees a hard break class just where a whole encoding has it.
LEMMA LookupHard ==
  ASSUME NEW t \in Seq(Byte), NEW i \in 0 .. Len(t) - 1, NEW h \in Hard
  PROVE  /\ h \in lookup(t, i).v
              <=> (Complete(t, i) /\ t[i + 1].prop = {h})
         /\ lookupProperty(t, i).sz > 0 =>
              (h \in lookupProperty(t, i).v <=> h \in lookup(t, i).v)
  <1>1. /\ Complete(t, i) => lookup(t, i).v = t[i + 1].prop
        /\ lookup(t, i).v # {} => Complete(t, i)
    BY LookupStep
  <1>2. h \in t[i + 1].prop => t[i + 1].prop = {h}
    BY ByteFields
  <1>3. h \notin {"AL"}
    BY DEF Hard
  <1>4. LET found == lookupProperty(t, i)
        IN  /\ found.v # {} => found.v \in {lookup(t, i).v, {"AL"}}
            /\ found.sz > 0 /\ lookup(t, i).v # {} =>
                 found.v = lookup(t, i).v
    BY LookupPropertyStep
  <1>5. h \in lookup(t, i).v
          <=> (Complete(t, i) /\ t[i + 1].prop = {h})
    BY <1>1, <1>2
  <1>. QED BY <1>3, <1>4, <1>5

-----------------------------------------------------------------------------
(* A step of width w from the offset i, where i is not within a character. *)

\* Only the encoding at i can reach into the bytes that the step covers: those
\* after the first start no encoding, and an earlier one would hold i inside.
LEMMA StepOwner ==
  ASSUME NEW t \in Seq(Byte), NEW i \in 0 .. Len(t) - 1,
         ~Inside(t, i),
         lookup(t, i).sz > 0,
         NEW j \in 0 .. i + lookup(t, i).sz - 1,
         Complete(t, j),
         j + t[j + 1].len > i
  PROVE  j = i
  <1> DEFINE w == lookup(t, i).sz
  <1>1. w \in 1 .. 4
    BY LookupStep
  <1>2. \A k \in 1 .. w - 1 : t[i + k + 1].cont
    BY LookupStep
  <1>3. j \in 0 .. Len(t) - 1 /\ t[j + 1].len \in 1 .. 4
    <2>1. j \in 0 .. Len(t) - 1 /\ t[j + 1].len > 0
      BY DEF Complete
    <2>2. t[j + 1].len \in 0 .. 4
      BY <2>1, ByteFields
    <2>. QED BY <2>1, <2>2
  <1>4. ASSUME j < i PROVE FALSE
    BY <1>3, <1>4 DEF Inside
  <1>5. ASSUME j > i PROVE FALSE
    <2>1. j - i \in 1 .. w - 1
      BY <1>1, <1>3, <1>5
    <2>2. t[i + (j - i) + 1].cont
      BY <1>2, <2>1
    <2>3. t[j + 1].cont
      BY <1>3, <2>2
    <2>. QED BY <1>3, <2>3, ByteFields
  <1>. QED BY <1>3, <1>4, <1>5

\* The step ends between characters.
LEMMA StepStaysOutside ==
  ASSUME NEW t \in Seq(Byte), NEW i \in 0 .. Len(t) - 1,
         ~Inside(t, i),
         lookup(t, i).sz > 0,
         NEW e, e = i + lookup(t, i).sz
  PROVE  ~Inside(t, e)
  <1>1. /\ lookup(t, i).sz \in 1 .. 4
        /\ Complete(t, i) => lookup(t, i).sz = t[i + 1].len
    BY LookupStep
  <1>2. e \in Nat /\ i \in Nat /\ i < e
    BY <1>1
  <1>3. SUFFICES ASSUME NEW j \in 0 .. e - 1,
                        Complete(t, j), e < j + t[j + 1].len
                 PROVE  FALSE
    BY DEF Inside
  <1>4. j \in 0 .. Len(t) - 1 /\ t[j + 1].len \in 1 .. 4
    <2>1. j \in 0 .. Len(t) - 1 /\ t[j + 1].len > 0
      BY <1>3 DEF Complete
    <2>2. t[j + 1].len \in 0 .. 4
      BY <2>1, ByteFields
    <2>. QED BY <2>1, <2>2
  <1>5. j + t[j + 1].len > i
    BY ONLY <1>2, <1>3, <1>4
  <1>6. j \in 0 .. i + lookup(t, i).sz - 1
    BY <1>1, <1>2
  <1>7. j = i
    BY <1>3, <1>5, <1>6, StepOwner
  <1>8. e < i + t[i + 1].len /\ e = i + t[i + 1].len
    BY <1>1, <1>3, <1>7
  <1>. QED BY ONLY <1>2, <1>8

\* The character that ends where the step does is the one at i.
LEMMA StepEnd ==
  ASSUME NEW t \in Seq(Byte), NEW i \in 0 .. Len(t) - 1,
         ~Inside(t, i),
         lookup(t, i).sz > 0,
         NEW e, e = i + lookup(t, i).sz,
         NEW p
  PROVE  EndsWith(t, e, p) <=> (Complete(t, i) /\ t[i + 1].prop = p)
  <1>1. /\ lookup(t, i).sz \in 1 .. 4
        /\ Complete(t, i) => lookup(t, i).sz = t[i + 1].len
    BY LookupStep
  <1>2. ASSUME EndsWith(t, e, p)
        PROVE  Complete(t, i) /\ t[i + 1].prop = p
    <2>1. PICK j \in 0 .. e - 1 : /\ Complete(t, j)
                                 /\ j + t[j + 1].len = e
                                 /\ t[j + 1].prop = p
      BY <1>2 DEF EndsWith
    <2>2. j = i
      BY <1>1, <2>1, StepOwner
    <2>. QED BY <2>1, <2>2
  <1>3. ASSUME Complete(t, i), t[i + 1].prop = p
        PROVE  EndsWith(t, e, p)
    BY <1>1, <1>3 DEF EndsWith
  <1>. QED BY <1>2, <1>3

\* No character ends between the two ends of the step.
LEMMA StepWithin ==
  ASSUME NEW t \in Seq(Byte), NEW i \in 0 .. Len(t) - 1,
         ~Inside(t, i),
         lookup(t, i).sz > 0,
         NEW c \in i + 1 .. i + lookup(t, i).sz - 1,
         NEW p
  PROVE  ~EndsWith(t, c, p)
  <1> DEFINE w == lookup(t, i).sz
  <1>1. w \in 1 .. 4 /\ (Complete(t, i) => w = t[i + 1].len)
    BY LookupStep
  <1> SUFFICES ASSUME NEW j \in 0 .. c - 1, Complete(t, j),
                      j + t[j + 1].len = c
               PROVE  FALSE
    BY DEF EndsWith
  <1>2. j \in 0 .. i + w - 1
    BY <1>1
  <1>3. j = i
    BY <1>1, <1>2, StepOwner
  <1>. QED BY <1>1, <1>3

\* The four together: where a step starting at i leads.
LEMMA StepForward ==
  ASSUME NEW t \in Seq(Byte), NEW i \in 0 .. Len(t) - 1,
         ~Inside(t, i),
         lookup(t, i).sz > 0,
         NEW e, e = i + lookup(t, i).sz
  PROVE  /\ e \in i + 1 .. Len(t)
         /\ ~Inside(t, e)
         /\ \A c \in i + 1 .. e - 1 : ~HardBreak(t, c)
         /\ \A h \in Hard : EndsWith(t, e, {h}) <=> h \in lookup(t, i).v
  <1>1. e \in i + 1 .. Len(t)
    BY LookupStep
  <1>2. ~Inside(t, e)
    BY StepStaysOutside
  <1>3. ASSUME NEW c \in i + 1 .. e - 1 PROVE ~HardBreak(t, c)
    <2>1. lookup(t, i).sz \in 1 .. 4 /\ i \in Nat
      BY LookupStep
    <2>2. c \in i + 1 .. i + lookup(t, i).sz - 1
      BY <2>1
    <2>3. ASSUME NEW h \in Hard PROVE ~EndsWith(t, c, {h})
      BY <2>2, StepWithin
    <2>. QED BY <2>3 DEF HardBreak
  <1>4. ASSUME NEW h \in Hard
        PROVE  EndsWith(t, e, {h}) <=> h \in lookup(t, i).v
    <2>1. EndsWith(t, e, {h})
            <=> (Complete(t, i) /\ t[i + 1].prop = {h})
      BY StepEnd
    <2>. QED BY <2>1, LookupHard
  <1>. QED BY <1>1, <1>2, <1>3, <1>4

-----------------------------------------------------------------------------
(* Valid UTF-8.                                                            *)

\* A byte within a whole encoding, after its first, starts none.
LEMMA WithinEncoding ==
  ASSUME NEW t \in Seq(Byte), NEW j \in Nat, Complete(t, j),
         NEW i \in j + 1 .. j + t[j + 1].len - 1
  PROVE  i \in 0 .. Len(t) - 1 /\ t[i + 1].len = 0
  <1>1. j \in 0 .. Len(t) - 1 /\ t[j + 1].len \in 1 .. 4
        /\ j + t[j + 1].len <= Len(t)
    BY ByteFields DEF Complete
  <1>2. i - j \in 1 .. t[j + 1].len - 1 /\ i \in 0 .. Len(t) - 1
    BY <1>1
  <1>3. t[j + (i - j) + 1].cont
    BY <1>2 DEF Complete
  <1>4. j + (i - j) + 1 = i + 1
    BY <1>1, <1>2
  <1>. QED BY <1>2, <1>3, <1>4, ByteFields

\* In valid UTF-8 there is a scalar at every place between characters, and no
\* encoding is cut short: so nothing makes NextBreak give up on the text.
LEMMA WellFormedDecodes ==
  ASSUME NEW t \in Seq(Byte), WellFormed(t)
  PROVE  /\ \A i \in 0 .. Len(t) - 1 :
              ~Inside(t, i) => Decodable(t, i)
         /\ \A a \in Nat, c \in 0 .. Len(t) - 1 : ~CutShort(t, a, c)
  <1>1. ASSUME NEW i \in 0 .. Len(t) - 1, ~Inside(t, i)
        PROVE  Decodable(t, i)
    <2>1. PICK j \in 0 .. i : Decodable(t, j) /\ i < j + t[j + 1].len
      BY DEF WellFormed
    <2>2. j = i
      BY <1>1, <2>1 DEF Decodable, Inside
    <2>. QED BY <2>1, <2>2
  <1>2. ASSUME NEW i \in 0 .. Len(t) - 1, i + t[i + 1].len > Len(t)
        PROVE  FALSE
    <2>1. PICK j \in 0 .. i : Decodable(t, j) /\ i < j + t[j + 1].len
      BY DEF WellFormed
    <2>2. Complete(t, j) /\ t[j + 1].len \in 1 .. 4 /\ t[i + 1].len \in 0 .. 4
      BY <2>1, ByteFields DEF Decodable, Complete
    <2>3. CASE j = i
      BY <1>2, <2>2, <2>3 DEF Complete
    <2>4. CASE j < i
      <3>1. i \in j + 1 .. j + t[j + 1].len - 1
        BY <2>1, <2>2, <2>4
      <3>2. t[i + 1].len = 0
        BY <2>2, <3>1, WithinEncoding
      <3>. QED BY <1>2, <3>2
    <2>. QED BY <2>3, <2>4
  <1>. QED BY <1>1, <1>2 DEF CutShort

-----------------------------------------------------------------------------
(* The rules: where a break is mandatory, and before what none is allowed. *)

\* Of the start of a call nothing is remembered.
LEMMA NothingType == Nothing \in Remembered
  <1>1. {} \in Property
    BY DEF Property
  <1>. QED BY <1>1 DEF Nothing, Remembered

\* One more character leaves what is remembered in its type.
LEMMA RememberType ==
  ASSUME NEW s \in Remembered, NEW last \in Property
  PROVE  /\ Remember(s, last) \in Remembered
         /\ Remember(s, last).last = last
  BY DEF Remember, Remembered

\* The result of the rules, and of resolving a character, is in range.
LEMMA VerdictType ==
  ASSUME NEW s, NEW c \in Property, NEW next, NEW next2
  PROVE  /\ Verdict(s, c, next, next2) \in {join} \cup BreakKind
         /\ Settled(s, c) \in Property
  <1>1. /\ RawVerdict(s, c) \in {join, undecided} \cup BreakKind
        /\ ResolvedVerdict(s, LB10(c), next, next2) \in {join} \cup BreakKind
    BY DEF RawVerdict, ResolvedVerdict, BreakKind
  <1>2. {"AL"} \in Property
    BY DEF Property, Class
  <1>. QED BY <1>1, <1>2 DEF Verdict, Settled, LB10

\* LB4 and LB5: a break is mandatory after a hard break class, but not between
\* CR and LF, and nowhere else.
LEMMA MandatoryVerdict ==
  ASSUME NEW s, NEW c, NEW next, NEW next2,
         \A h \in Hard : h \in s.last => s.last = {h}
  PROVE  Verdict(s, c, next, next2) = breakMandatory
           <=> /\ Is(s.last, Hard)
               /\ ~("CR" \in s.last /\ "LF" \in c)
  <1>1. ResolvedVerdict(s, LB10(c), next, next2) # breakMandatory
    BY DEF ResolvedVerdict, join, breakMandatory, breakOpportunity
  <1>2. Verdict(s, c, next, next2) = breakMandatory
          <=> RawVerdict(s, c) = breakMandatory
    BY <1>1 DEF Verdict, undecided, breakMandatory
  <1>3. RawVerdict(s, c) = breakMandatory
          <=> (LB4(s) \/ (LB5(s) /\ ~LB5Joins(s, c)))
    BY DEF RawVerdict, join, undecided, breakMandatory, breakOpportunity
  <1>4. /\ LB4(s) <=> "BK" \in s.last
        /\ LB5(s) <=> ("CR" \in s.last \/ "LF" \in s.last \/ "NL" \in s.last)
        /\ LB5Joins(s, c) <=> ("CR" \in s.last /\ "LF" \in c)
        /\ Is(s.last, Hard) <=> (LB4(s) \/ LB5(s))
    BY DEF LB4, LB5, LB5Joins, Is, Hard
  <1>5. ~("BK" \in s.last /\ "CR" \in s.last)
    BY DEF Hard
  <1>. QED BY <1>2, <1>3, <1>4, <1>5

\* LB5: no break at all between CR and LF.
LEMMA JoinedVerdict ==
  ASSUME NEW s, NEW c, NEW next, NEW next2,
         s.last = {"CR"}, "LF" \in c
  PROVE  Verdict(s, c, next, next2) = join
  <1>1. ~LB4(s) /\ LB5Joins(s, c)
    BY DEF LB4, LB5Joins, Is
  <1>. QED BY <1>1 DEF Verdict, RawVerdict, join, undecided

\* LB6 and LB7: no opportunity before a hard break class, a space or ZW.
LEMMA OpportunityVerdict ==
  ASSUME NEW s, NEW c, NEW next, NEW next2,
         Verdict(s, c, next, next2) = breakOpportunity
  PROVE  ~Is(c, Hard \cup {"SP", "ZW"})
  <1>1. ~LB6(c) /\ ~LB7(c)
    BY DEF Verdict, RawVerdict, join, undecided, breakMandatory, breakOpportunity
  <1>. QED BY <1>1 DEF LB6, LB7, Is

\* LB10 comes after the rules that take a hard break class, so resolving a
\* character neither removes such a class nor adds one.
LEMMA SettledHard ==
  ASSUME NEW s, NEW c, NEW h \in Hard
  PROVE  /\ h \in Settled(s, c) <=> h \in c
         /\ h \in c => Settled(s, c) = c
  <1>1. h \notin {"AL"}
    BY DEF Hard
  <1>2. CASE RawVerdict(s, c) = undecided
    <2>1. ~LB6(c)
      BY <1>2 DEF RawVerdict, join, undecided, breakMandatory, breakOpportunity
    <2>2. h \notin c
      BY <2>1 DEF LB6, Is
    <2>. QED BY <1>1, <1>2, <2>2 DEF Settled, LB10
  <1>3. CASE RawVerdict(s, c) # undecided
    BY <1>3 DEF Settled
  <1>. QED BY <1>2, <1>3

-----------------------------------------------------------------------------
(* The contract of a call.                                                 *)

\* The scan stands within the text, between characters, and what a call
\* returns is as the contract says.
CallInv ==
  /\ text \in Seq(Byte)
  /\ start = 0
  /\ pos \in Nat
  /\ pc = "scan" => pos \in 1 .. Size /\ ~Inside(text, pos)
  /\ ReturnContract

\* No character goes beyond the end of a text.
LEMMA EndIsOutside ==
  ASSUME NEW t \in Seq(Byte)
  PROVE  ~Inside(t, Len(t))
  BY ByteFields DEF Inside, Complete

\* A step by the width of the character at i stays between characters.
LEMMA ScanStep ==
  ASSUME CallInv, NEW i \in 0 .. Len(text) - 1, ~Inside(text, i),
         lookup(text, i).sz > 0,
         start' = start, text' = text, pos' = i + lookup(text, i).sz
  PROVE  pos' \in Nat /\ pos' \in 1 .. Size' /\ ~Inside(text', pos')
  <1>1. text \in Seq(Byte) /\ Len(text) \in Nat /\ start = 0
    BY DEF CallInv
  <1>2. pos' \in i + 1 .. Len(text) /\ ~Inside(text, pos')
    BY <1>1, StepForward
  <1>. QED BY <1>1, <1>2 DEF Size

\* Whatever the bytes, only an empty text advances by nothing; any other by
\* whole characters, up to its end at most, where the break is mandatory.
THEOREM ContractKept == Spec => []ReturnContract
  <1>1. Init => CallInv
    BY TextsAssumption DEF Init, CallInv, ReturnContract
  <1>2. CallInv /\ [Next]_scanVars => CallInv'
    <2> SUFFICES ASSUME CallInv, [Next]_scanVars
                 PROVE  CallInv'
      OBVIOUS
    <2> USE DEF Return
    <2>0. /\ text \in Seq(Byte) /\ Len(text) \in Nat /\ start = 0 /\ pos \in Nat
          /\ Size = Len(text)
          /\ ~Inside(text, Len(text))
      BY EndIsOutside DEF CallInv, Size
    \* To return all of the text, or the place where the scan stands.
    <2>1. ASSUME NEW at \in 0 .. Len(text), ~Inside(text, at),
                 at = 0 <=> Len(text) = 0,
                 at = Len(text) => kind' = breakMandatory,
                 advance' = at, pc' = "ret", UNCHANGED <<text, start, pos>>
          PROVE  CallInv'
      <3>0. start' = 0 /\ text' = text
        BY <2>0, <2>1
      <3>1. Size' = Len(text) /\ 0 + at = at
        BY <2>0, <3>0 DEF Size
      <3>2. advance' = at /\ ~Inside(text', start' + advance')
        BY <2>0, <2>1, <3>0, <3>1
      <3>3. ReturnContract'
        BY <2>1, <3>1, <3>2 DEF ReturnContract
      <3>. QED BY <2>0, <2>1, <3>0, <3>3 DEF CallInv
    <2>2. ASSUME CallEmpty PROVE CallInv'
      BY <2>0, <2>1, <2>2 DEF CallEmpty
    <2>3. ASSUME CallUndecodable PROVE CallInv'
      BY <2>0, <2>1, <2>3 DEF CallUndecodable
    <2>4. ASSUME CallFirst PROVE CallInv'
      <3>1. 0 \in 0 .. Len(text) - 1 /\ ~Inside(text, 0)
        BY <2>0, <2>4 DEF CallFirst, Inside
      <3>2. /\ lookup(text, 0).sz > 0
            /\ pos' = 0 + lookup(text, 0).sz
        BY <2>0, <2>4, <3>1, LookupStep, LookupPropertyStep DEF CallFirst
      <3>3. pos' \in Nat /\ pos' \in 1 .. Size' /\ ~Inside(text', pos')
        BY <2>4, <3>1, <3>2, ScanStep DEF CallFirst
      <3>. QED BY <2>0, <2>4, <3>3 DEF CallFirst, CallInv, ReturnContract
    <2>5. ASSUME EndOfText PROVE CallInv'
      <3>1. pos \in 1 .. Len(text) /\ pos = Len(text)
        BY <2>0, <2>5 DEF EndOfText, CallInv
      <3>. QED BY <2>0, <2>1, <2>5, <3>1 DEF EndOfText
    <2>6. ASSUME Truncated PROVE CallInv'
      <3>1. Len(text) # 0
        BY <2>0, <2>6 DEF Truncated
      <3>. QED BY <2>0, <2>1, <2>6, <3>1 DEF Truncated
    <2>7. ASSUME Continue PROVE CallInv'
      <3>1. /\ pos \in 0 .. Len(text) - 1 /\ ~Inside(text, pos)
            /\ lookup(text, pos).sz > 0
            /\ pos' = pos + lookup(text, pos).sz
        BY <2>0, <2>7 DEF Continue, CallInv, width
      <3>2. pos' \in Nat /\ pos' \in 1 .. Size' /\ ~Inside(text', pos')
        BY <2>7, <3>1, ScanStep DEF Continue
      <3>. QED BY <2>0, <2>7, <3>2 DEF Continue, CallInv, ReturnContract
    <2>8. ASSUME Break PROVE CallInv'
      <3>1. /\ pos \in 1 .. Len(text) - 1 /\ ~Inside(text, pos)
            /\ advance' = pos /\ pc' = "ret" /\ UNCHANGED <<text, start, pos>>
        BY <2>0, <2>8 DEF Break, CallInv
      <3>. QED BY <2>0, <2>1, <3>1
    <2>9. ASSUME UNCHANGED scanVars PROVE CallInv'
      BY <2>9 DEF scanVars, CallInv, ReturnContract, Size
    <2>. QED BY <2>2, <2>3, <2>4, <2>5, <2>6, <2>7, <2>8, <2>9
             DEF Next, Step, Returned
  <1>3. CallInv => ReturnContract
    BY DEF CallInv
  <1>. QED BY <1>1, <1>2, <1>3, PTL DEF Spec
=============================================================================
