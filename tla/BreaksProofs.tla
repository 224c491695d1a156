---------------------------- MODULE BreaksProofs ----------------------------
(***************************************************************************)
(* breaks cuts every text, UTF-8 or not, as Segmentation says: for every   *)
(* set of texts and every type of text.                                    *)
(***************************************************************************)
EXTENDS Breaks, NextBreakProofs

-----------------------------------------------------------------------------
(* Type correctness.                                                       *)

\* The slice is the rest of the text.
LEMMA SizeType ==
  ASSUME TypeOK
  PROVE  Len(text) \in Nat /\ Size \in Nat /\ Size = Len(text) - start
  BY DEF TypeOK, Size

\* What one look at the character after the boundary yields.
LEMMA Looked ==
  ASSUME TypeOK, pos < Size
  PROVE  /\ start + pos \in 0 .. Len(text) - 1
         /\ width \in 0 .. 4
         /\ following \in Property
         /\ remembered \in Remembered
         /\ remembered.last = current
         /\ verdict \in {join} \cup BreakKind
         /\ Settled(remembered, following) \in Property
  <1>1. start + pos \in 0 .. Len(text) - 1
    BY DEF TypeOK, Size
  <1>2. text \in Seq(Byte) /\ current \in Property /\ seen \in Remembered
    BY DEF TypeOK
  <1>3. width \in 0 .. 4 /\ lookup(text, start + pos).v \in Property
    BY <1>1, <1>2, LookupStep DEF width
  <1>4. {"AL"} \in Property
    BY DEF Property, Class
  <1>5. following \in Property
    BY <1>3, <1>4 DEF following
  <1>6. remembered \in Remembered /\ remembered.last = current
    BY <1>2, RememberType DEF remembered
  <1>7. /\ verdict \in {join} \cup BreakKind
        /\ Settled(remembered, following) \in Property
    BY <1>5, VerdictType DEF verdict
  <1>. QED BY <1>1, <1>3, <1>5, <1>6, <1>7

\* The first character of a slice.
LEMMA LookedFirst ==
  ASSUME TypeOK, Size > 0
  PROVE  /\ start \in 0 .. Len(text) - 1
         /\ lookupProperty(text, start).sz \in 0 .. 4
         /\ lookupProperty(text, start).v \in Property
         /\ lookupProperty(text, start).sz \in {0, lookup(text, start).sz}
  <1>1. start \in 0 .. Len(text) - 1 /\ text \in Seq(Byte)
    BY DEF TypeOK, Size
  <1>. QED BY <1>1, LookupStep, LookupPropertyStep

\* Every variable keeps its type, in every run of breaks.
THEOREM TypeCorrect == BreaksSpec => []TypeOK
  <1>1. BreaksInit => TypeOK
    BY NothingType, TextsAssumption DEF BreaksInit, Init, TypeOK, BreakKind, Property
  <1>2. TypeOK /\ [BreaksNext]_vars => TypeOK'
    <2> SUFFICES ASSUME TypeOK, [BreaksNext]_vars
                 PROVE  TypeOK'
      OBVIOUS
    <2>0. Len(text) \in Nat /\ Size \in Nat /\ breakMandatory \in BreakKind
      BY SizeType DEF BreakKind
    <2>1. ASSUME Scan, CallEmpty PROVE TypeOK'
      BY <2>0, <2>1 DEF Scan, CallEmpty, Return, TypeOK
    <2>2. ASSUME Scan, CallUndecodable PROVE TypeOK'
      BY <2>0, <2>2 DEF Scan, CallUndecodable, Return, TypeOK
    <2>3. ASSUME Scan, CallFirst PROVE TypeOK'
      <3>1. /\ lookupProperty(text, start).sz \in 0 .. 4
            /\ lookupProperty(text, start).v \in Property
        BY <2>3, LookedFirst DEF CallFirst
      <3>. QED BY <2>3, <3>1, NothingType DEF Scan, CallFirst, TypeOK
    <2>4. ASSUME Scan, EndOfText PROVE TypeOK'
      BY <2>0, <2>4 DEF Scan, EndOfText, Return, TypeOK
    <2>5. ASSUME Scan, Truncated PROVE TypeOK'
      BY <2>0, <2>5 DEF Scan, Truncated, Return, TypeOK
    <2>6. ASSUME Scan, Continue PROVE TypeOK'
      <3>1. /\ width \in 0 .. 4
            /\ remembered \in Remembered
            /\ Settled(remembered, following) \in Property
        BY <2>6, Looked DEF Continue
      <3>. QED BY <2>6, <3>1 DEF Scan, Continue, TypeOK
    <2>7. ASSUME Scan, Break PROVE TypeOK'
      BY <2>7 DEF Scan, Break, Return, TypeOK
    <2>8. ASSUME Collect PROVE TypeOK'
      <3>1. CASE advance \in 1 .. Size
        <4>1. /\ start + advance \in 0 .. Len(text)
              /\ start' = start + advance
              /\ outcome' \in {"running", "done"}
          BY <2>8, <3>1, SizeType DEF Collect, TypeOK
        <4>2. /\ Append(offsets, start + advance) \in Seq(Nat)
              /\ Append(kinds, kind) \in Seq(BreakKind)
          BY <4>1, SizeType DEF TypeOK
        <4>3. offsets' \in Seq(Nat) /\ kinds' \in Seq(BreakKind)
          BY <2>8, <3>1, <4>2 DEF Collect
        <4>. QED BY <2>8, <4>1, <4>3 DEF Collect, TypeOK
      <3>2. CASE advance \notin 1 .. Size
        <4>1. <<>> \in Seq(Nat) /\ <<>> \in Seq(BreakKind)
          OBVIOUS
        <4>2. offsets' \in Seq(Nat) /\ kinds' \in Seq(BreakKind)
          BY <2>8, <3>2, <4>1 DEF Collect
        <4>3. start' = start /\ outcome' = "error"
          BY <2>8, <3>2 DEF Collect
        <4>. QED BY <2>8, <4>2, <4>3 DEF Collect, TypeOK
      <3>. QED BY <3>1, <3>2
    <2>9. ASSUME UNCHANGED vars PROVE TypeOK'
      BY <2>9 DEF vars, TypeOK
    <2>. QED BY <2>1, <2>2, <2>3, <2>4, <2>5, <2>6, <2>7, <2>8, <2>9
             DEF BreaksNext, Scan, Step, Finished
  <1>. QED BY <1>1, <1>2, PTL DEF BreaksSpec

-----------------------------------------------------------------------------
(* The lines.                                                              *)

\* The scan invariant holds after a step from the offset i to start + pos'.
LEMMA ScanForward ==
  ASSUME TypeOK, NEW i \in 0 .. Len(text) - 1, ~Inside(text, i), start <= i,
         lookup(text, i).sz > 0,
         \A c \in start + 1 .. i : ~HardBreak(text, c),
         text' = text, start' = start, pos' \in Nat,
         NEW e, e = i + lookup(text, i).sz, start + pos' = e,
         \A h \in Hard : /\ h \in current' <=> h \in lookup(text, i).v
                         /\ h \in current' => current' = {h}
  PROVE  ScanInv'
  <1>1. text \in Seq(Byte) /\ start \in 0 .. Len(text) /\ Len(text) \in Nat
    BY SizeType DEF TypeOK
  <1>2. /\ e \in i + 1 .. Len(text)
        /\ ~Inside(text, e)
        /\ \A c \in i + 1 .. e - 1 : ~HardBreak(text, c)
        /\ \A h \in Hard : EndsWith(text, e, {h}) <=> h \in lookup(text, i).v
    BY <1>1, StepForward
  <1>3. pos' \in 1 .. Size'
    BY <1>1, <1>2 DEF Size
  <1>4. ASSUME NEW c \in start + 1 .. e - 1 PROVE ~HardBreak(text, c)
    <2>1. CASE c <= i
      BY <1>1, <2>1
    <2>2. CASE c > i
      <3>1. c \in i + 1 .. e - 1
        BY <1>1, <1>2, <2>2
      <3>. QED BY <1>2, <3>1
    <2>. QED BY <1>1, <1>2, <2>1, <2>2
  <1>5. start' + pos' = e /\ text' = text /\ start' = start
    OBVIOUS
  <1>6. ~Inside(text', start' + pos')
    BY <1>2, <1>5
  <1>7. \A c \in start' + 1 .. start' + pos' - 1 : ~HardBreak(text', c)
    <2>1. start' + 1 .. start' + pos' - 1 = start + 1 .. e - 1
      BY <1>1, <1>5
    <2>. QED BY <1>4, <1>5, <2>1
  <1>8. \A h \in Hard : /\ h \in current' <=> EndsWith(text', start' + pos', {h})
                        /\ h \in current' => current' = {h}
    BY <1>2, <1>5
  <1>. QED BY <1>3, <1>6, <1>7, <1>8 DEF ScanInv

\* What the scan knows at the head of the loop, if more of the slice follows:
\* its rules see CR before the boundary and LF after it just where the text has
\* them, and ask for a mandatory break just where the line must end.
LEMMA AtBoundary ==
  ASSUME TypeOK, ScanInv, pc = "scan", pos < Size, width > 0
  PROVE  /\ \A h \in Hard : h \in following <=> h \in lookup(text, start + pos).v
         /\ verdict = breakMandatory <=> HardBreak(text, start + pos)
         /\ WithinCRLF(text, start + pos) => verdict = join
         /\ verdict = breakOpportunity =>
              ~StartsWith(text, start + pos, Hard \cup {"SP", "ZW"})
  <1> DEFINE i == start + pos
  <1>1. /\ i \in 0 .. Len(text) - 1
        /\ text \in Seq(Byte)
        /\ remembered.last = current
    BY Looked DEF TypeOK
  <1>2. \A h \in Hard : /\ h \in current <=> EndsWith(text, i, {h})
                        /\ h \in current => current = {h}
    BY DEF ScanInv
  <1>3. \A h \in Hard : h \in following <=> h \in lookup(text, i).v
    BY DEF following, Hard
  <1>4. /\ "LF" \in following <=> StartsWith(text, i, {"LF"})
        /\ Is(lookup(text, i).v, Hard \cup {"SP", "ZW"}) =>
             following = lookup(text, i).v
    <2>1. "LF" \in lookup(text, i).v
            <=> (Complete(text, i) /\ text[i + 1].prop = {"LF"})
      BY <1>1, LookupHard DEF Hard
    <2>2. "LF" \in text[i + 1].prop => text[i + 1].prop = {"LF"}
      BY <1>1, ByteFields DEF Hard
    <2>3. "LF" \in following <=> "LF" \in lookup(text, i).v
      BY <1>3 DEF Hard
    <2>. QED BY <2>1, <2>2, <2>3 DEF StartsWith, Is, following
  <1>5. verdict = breakMandatory
          <=> (Is(current, Hard) /\ ~("CR" \in current /\ "LF" \in following))
    BY <1>1, <1>2, MandatoryVerdict DEF verdict
  <1>6. WithinCRLF(text, i) <=> ("CR" \in current /\ "LF" \in following)
    BY <1>2, <1>4 DEF WithinCRLF, Hard
  <1>7. Is(current, Hard) <=> \E h \in Hard : EndsWith(text, i, {h})
    BY <1>2 DEF Is
  <1>8. verdict = breakMandatory <=> HardBreak(text, i)
    BY <1>5, <1>6, <1>7 DEF HardBreak
  <1>9. WithinCRLF(text, i) => verdict = join
    <2>1. "CR" \in current => current = {"CR"}
      BY <1>2 DEF Hard
    <2>. QED BY <1>1, <1>6, <2>1, JoinedVerdict DEF verdict
  <1>10. ASSUME verdict = breakOpportunity
         PROVE  ~StartsWith(text, i, Hard \cup {"SP", "ZW"})
    <2>1. ~Is(following, Hard \cup {"SP", "ZW"})
      BY <1>10, OpportunityVerdict DEF verdict
    <2>2. Complete(text, i) => lookup(text, i).v = text[i + 1].prop
      BY <1>1, LookupStep
    <2>. QED BY <1>4, <2>1, <2>2 DEF StartsWith
  <1>. QED BY <1>3, <1>8, <1>9, <1>10

\* Segmentation speaks of texts in the words of EncodedText.
LEMMA SameWords ==
  ASSUME NEW t, NEW a, NEW c, NEW p
  PROVE  /\ S!Inside(t, c) <=> Inside(t, c)
         /\ S!HardBreak(t, c) <=> HardBreak(t, c)
         /\ S!WithinCRLF(t, c) <=> WithinCRLF(t, c)
         /\ S!StartsWith(t, c, p) <=> StartsWith(t, c, p)
         /\ S!Decodable(t, c) <=> Decodable(t, c)
         /\ S!CutShort(t, a, c) <=> CutShort(t, a, c)
         /\ S!Hard = Hard
         /\ S!breakMandatory = breakMandatory
         /\ S!breakOpportunity = breakOpportunity
         /\ S!BreakKind = BreakKind
  <1>1. /\ S!Hard = Hard
        /\ S!breakMandatory = breakMandatory
        /\ S!breakOpportunity = breakOpportunity
    BY DEF S!Hard, Hard, S!breakMandatory, breakMandatory,
           S!breakOpportunity, breakOpportunity
  <1>2. S!BreakKind = BreakKind
    BY <1>1 DEF S!BreakKind, BreakKind
  <1>3. ASSUME NEW i PROVE S!Complete(t, i) <=> Complete(t, i)
    BY DEF S!Complete, Complete
  <1>4. S!Inside(t, c) <=> Inside(t, c)
    BY <1>3 DEF S!Inside, Inside
  <1>5. ASSUME NEW q PROVE S!EndsWith(t, c, q) <=> EndsWith(t, c, q)
    BY <1>3 DEF S!EndsWith, EndsWith
  <1>6. ASSUME NEW q PROVE S!StartsWith(t, c, q) <=> StartsWith(t, c, q)
    BY <1>3 DEF S!StartsWith, StartsWith, S!Is, Is
  <1>7. S!WithinCRLF(t, c) <=> WithinCRLF(t, c)
    BY <1>5, <1>6 DEF S!WithinCRLF, WithinCRLF
  <1>8. S!HardBreak(t, c) <=> HardBreak(t, c)
    BY <1>1, <1>5, <1>7 DEF S!HardBreak, HardBreak
  <1>9. S!Decodable(t, c) <=> Decodable(t, c)
    BY <1>3 DEF S!Decodable, Decodable
  <1>10. S!CutShort(t, a, c) <=> CutShort(t, a, c)
    BY DEF S!CutShort, CutShort
  <1>. QED BY <1>1, <1>2, <1>4, <1>6, <1>7, <1>8, <1>9, <1>10

\* What Segmentation asks of a cut, in the words of EncodedText.
LEMMA LineEndMeans ==
  ASSUME NEW t, NEW from, NEW at, NEW k
  PROVE  S!LineEnd(t, from, at, k)
           <=> /\ at \in from + 1 .. Len(t)
               /\ ~Inside(t, at)
               /\ ~WithinCRLF(t, at)
               /\ k = breakMandatory <=> (at = Len(t) \/ HardBreak(t, at))
               /\ k = breakOpportunity => ~StartsWith(t, at, Hard \cup {"SP", "ZW"})
  BY SameWords DEF S!LineEnd

\* What it asks of the places before a cut.
LEMMA NoneMissedMeans ==
  ASSUME NEW t, NEW from, NEW at
  PROVE  S!NoneMissed(t, from, at)
           <=> \A c \in from + 1 .. at - 1 :
                 HardBreak(t, c) => /\ at = Len(t)
                                    /\ ~Decodable(t, from) \/ CutShort(t, from, c)
  BY SameWords DEF S!NoneMissed

\* The end of the text ends any line.
LEMMA TextEndsLine ==
  ASSUME NEW t \in Seq(Byte), NEW from \in 0 .. Len(t) - 1
  PROVE  S!LineEnd(t, from, Len(t), breakMandatory)
  <1>1. ~Inside(t, Len(t)) /\ ~Complete(t, Len(t))
    BY ByteFields DEF Inside, Complete
  <1>2. ~WithinCRLF(t, Len(t))
    BY <1>1 DEF WithinCRLF, StartsWith
  <1>3. breakMandatory # breakOpportunity
    BY DEF breakMandatory, breakOpportunity
  <1>. QED BY <1>1, <1>2, <1>3, LineEndMeans

\* A step of the call leaves the driver's part of the invariant alone.
LEMMA ScanKeepsSlice ==
  ASSUME LinesInv, UNCHANGED <<text, start, offsets, outcome>>
  PROVE  SliceInv' /\ HonouredSoFar' /\ NoInvalidAdvance'
  BY DEF LinesInv, SliceInv, HonouredSoFar, NoInvalidAdvance, S!Frontier

\* The scan invariant holds after the first character of a slice.
LEMMA FirstKeepsScanInv ==
  ASSUME TypeOK, TypeOK', LinesInv, CallFirst
  PROVE  ScanInv'
  <1> DEFINE w == lookup(text, start).sz
  <1>1. /\ start \in 0 .. Len(text) - 1
        /\ pos' = w /\ w \in 1 .. 4
        /\ ~Inside(text, start)
        /\ text \in Seq(Byte)
    BY LookedFirst, LookupStep DEF CallFirst, LinesInv, SliceInv, TypeOK
  <1>2. ASSUME NEW h \in Hard
        PROVE  /\ h \in current' <=> h \in lookup(text, start).v
               /\ h \in current' => current' = {h}
    <2>1. /\ h \in lookup(text, start).v
                <=> (Complete(text, start) /\ text[start + 1].prop = {h})
          /\ h \in lookupProperty(text, start).v <=> h \in lookup(text, start).v
      BY <1>1, LookupHard DEF CallFirst
    <2>2. Complete(text, start) => lookup(text, start).v = text[start + 1].prop
      BY <1>1, LookupStep
    <2>3. lookup(text, start).v # {} =>
            lookupProperty(text, start).v = lookup(text, start).v
      BY <1>1, LookupPropertyStep DEF CallFirst
    <2>. QED BY <2>1, <2>2, <2>3 DEF CallFirst
  <1>3. \A c \in start + 1 .. start : ~HardBreak(text, c)
    BY <1>1
  <1>4. text' = text /\ start' = start /\ pos' \in Nat
    BY <1>1 DEF CallFirst
  <1>. QED BY <1>1, <1>2, <1>3, <1>4, ScanForward

\* It holds when the rules join one more character.
LEMMA ContinueKeepsScanInv ==
  ASSUME TypeOK, TypeOK', LinesInv, Continue
  PROVE  ScanInv'
  <1> DEFINE i == start + pos
  <1>1. /\ i \in 0 .. Len(text) - 1 /\ text \in Seq(Byte)
        /\ width \in 1 .. 4 /\ pos' = pos + width
        /\ start \in Nat /\ pos \in Nat
    BY Looked DEF Continue, TypeOK
  <1>2. ScanInv /\ pc = "scan"
    BY DEF LinesInv, Continue
  <1>3. /\ \A h \in Hard : h \in following <=> h \in lookup(text, i).v
        /\ verdict = breakMandatory <=> HardBreak(text, i)
    BY <1>1, <1>2, AtBoundary DEF Continue
  <1>4. verdict # breakMandatory
    BY DEF Continue, join, breakMandatory
  <1>5. ASSUME NEW c \in start + 1 .. i PROVE ~HardBreak(text, c)
    <2>1. CASE c = i
      BY <1>3, <1>4, <2>1
    <2>2. CASE c # i
      <3>1. c \in start + 1 .. start + pos - 1
        BY <1>1, <2>2
      <3>. QED BY <1>2, <3>1 DEF ScanInv
    <2>. QED BY <2>1, <2>2
  <1>6. ASSUME NEW h \in Hard
        PROVE  /\ h \in current' <=> h \in lookup(text, i).v
               /\ h \in current' => current' = {h}
    <2>1. /\ h \in current' <=> h \in following
          /\ h \in following => current' = following
      BY SettledHard DEF Continue
    <2>2. h \in lookup(text, i).v => lookup(text, i).v = {h}
      <3>1. h \in lookup(text, i).v
              <=> (Complete(text, i) /\ text[i + 1].prop = {h})
        BY <1>1, LookupHard
      <3>2. Complete(text, i) => lookup(text, i).v = text[i + 1].prop
        BY <1>1, LookupStep
      <3>. QED BY <3>1, <3>2
    <2>3. h \in lookup(text, i).v => following = lookup(text, i).v
      BY DEF following
    <2>. QED BY <1>3, <2>1, <2>2, <2>3
  <1>7. ~Inside(text, i) /\ start <= i /\ lookup(text, i).sz > 0
    BY <1>1, <1>2 DEF ScanInv, width
  <1>8. /\ text' = text /\ start' = start /\ pos' \in Nat
        /\ start + pos' = i + lookup(text, i).sz
    BY <1>1 DEF Continue, width
  <1>. QED BY <1>1, <1>5, <1>6, <1>7, <1>8, ScanForward

\* What each way of returning returns.
LEMMA ReturnsCut ==
  ASSUME TypeOK, LinesInv, outcome = "running",
         CallUndecodable \/ EndOfText \/ Truncated \/ Break
  PROVE  ReturnInv'
  <1> USE DEF Return
  <1>1. /\ start \in 0 .. Len(text) - 1 /\ ~Inside(text, start)
        /\ text \in Seq(Byte) /\ Size \in 1 .. Len(text)
        /\ start + Size = Len(text) /\ ScanInv
    BY SizeType DEF LinesInv, SliceInv, TypeOK
  <1>2. text' = text /\ start' = start
    BY DEF CallUndecodable, EndOfText, Truncated, Break
  <1>3. SUFFICES /\ S!LineEnd(text, start, start + advance', kind')
                 /\ DefinedType \/ S!NoneMissed(text, start, start + advance')
    BY <1>2 DEF ReturnInv
  <1>4. ASSUME advance' = Size, kind' = breakMandatory
        PROVE  S!LineEnd(text, start, start + advance', kind')
    BY <1>1, <1>4, TextEndsLine
  <1>5. CASE CallUndecodable
    <2>1. DefinedType \/ ~Decodable(text, start)
      BY <1>1, <1>5, LookupPropertyStep DEF CallUndecodable
    <2>. QED BY <1>1, <1>4, <1>5, <2>1, NoneMissedMeans DEF CallUndecodable
  <1>6. CASE EndOfText
    <2>1. \A c \in start + 1 .. start + pos - 1 : ~HardBreak(text, c)
      BY <1>1, <1>6 DEF EndOfText, ScanInv
    <2>. QED BY <1>1, <1>4, <1>6, <2>1, NoneMissedMeans DEF EndOfText
  <1>7. CASE Truncated
    <2>1. start + pos \in 0 .. Len(text) - 1 /\ width = 0
      BY <1>7, Looked DEF Truncated
    <2>2. start + pos + text[start + pos + 1].len > Len(text)
      BY <1>1, <2>1, LookupStep DEF width
    <2>3. ASSUME NEW c \in start + 1 .. Len(text) - 1, HardBreak(text, c)
          PROVE  CutShort(text, start, c)
      <3>1. pos \in Nat /\ start \in Nat
        BY DEF TypeOK
      <3>2. ~(c <= start + pos - 1)
        BY <1>1, <1>7, <2>3, <3>1 DEF Truncated, ScanInv
      <3>3. start + pos \in start .. c
        BY <2>1, <3>1, <3>2
      <3>. QED BY <2>2, <3>3 DEF CutShort
    <2>. QED BY <1>1, <1>4, <1>7, <2>3, NoneMissedMeans DEF Truncated
  <1>8. CASE Break
    <2>1. /\ start + pos \in start + 1 .. Len(text) - 1
          /\ ~Inside(text, start + pos)
          /\ \A c \in start + 1 .. start + pos - 1 : ~HardBreak(text, c)
      BY <1>1, <1>8 DEF Break, ScanInv, TypeOK, Size
    <2>2. /\ verdict = breakMandatory <=> HardBreak(text, start + pos)
          /\ WithinCRLF(text, start + pos) => verdict = join
          /\ verdict = breakOpportunity =>
               ~StartsWith(text, start + pos, Hard \cup {"SP", "ZW"})
      BY <1>1, <1>8, AtBoundary DEF Break
    <2>3. advance' = pos /\ kind' = verdict /\ verdict # join
      BY <1>8 DEF Break, BreakKind, join, breakMandatory, breakOpportunity
    <2>4. PICK at : at = start + pos
      OBVIOUS
    <2>5. /\ at \in start + 1 .. Len(text) - 1
          /\ \A c \in start + 1 .. at - 1 : ~HardBreak(text, c)
      BY <1>1, <1>8, <2>1, <2>4 DEF TypeOK
    <2>6. at \in start + 1 .. Len(text) /\ at # Len(text)
      BY <1>1, <2>5
    <2>7. S!LineEnd(text, start, at, verdict)
      BY <2>1, <2>2, <2>3, <2>4, <2>6, LineEndMeans
    <2>8. S!NoneMissed(text, start, at)
      BY <2>5, NoneMissedMeans
    <2>. QED BY <2>3, <2>4, <2>7, <2>8
  <1>. QED BY <1>5, <1>6, <1>7, <1>8

\* What Collect does, given that the call has returned a cut.
LEMMA Collected ==
  ASSUME TypeOK, LinesInv, Collect
  PROVE  /\ start + advance \in start + 1 .. Len(text)
         /\ S!LineEnd(text, start, start + advance, kind)
         /\ DefinedType \/ S!NoneMissed(text, start, start + advance)
         /\ offsets' = Append(offsets, start + advance)
         /\ kinds' = Append(kinds, kind)
         /\ start' = start + advance
         /\ outcome' = IF start + advance = Len(text) THEN "done" ELSE "running"
         /\ text' = text /\ pc' = "call"
  <1>1. /\ S!LineEnd(text, start, start + advance, kind)
        /\ DefinedType \/ S!NoneMissed(text, start, start + advance)
    BY DEF LinesInv, ReturnInv, Collect
  <1>2. start + advance \in start + 1 .. Len(text)
    BY <1>1, LineEndMeans
  <1>3. /\ advance \in 1 .. Size
        /\ advance = Size <=> start + advance = Len(text)
    BY <1>2, SizeType DEF TypeOK
  <1>. QED BY <1>1, <1>2, <1>3 DEF Collect

\* The invariant holds when the driver has moved the slice.
LEMMA CollectKeepsInv ==
  ASSUME TypeOK, TypeOK', LinesInv, Collect
  PROVE  LinesInv'
  <1> DEFINE at == start + advance
  <1>1. /\ at \in start + 1 .. Len(text) /\ start \in 0 .. Len(text)
        /\ ~Inside(text, at) /\ ~Inside(text, start)
        /\ text \in Seq(Byte) /\ offsets \in Seq(Nat)
        /\ offsets' = Append(offsets, at) /\ start' = at /\ text' = text
        /\ outcome' = IF at = Len(text) THEN "done" ELSE "running"
        /\ pc' = "call"
    BY Collected, LineEndMeans DEF LinesInv, SliceInv, TypeOK
  <1>2. SliceInv'
    <2>1. offsets' # <<>> /\ offsets'[Len(offsets')] = at
      BY <1>1
    <2>2. S!Frontier' = at
      BY <2>1 DEF S!Frontier
    <2>3. at \in Nat /\ Len(text) \in Nat /\ at <= Len(text)
      BY <1>1
    <2>4. outcome' = "running" => at < Len(text)
      BY <1>1, <2>3
    <2>. QED BY <1>1, <2>2, <2>4 DEF SliceInv
  <1>3. ScanInv' /\ ReturnInv' /\ NoInvalidAdvance'
    BY <1>1 DEF ScanInv, ReturnInv, NoInvalidAdvance
  <1>4. HonouredSoFar'
    <2> SUFFICES ASSUME WellFormed(text), ~DefinedType,
                        NEW c \in 1 .. at, HardBreak(text, c)
                 PROVE  \E n \in DOMAIN offsets' : offsets'[n] = c
      BY <1>1 DEF HonouredSoFar
    <2>1. CASE c <= start
      <3>1. PICK n \in DOMAIN offsets : offsets[n] = c
        BY <1>1, <2>1 DEF LinesInv, HonouredSoFar
      <3>2. n \in DOMAIN offsets' /\ offsets'[n] = offsets[n]
        BY <1>1, <3>1
      <3>. QED BY <3>1, <3>2
    <2>2. CASE c = at
      <3>1. /\ Len(offsets') \in DOMAIN offsets'
            /\ offsets'[Len(offsets')] = at
        BY <1>1
      <3>. QED BY <2>2, <3>1
    <2>3. CASE c > start /\ c < at
      <3>1. c \in start + 1 .. at - 1
        BY <1>1, <2>3
      <3>2. at = Len(text) /\ (~Decodable(text, start) \/ CutShort(text, start, c))
        BY <3>1, Collected, NoneMissedMeans
      <3>3. start \in 0 .. Len(text) - 1
        BY <1>1
      <3>. QED BY <1>1, <3>2, <3>3, WellFormedDecodes
    <2>. QED BY <1>1, <2>1, <2>2, <2>3
  <1>. QED BY <1>2, <1>3, <1>4 DEF LinesInv

-----------------------------------------------------------------------------
(* The theorems.                                                           *)

\* The invariant holds in every run of breaks.
THEOREM LinesCorrect == BreaksSpec => []LinesInv
  <1>1. BreaksInit => LinesInv
    <2> SUFFICES ASSUME BreaksInit PROVE LinesInv
      OBVIOUS
    <2>1. text \in Seq(Byte) /\ Len(text) \in Nat
      BY TextsAssumption DEF BreaksInit, Init
    <2>2. SliceInv
      <3>1. ~Inside(text, 0)
        BY DEF Inside
      <3>2. text = <<>> <=> Len(text) = 0
        BY <2>1
      <3>. QED BY <2>1, <3>1, <3>2 DEF SliceInv, S!Frontier, BreaksInit, Init
    <2>. QED BY <2>2 DEF BreaksInit, Init, LinesInv, ScanInv, ReturnInv,
                        HonouredSoFar, NoInvalidAdvance
  <1>2. TypeOK /\ TypeOK' /\ LinesInv /\ [BreaksNext]_vars => LinesInv'
    <2> SUFFICES ASSUME TypeOK, TypeOK', LinesInv, [BreaksNext]_vars
                 PROVE  LinesInv'
      OBVIOUS
    <2>1. ASSUME Scan PROVE LinesInv'
      <3>1. outcome = "running" /\ UNCHANGED <<text, start, offsets, outcome>>
        BY <2>1 DEF Scan, Step, Return, CallEmpty, CallUndecodable, CallFirst,
                    EndOfText, Truncated, Continue, Break
      <3>2. SliceInv' /\ HonouredSoFar' /\ NoInvalidAdvance'
        BY <3>1, ScanKeepsSlice
      <3>3. CASE CallEmpty
        BY <3>1, <3>3 DEF CallEmpty, LinesInv, SliceInv, Size, TypeOK
      <3>4. CASE CallFirst
        <4>1. ScanInv' /\ ReturnInv'
          BY <3>4, FirstKeepsScanInv DEF CallFirst, ReturnInv
        <4>. QED BY <3>2, <4>1 DEF LinesInv
      <3>5. CASE Continue
        <4>1. ScanInv' /\ ReturnInv'
          BY <3>5, ContinueKeepsScanInv DEF Continue, ReturnInv
        <4>. QED BY <3>2, <4>1 DEF LinesInv
      <3>6. CASE CallUndecodable \/ EndOfText \/ Truncated \/ Break
        <4>1. ReturnInv' /\ pc' = "ret"
          BY <3>1, <3>6, ReturnsCut
             DEF CallUndecodable, EndOfText, Truncated, Break, Return
        <4>. QED BY <3>2, <4>1 DEF LinesInv, ScanInv
      <3>. QED BY <2>1, <3>3, <3>4, <3>5, <3>6 DEF Scan, Step
    <2>2. ASSUME Collect PROVE LinesInv'
      BY <2>2, CollectKeepsInv
    <2>3. ASSUME UNCHANGED vars PROVE LinesInv'
      BY <2>3 DEF vars, LinesInv, SliceInv, ScanInv, ReturnInv, HonouredSoFar,
                  NoInvalidAdvance, S!Frontier, Size
    <2>. QED BY <2>1, <2>2, <2>3 DEF BreaksNext, Finished
  <1>. QED BY <1>1, <1>2, TypeCorrect, PTL DEF BreaksSpec

\* breaks never reports "invalid advance": a call on what is left of a text
\* always moves forward, and never beyond it.
THEOREM AlwaysAdvances == BreaksSpec => []NoInvalidAdvance
  <1>1. LinesInv => NoInvalidAdvance
    BY DEF LinesInv
  <1>. QED BY <1>1, LinesCorrect, PTL

\* Given a string or a []byte, NextBreak never misses a hard break of a text
\* that is valid UTF-8.
THEOREM NoHardBreakMissed ==
  ASSUME ~DefinedType
  PROVE  BreaksSpec => []HardBreaksHonoured
  <1>1. LinesInv => HardBreaksHonoured
    BY DEF LinesInv, SliceInv, HonouredSoFar, HardBreaksHonoured
  <1>. QED BY <1>1, LinesCorrect, PTL

\* Given a string or a []byte, every step of breaks cuts the text as
\* Segmentation allows, or cuts nothing.
THEOREM RefinesSegmentation ==
  ASSUME ~DefinedType
  PROVE  BreaksSpec => S!SegSafety
  <1>1. BreaksInit => S!SegInit
    BY DEF BreaksInit, Init, S!SegInit
  <1>2. TypeOK /\ LinesInv /\ [BreaksNext]_vars => [S!Cut]_S!segVars
    <2> SUFFICES ASSUME TypeOK, LinesInv, [BreaksNext]_vars
                 PROVE  [S!Cut]_S!segVars
      OBVIOUS
    <2>1. ASSUME Scan PROVE UNCHANGED S!segVars
      BY <2>1 DEF Scan, Step, Return, CallEmpty, CallUndecodable, CallFirst,
                  EndOfText, Truncated, Continue, Break, S!segVars
    <2>2. ASSUME Collect PROVE S!Cut
      <3> DEFINE at == start + advance
      <3>1. at \in 1 .. Len(text) /\ start = S!Frontier
        BY <2>2, Collected DEF LinesInv, SliceInv, TypeOK
      <3>2. kind \in S!BreakKind
        BY SameWords DEF TypeOK
      <3>3. /\ S!LineEnd(text, S!Frontier, at, kind)
            /\ S!NoneMissed(text, S!Frontier, at)
            /\ offsets' = Append(offsets, at)
            /\ kinds' = Append(kinds, kind)
            /\ outcome' = IF at = Len(text) THEN "done" ELSE "running"
            /\ text' = text
        BY <2>2, <3>1, Collected
      <3>. QED BY <2>2, <3>1, <3>2, <3>3 DEF S!Cut, Collect
    <2>3. ASSUME UNCHANGED vars PROVE UNCHANGED S!segVars
      BY <2>3 DEF vars, S!segVars
    <2>. QED BY <2>1, <2>2, <2>3 DEF BreaksNext, Finished
  <1>. QED BY <1>1, <1>2, TypeCorrect, LinesCorrect, PTL DEF BreaksSpec, S!SegSafety
=============================================================================
