---------------------------- MODULE UnicodeFiles ----------------------------
(***************************************************************************)
(* The parsers of the generator (internal/gen/main.go): the files of the   *)
(* Unicode Character Database, which are lists of code point ranges with a *)
(* class, and the file of the conformance cases.                           *)
(*                                                                         *)
(* A file is a sequence of lines.  A line is cut up already:               *)
(*   of a data file    [kind, left, right]: kind is "skip" (blank or       *)
(*                     comment), "bare" (no semicolon) or "entry"; left is *)
(*                     the sequence of the numbers around "..", right the  *)
(*                     class, or "";                                       *)
(*   of the test file  the sequence of its fields, comment left out.       *)
(* A number is what ParseUint makes of the digits, or NotHex.              *)
(***************************************************************************)
EXTENDS Integers, Sequences, SequencesExt

NotHex == -1
MaxRune == 1114111
IsSurrogate(r) == r \in 55296 .. 57343

\* parseHexRune, parseRange: do they return without an error?
ValidHexRune(u) == 0 <= u /\ u <= MaxRune

ValidRange(left) ==
  /\ Len(left) \in {1, 2}
  /\ \A k \in DOMAIN left : ValidHexRune(left[k])
  /\ left[1] <= left[Len(left)]

\* An entry that parseLineBreak takes.
ValidEntry(line) ==
  /\ line.kind = "entry"
  /\ line.left # <<>>
  /\ line.right # ""
  /\ ValidRange(line.left)

\* Mutant: lines that are malformed are skipped.
Mutant_parseLineBreak(lines) ==
  [ ok      |-> TRUE,
    records |-> { [lo |-> l.left[1], hi |-> l.left[Len(l.left)],
                   class |-> l.right] :
                    l \in {m \in ToSet(lines) : ValidEntry(m)} } ]

\* The records, whose order plays no part in what is done with them; or an error,
\* if one line has one.
parseLineBreak(lines) ==
  LET entries == {l \in ToSet(lines) : l.kind # "skip"}
      record(l) == [lo |-> l.left[1], hi |-> l.left[Len(l.left)],
                    class |-> l.right]
  IN  IF \A l \in entries : ValidEntry(l)
      THEN [ok |-> TRUE, records |-> {record(l) : l \in entries}]
      ELSE [ok |-> FALSE, records |-> {}]

-----------------------------------------------------------------------------
(* parseLineBreakTests.  A field is [is, value] with is one of "break" (the *)
(* division sign), "join" (the multiplication sign), "hex" and "other".     *)

IsMarker(field) == field.is \in {"break", "join"}
IsRune(field) ==
  field.is = "hex" /\ ValidHexRune(field.value) /\ ~IsSurrogate(field.value)

ValidCase(fields) ==
  /\ Len(fields) >= 3
  /\ Len(fields) % 2 = 1
  /\ \A k \in DOMAIN fields :
       IF k % 2 = 1 THEN IsMarker(fields[k]) ELSE IsRune(fields[k])

\* utf8.AppendRune: the bytes that a rune adds.
RuneLen(r) ==
  IF r < 128 THEN 1 ELSE IF r < 2048 THEN 2 ELSE IF r < 65536 THEN 3 ELSE 4

\* Mutant: a break is noted at the start of its rune, not at the end.
Mutant_AppendField(tc, field) ==
  IF field.is = "hex"
  THEN [tc EXCEPT !.input = Append(@, field.value), !.size = @ + RuneLen(field.value)]
  ELSE IF field.is = "break"
  THEN [tc EXCEPT !.breakOffsets =
          Append(@, IF tc.input = <<>> THEN 0
                    ELSE tc.size - RuneLen(tc.input[Len(tc.input)]))]
  ELSE tc

\* What the loop adds to a case for a field: a rune to the input, or an offset.
AppendField(tc, field) ==
  IF field.is = "hex"
  THEN [tc EXCEPT !.input = Append(@, field.value), !.size = @ + RuneLen(field.value)]
  ELSE IF field.is = "break"
  THEN [tc EXCEPT !.breakOffsets = Append(@, tc.size)]
  ELSE tc

NoCase == [input |-> <<>>, size |-> 0, breakOffsets |-> <<>>]
Case(fields) == FoldLeft(AppendField, NoCase, fields)

\* Lines that are blank but for a comment have no fields.
parseLineBreakTests(lines) ==
  LET cases == SelectSeq(lines, LAMBDA fields : fields # <<>>)
  IN  IF \A k \in DOMAIN cases : ValidCase(cases[k])
      THEN [ok |-> TRUE, tests |-> [k \in DOMAIN cases |-> Case(cases[k])]]
      ELSE [ok |-> FALSE, tests |-> <<>>]
=============================================================================
