------------------------------ MODULE TableWalk ------------------------------
(***************************************************************************)
(* "It is recommended that users test the generated trie by checking the   *)
(* returned value for every rune" (triegen.go).  The walk visits the       *)
(* encodings in the order of the trie, one state for all that differ in    *)
(* their last byte only, and counts the blocks it has come by.             *)
(***************************************************************************)
EXTENDS GeneratedTable, TableValues

\* What the proofs and the other modules take a text for.
A == INSTANCE TrieLookup WITH DefinedType <- FALSE

VARIABLES
  prefix,        \* the bytes before the last
  valueBlocks,   \* the highest number of a value block so far
  indexBlocks    \* the highest number of an index block so far

vars == <<prefix, valueBlocks, indexBlocks>>

Init == prefix = <<>> /\ valueBlocks = 0 /\ indexBlocks = 1

First(c0) == [k \in 1 .. Width(c0) - 1 |-> IF k = 1 THEN c0 ELSE 128]

\* The next prefix: count in the last place that is not at its end.
Successor(p) ==
  IF p = <<>> THEN First(194)
  ELSE LET k == Max({1} \cup {j \in 2 .. Len(p) : p[j] < 191})
       IN  IF k = 1 THEN First(p[1] + 1)
           ELSE [j \in 1 .. Len(p) |-> CASE j < k -> p[j]
                                         [] j = k -> p[j] + 1
                                         [] j > k -> 128]

\* The nodes of which this prefix is the last one, the lowest first, by number.
Closed(p) ==
  LET last(k) == \A j \in k + 1 .. Len(p) : p[j] = 191
      up == SelectSeq([k \in 1 .. Len(p) - 1 |-> Len(p) - k], last)
  IN  [k \in DOMAIN up |-> Block(SubSeq(p, 1, up[k]))]

ValueBlocks == IF prefix = <<>> THEN <<>> ELSE <<Block(prefix)>>
IndexBlocks == Closed(prefix)

Highest(blocks, h) == Max({h} \cup Range(blocks))

Visit ==
  /\ prefix = <<>> \/ prefix # <<247, 191, 191>>
  /\ prefix' = Successor(prefix)
  /\ valueBlocks' = Highest(ValueBlocks, valueBlocks)
  /\ indexBlocks' = Highest(IndexBlocks, indexBlocks)

Walked == prefix = <<247, 191, 191>>
Done == Walked /\ UNCHANGED vars

Next == Visit \/ Done

Spec == Init /\ [][Next]_vars

-----------------------------------------------------------------------------
(* Decoding.                                                               *)

\* The code point of a whole encoding.
CodePoint(s) ==
  LET lead == CASE Len(s) = 1 -> s[1]
                [] Len(s) = 2 -> s[1] - 192
                [] Len(s) = 3 -> s[1] - 224
                [] Len(s) = 4 -> s[1] - 240
  IN  FoldLeft(LAMBDA r, c : r * 64 + (c - 128), lead, Tail(s))

\* Not overlong, no surrogate, not beyond U+10FFFF.
Scalar(s) ==
  LET r == CodePoint(s)
  IN  CASE Len(s) < 3 -> TRUE
        [] Len(s) = 3 -> r >= 2048 /\ r \notin 55296 .. 57343
        [] Len(s) = 4 -> r >= 65536 /\ r <= 1114111

\* The encodings that a visit to a prefix is about, with the values they have,
Encodings ==
  IF prefix = <<>> THEN {<<a>> : a \in 0 .. 127}
  ELSE {Append(prefix, c) : c \in Cont}

value(s) ==
  IF prefix = <<>> THEN lookup(s).v ELSE lookupValue(ValueBlocks[1], s[Len(s)])

\* and sequences of bytes that end early, or hold one or two bad bytes.
Malformed ==
  IF prefix = <<>> THEN {<<a>> : a \in 128 .. 255}
  ELSE LET s == Append(prefix, 128)
       IN  {SubSeq(s, 1, k) : k \in 1 .. Len(prefix)}
           \cup {[s EXCEPT ![j] = 127, ![k] = 192] : j, k \in 2 .. Len(s)}

\* A sequence of bytes as a text of the module EncodedText.
Whole(s) == Width(s[1]) = Len(s) /\ Broken(s) = {}
AsText(s) ==
  [ k \in DOMAIN s |->
      [ len    |-> Width(s[k]),
        cont   |-> s[k] \in Cont,
        prop   |-> IF k = 1 /\ Whole(s) THEN value(s) ELSE {},
        scalar |-> k = 1 /\ Whole(s) /\ Scalar(s) ] ]

-----------------------------------------------------------------------------
(* Properties.                                                             *)

\* What the module EncodedText assumes of the generated table, and the proofs
\* with it: every ASCII byte has a value; overlong forms, surrogates and what is
\* beyond U+10FFFF have none; and how classes are combined.  And the values are
\* those of the conformance texts.
TableAsAssumed ==
  \A s \in Encodings : /\ AsText(s)[1] \in A!Byte
                       /\ value(s) \in AllValues \cup MarkValues

\* lookup over the two arrays gives the values and widths that TrieLookup says,
\* on whole encodings and on broken ones.
LookupAsModelled ==
  LET whole == IF prefix = <<>> THEN Encodings ELSE {Append(prefix, 165)}
  IN  \A s \in whole \cup Malformed : lookup(s) = A!lookup(AsText(s), 0)

\* docs/phase2.md: "Keep generated artifacts deterministic".  The blocks are
\* numbered in the order in which the walk meets them, none is twice in an
\* array, and none is there for nothing: this is the layout that computeOffsets
\* gives to these values, whatever the order of insertion.
LaidOutInOrder ==
  LET inOrder(blocks, h) ==
        \A k \in DOMAIN blocks :
          blocks[k] <= 1 + Max({h} \cup {blocks[j] : j \in 1 .. k - 1})
      number(array) == Cardinality(DOMAIN array) \div 64
      content(array, n) == [s \in 0 .. 63 |-> array[n * 64 + s]]
      distinct(array) ==
        Cardinality({content(array, n) : n \in 3 .. number(array) - 1})
          = number(array) - 3
  IN  /\ inOrder(ValueBlocks, valueBlocks)
      /\ inOrder(IndexBlocks, indexBlocks)
      /\ Walked => /\ Highest(ValueBlocks, valueBlocks) = number(lineBreakValues) - 3
                   /\ Highest(IndexBlocks, indexBlocks) = number(lineBreakIndex) - 3
                   /\ distinct(lineBreakValues)
                   /\ distinct(lineBreakIndex)

\* The classes that one character has, or a handful, and the characters.
Few ==
  10 :> "LF" @@ 11 :> "BK" @@ 12 :> "BK" @@ 13 :> "CR" @@ 32 :> "SP"
  @@ 45 :> "HY" @@ 47 :> "SY" @@ 133 :> "NL" @@ 8203 :> "ZW" @@ 8205 :> "ZWJ"
  @@ 8232 :> "BK" @@ 8233 :> "BK" @@ 9676 :> "DC"
SoleClasses == Range(Few) \cup {"RI", "H2", "H3"}

Sole(r) ==
  IF r \in DOMAIN Few THEN {Few[r]}
  ELSE IF r \in 127462 .. 127487 THEN {"RI"}
  ELSE IF r \in 44032 .. 55203
  THEN {IF (r - 44032) % 28 = 0 THEN "H2" ELSE "H3"}
  ELSE {}

\* lookup_test.go, for every code point instead of one of each class: the rules
\* that single a character out (line ends, spaces, the dotted circle, regional
\* indicators, Hangul syllables of two and of three letters) see that one only.
SoleCharacters ==
  \A s \in Encodings :
    value(s) \cap SoleClasses = IF Scalar(s) THEN Sole(CodePoint(s)) ELSE {}
=============================================================================
