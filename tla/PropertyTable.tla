--------------------------- MODULE PropertyTable ---------------------------
(***************************************************************************)
(* The part of the generator (internal/gen/main.go) that turns the records *)
(* of the Unicode files into the property of each code point: the select   *)
(* functions, resolveLineBreakClasses and the merge in generateTrieSource. *)
(*                                                                         *)
(* A file is the set of its records: the bits of a code point are or-ed    *)
(* together, so their order plays no part.  A bit 1 << i is the class it   *)
(* stands for; that they are distinct needs at most 64 classes (there are  *)
(* 49).                                                                    *)
(***************************************************************************)
EXTENDS LineBreakClasses, Integers

CONSTANTS
  Surrogates,     \* 0xD800 to 0xDFFF: code points without an encoding
  DottedCircle,   \* 0x25CC
  ExtPictRanges   \* where unassigned code points are Extended_Pictographic

ASSUME TableAssumption ==
  /\ Surrogates \subseteq Nat
  /\ DottedCircle \in Nat \ Surrogates
  /\ ExtPictRanges \subseteq [lo: Nat, hi: Nat]

Record == [lo: Nat, hi: Nat, class: STRING]
Points(rec) == rec.lo .. rec.hi
PointsOf(records, classes) ==
  UNION {Points(rec) : rec \in {q \in records : q.class \in classes}}

\* The records of the classes that `to` knows, under its names for them.
Renamed(records, to) ==
  { [rec EXCEPT !.class = to[@]] :
      rec \in {q \in records : q.class \in DOMAIN to} }

selectQuoteCategoryRecords(records) ==
  Renamed(records, [Pi |-> "PI", Pf |-> "PF"])

selectEastAsianRecords(records) ==
  Renamed(records, [F |-> "EA", W |-> "EA", H |-> "EA"])

selectCombiningMarks(records) == PointsOf(records, {"Mn", "Mc"})

\* The unassigned code points, cut down to the ranges.
selectExtendedPictographicUnassignedRecords(records) ==
  LET max(a, b) == IF a > b THEN a ELSE b
      min(a, b) == IF a < b THEN a ELSE b
      cut(rec, range) == [ lo    |-> max(rec.lo, range.lo),
                           hi    |-> min(rec.hi, range.hi),
                           class |-> "EPU" ]
  IN  { c \in { cut(rec, range) : rec \in {q \in records : q.class = "Cn"},
                                  range \in ExtPictRanges } : c.lo <= c.hi }

\* LB1: AI, SG and XX become AL, CJ becomes NS, and each code point of SA
\* becomes CM if it is a mark and AL if not.
resolveLineBreakClasses(records, marks) ==
  {rec \in records : rec.class \notin {"AI", "SG", "XX", "CJ", "SA"}}
  \cup Renamed(records, [AI |-> "AL", SG |-> "AL", XX |-> "AL", CJ |-> "NS"])
  \cup { [lo |-> r, hi |-> r, class |-> IF r \in marks THEN "CM" ELSE "AL"] :
           r \in PointsOf(records, {"SA"}) }

-----------------------------------------------------------------------------
(* generateTrieSource.                                                     *)

\* The records of LineBreak.txt (lb), DerivedGeneralCategory.txt (gc) and
\* EastAsianWidth.txt (ea) together.
allRecords(lb, gc, ea) ==
  resolveLineBreakClasses(lb, selectCombiningMarks(gc))
  \cup selectQuoteCategoryRecords(gc)
  \cup selectEastAsianRecords(ea)
  \cup selectExtendedPictographicUnassignedRecords(gc)
  \cup {[lo |-> DottedCircle, hi |-> DottedCircle, class |-> "DC"]}

uniqueClasses(records) == {rec.class : rec \in records}

\* Mutant: the surrogates are not skipped.
Mutant_Merged(records) ==
  [ r \in PointsOf(records, uniqueClasses(records)) |->
      {rec.class : rec \in {q \in records : r \in Points(q)}} ]

\* The bits of every code point that some record has, surrogates skipped.
Merged(records) ==
  [ r \in PointsOf(records, uniqueClasses(records)) \ Surrogates |->
      {rec.class : rec \in {q \in records : r \in Points(q)}} ]

\* Mutant: only values without any bit get AL.
Mutant_Defaulted(values, classes) ==
  [ r \in DOMAIN values |->
      IF values[r] = {} THEN {"AL"} \cap classes ELSE values[r] ]

\* Entries that have annotation bits only get AL.  The map yields 0 for a class
\* that no record has.
Defaulted(values, classes) ==
  [ r \in DOMAIN values |->
      IF values[r] \ annotationMask = {}
      THEN values[r] \cup ({"AL"} \cap classes)
      ELSE values[r] ]

\* The values that are put into the trie.
runeValues(lb, gc, ea) ==
  LET all == allRecords(lb, gc, ea)
  IN  Defaulted(Merged(all), uniqueClasses(all))
=============================================================================
