------------------------ MODULE TableGeneratorProofs ------------------------
(***************************************************************************)
(* What the generator of the table does for every set of files: what the   *)
(* merge computes, that Insert never fails on it, that nodes and blocks    *)
(* hold it, and that the lookup finds the class of every code point.       *)
(***************************************************************************)
EXTENDS TableGenerator, TrieBuilderProofs

-----------------------------------------------------------------------------
(* The records and the values.                                             *)

\* The records of the classes that are renamed are those of the file, but for
\* the class.
LEMMA RenamedRange ==
  ASSUME NEW recs \in SUBSET Record, NEW to, NEW rec \in Renamed(recs, to)
  PROVE  /\ rec.class \in {to[c] : c \in DOMAIN to}
         /\ \E q \in recs : Points(rec) = Points(q) /\ q.class \in DOMAIN to
  <1>1. PICK q \in {p \in recs : p.class \in DOMAIN to} :
          rec = [q EXCEPT !.class = to[@]]
    BY DEF Renamed
  <1>2. q \in Record
    BY <1>1
  <1>3. rec.lo = q.lo /\ rec.hi = q.hi /\ rec.class = to[q.class]
    BY <1>1, <1>2 DEF Record
  <1>. QED BY <1>1, <1>3 DEF Points

\* The classes that LB1 resolves.
Unresolved == {"AI", "SG", "XX", "CJ", "SA"}

\* No record that is merged has a class that LB1 resolves.
LEMMA Resolution ==
  ASSUME NEW lb \in SUBSET Record, NEW gc \in SUBSET Record,
         NEW ea \in SUBSET Record, NEW rec \in allRecords(lb, gc, ea)
  PROVE  rec.class \notin Unresolved
  <1>1. CASE rec \in {q \in lb : q.class \notin Unresolved}
    BY <1>1
  <1>2. CASE rec \in Renamed(lb, [AI |-> "AL", SG |-> "AL", XX |-> "AL", CJ |-> "NS"])
    BY <1>2, RenamedRange DEF Unresolved
  <1>3. CASE rec \in { [lo |-> r, hi |-> r,
                        class |-> IF r \in selectCombiningMarks(gc) THEN "CM" ELSE "AL"] :
                         r \in PointsOf(lb, {"SA"}) }
    BY <1>3 DEF Unresolved
  <1>4. CASE rec \in selectQuoteCategoryRecords(gc)
    BY <1>4, RenamedRange DEF selectQuoteCategoryRecords, Unresolved
  <1>5. CASE rec \in selectEastAsianRecords(ea)
    BY <1>5, RenamedRange DEF selectEastAsianRecords, Unresolved
  <1>6. CASE rec \in selectExtendedPictographicUnassignedRecords(gc)
    BY <1>6 DEF selectExtendedPictographicUnassignedRecords, Unresolved
  <1>7. CASE rec \in {[lo |-> DottedCircle, hi |-> DottedCircle, class |-> "DC"]}
    BY <1>7 DEF Unresolved
  <1>. QED BY <1>1, <1>2, <1>3, <1>4, <1>5, <1>6, <1>7
           DEF allRecords, resolveLineBreakClasses, Unresolved

\* Every code point of the merge is one that has an encoding, or a surrogate.
LEMMA RecordsInRange ==
  ASSUME NEW f \in Files, NEW rec \in allRecords(f.lb, f.gc, f.ea)
  PROVE  Points(rec) \subseteq Rune \cup Surrogates
  <1>1. \A q \in f.lb \cup f.gc \cup f.ea :
          q \in Record /\ Points(q) \subseteq Rune \cup Surrogates
    BY FilesAssumption
  <1>2. /\ f.lb \in SUBSET Record /\ f.gc \in SUBSET Record
        /\ f.ea \in SUBSET Record
    BY <1>1
  <1>3. CASE rec \in f.lb
    BY <1>3, <1>1
  <1>4. CASE rec \in Renamed(f.lb, [AI |-> "AL", SG |-> "AL", XX |-> "AL", CJ |-> "NS"])
    BY <1>4, <1>1, <1>2, RenamedRange
  <1>5. CASE rec \in { [lo |-> r, hi |-> r,
                        class |-> IF r \in selectCombiningMarks(f.gc) THEN "CM" ELSE "AL"] :
                         r \in PointsOf(f.lb, {"SA"}) }
    <2>1. PICK r \in PointsOf(f.lb, {"SA"}) : rec.lo = r /\ rec.hi = r
      BY <1>5
    <2>2. PICK q \in f.lb : r \in Points(q)
      BY <2>1 DEF PointsOf
    <2>3. Points(rec) = {r}
      BY <2>1, <2>2, <1>2 DEF Points, Record
    <2>. QED BY <2>2, <2>3, <1>1
  <1>6. CASE rec \in selectQuoteCategoryRecords(f.gc)
    BY <1>6, <1>1, <1>2, RenamedRange DEF selectQuoteCategoryRecords
  <1>7. CASE rec \in selectEastAsianRecords(f.ea)
    BY <1>7, <1>1, <1>2, RenamedRange DEF selectEastAsianRecords
  <1>8. CASE rec \in selectExtendedPictographicUnassignedRecords(f.gc)
    <2>. DEFINE max(a, b) == IF a > b THEN a ELSE b
                min(a, b) == IF a < b THEN a ELSE b
    <2>1. PICK q \in f.gc, range \in ExtPictRanges :
            rec.lo = max(q.lo, range.lo) /\ rec.hi = min(q.hi, range.hi)
      BY <1>8 DEF selectExtendedPictographicUnassignedRecords
    <2>2. q \in Record /\ range \in [lo: Nat, hi: Nat]
      BY <1>1, TableAssumption
    <2>3. Points(rec) \subseteq Points(q)
      BY <2>1, <2>2 DEF Points, Record
    <2>. QED BY <2>3, <1>1
  <1>9. CASE rec = [lo |-> DottedCircle, hi |-> DottedCircle, class |-> "DC"]
    BY <1>9, FilesAssumption, TableAssumption DEF Points
  <1>. QED BY <1>3, <1>4, <1>5, <1>6, <1>7, <1>8, <1>9
           DEF allRecords, resolveLineBreakClasses

\* The values are those of code points that have an encoding, and none has a
\* class that LB1 resolves.
LEMMA MergedRange ==
  ASSUME NEW f \in Files
  PROVE  LET v == Merged(allRecords(f.lb, f.gc, f.ea))
         IN  /\ DOMAIN v \subseteq Rune
             /\ \A r \in DOMAIN v : v[r] \cap Unresolved = {}
  <1>. DEFINE all == allRecords(f.lb, f.gc, f.ea)
  <1>1. DOMAIN Merged(all) \subseteq Rune
    <2>1. SUFFICES ASSUME NEW r \in PointsOf(all, uniqueClasses(all)) \ Surrogates
                   PROVE  r \in Rune
      BY <2>1 DEF Merged
    <2>2. PICK rec \in all : r \in Points(rec)
      BY <2>1 DEF PointsOf
    <2>. QED BY <2>1, <2>2, RecordsInRange
  <1>2. \A r \in DOMAIN Merged(all) : Merged(all)[r] \cap Unresolved = {}
    <2>1. /\ f.lb \in SUBSET Record /\ f.gc \in SUBSET Record
          /\ f.ea \in SUBSET Record
      BY FilesAssumption
    <2>2. \A rec \in all : rec.class \notin Unresolved
      BY <2>1, Resolution
    <2>. QED BY <2>2 DEF Merged
  <1>. QED BY <1>1, <1>2

\* Every class of the merge has a bit.
LEMMA MergedClasses ==
  ASSUME NEW f \in Files, NEW rec \in allRecords(f.lb, f.gc, f.ea)
  PROVE  rec.class \in Class
  <1>1. f.lb \in SUBSET Record /\ f.gc \in SUBSET Record /\ f.ea \in SUBSET Record
    BY FilesAssumption
  <1>2. CASE rec \in {q \in f.lb : q.class \notin Unresolved}
    BY <1>2, ClassesAssumption DEF Unresolved
  <1>3. CASE rec \in Renamed(f.lb, [AI |-> "AL", SG |-> "AL", XX |-> "AL", CJ |-> "NS"])
    BY <1>1, <1>3, RenamedRange DEF Class
  <1>4. CASE rec \in { [lo |-> r, hi |-> r,
                        class |-> IF r \in selectCombiningMarks(f.gc) THEN "CM" ELSE "AL"] :
                         r \in PointsOf(f.lb, {"SA"}) }
    BY <1>4 DEF Class
  <1>5. CASE rec \in selectQuoteCategoryRecords(f.gc)
    BY <1>1, <1>5, RenamedRange DEF selectQuoteCategoryRecords, Class
  <1>6. CASE rec \in selectEastAsianRecords(f.ea)
    BY <1>1, <1>6, RenamedRange DEF selectEastAsianRecords, Class
  <1>7. CASE rec \in selectExtendedPictographicUnassignedRecords(f.gc)
    BY <1>7 DEF selectExtendedPictographicUnassignedRecords, Class
  <1>8. CASE rec \in {[lo |-> DottedCircle, hi |-> DottedCircle, class |-> "DC"]}
    BY <1>8 DEF Class
  <1>. QED BY <1>2, <1>3, <1>4, <1>5, <1>6, <1>7, <1>8
           DEF allRecords, resolveLineBreakClasses, Unresolved

\* So every value is a property.
LEMMA MergedType ==
  ASSUME NEW f \in Files
  PROVE  LET v == Merged(allRecords(f.lb, f.gc, f.ea))
         IN  \A r \in DOMAIN v : v[r] \in Property
  <1>. DEFINE all == allRecords(f.lb, f.gc, f.ea)
  <1>1. \A rec \in all : rec.class \in Class
    BY MergedClasses
  <1>. QED BY <1>1 DEF Merged, Property

\* The defaults: no value is made of annotations only (given that some record has
\* AL, or its bit would be missing), and AL is all they add.
LEMMA DefaultedValue ==
  ASSUME NEW vs, NEW classes, NEW r \in DOMAIN vs
  PROVE  /\ "AL" \in classes => Defaulted(vs, classes)[r] \ annotationMask # {}
         /\ Defaulted(vs, classes)[r] \subseteq vs[r] \cup {"AL"}
  BY DEF Defaulted, annotationMask

-----------------------------------------------------------------------------
(* The walk over the map.                                                  *)

\* What the walk of the map relies on.
InsertInv ==
  /\ files \in Files
  /\ DOMAIN values \subseteq Rune
  /\ pending \subseteq DOMAIN values
  /\ phase \in {"merge", "default"} => pending = {}
  /\ LeavesOfRunes
  /\ InsertSucceeds

\* What the rules of UAX #14 rely on: none of the classes that LB1 resolves is in
\* a value, and, if the files have AL at all, none is made of annotations only.
ValuesResolved ==
  /\ \A r \in DOMAIN values : values[r] \cap Unresolved = {}
  /\ (phase \notin {"merge", "default"} /\ "AL" \in uniqueClasses(records)) =>
       \A r \in DOMAIN values : values[r] \ annotationMask # {}

\* What has been inserted is what the merged values say, and insertion succeeds.
LEMMA InsertKeepsInv == Spec => []InsertInv
  <1>1. Init => InsertInv
    BY DEF Init, TrieInit, InsertInv, InsertSucceeds, LeavesOfRunes
  <1>2. InsertInv /\ [Next]_vars => InsertInv'
    <2>. SUFFICES ASSUME InsertInv, [Next]_vars PROVE InsertInv'
      OBVIOUS
    <2>1. CASE Merge
      <3>1. DOMAIN values' \subseteq Rune
        BY <2>1, MergedRange DEF Merge, records, InsertInv
      <3>2. pending' \subseteq DOMAIN values'
        BY <2>1 DEF Merge, InsertInv
      <3>. QED BY <2>1, <3>1, <3>2
               DEF Merge, InsertInv, InsertSucceeds, LeavesOfRunes, trieVars
    <2>2. CASE Default
      <3>1. DOMAIN values' = DOMAIN values
        BY <2>2 DEF Default, Defaulted
      <3>. QED BY <2>2, <3>1
               DEF Default, InsertInv, InsertSucceeds, LeavesOfRunes, trieVars
    <2>3. CASE InsertNext
      <3>1. PICK r \in pending : /\ Insert(r, values[r])
                                 /\ pending' = pending \ {r}
        BY <2>3 DEF InsertNext
      <3>2. r \in Rune /\ LeavesOfRunes /\ fault = "none"
        BY DEF InsertInv, InsertSucceeds
      <3>3. LeavesOfRunes' /\ fault' = "none"
        <4>1. CASE values[r] = {}
          BY <3>1, <3>2, <4>1 DEF Insert, LeavesOfRunes, trieVars
        <4>2. CASE values[r] # {}
          BY <3>1, <3>2, <4>2, InsertSucceedsOnce
        <4>. QED BY <4>1, <4>2
      <3>. QED BY <2>3, <3>1, <3>3 DEF InsertNext, InsertInv, InsertSucceeds
    <2>4. CASE BuildTrie \/ Offsets \/ Printed \/ UNCHANGED vars
      BY <2>4 DEF BuildTrie, Offsets, Printed, vars, trieVars, InsertInv,
                  InsertSucceeds, LeavesOfRunes
    <2>. QED BY <2>1, <2>2, <2>3, <2>4 DEF Next
  <1>. QED BY <1>1, <1>2, PTL DEF Spec

\* Insert never meets a code point without an encoding, nor a node that is leaf
\* and inner node at once: whatever the files and the order of the map.
THEOREM InsertNeverFails == Spec => []InsertSucceeds
  <1>1. InsertInv => InsertSucceeds
    BY DEF InsertInv
  <1>. QED BY <1>1, InsertKeepsInv, PTL

\* Whatever the files, LB1 is done with in the values that go into the trie.
THEOREM LB1Applied == Spec => []ValuesResolved
  <1>1. Init => ValuesResolved
    BY DEF Init, ValuesResolved
  <1>2. InsertInv /\ ValuesResolved /\ [Next]_vars => ValuesResolved'
    <2>. SUFFICES ASSUME InsertInv, ValuesResolved, [Next]_vars
                  PROVE  ValuesResolved'
      OBVIOUS
    <2>1. CASE Merge
      <3>1. \A r \in DOMAIN values' : values'[r] \cap Unresolved = {}
        BY <2>1, MergedRange DEF Merge, records, InsertInv
      <3>. QED BY <2>1, <3>1 DEF Merge, ValuesResolved
    <2>2. CASE Default
      <3>1. values' = Defaulted(values, uniqueClasses(records))
            /\ DOMAIN values' = DOMAIN values
        BY <2>2 DEF Default, Defaulted
      <3>2. \A r \in DOMAIN values' : values'[r] \cap Unresolved = {}
        BY <3>1, DefaultedValue DEF ValuesResolved, Unresolved
      <3>3. "AL" \in uniqueClasses(records) =>
              \A r \in DOMAIN values' : values'[r] \ annotationMask # {}
        BY <3>1, DefaultedValue
      <3>4. uniqueClasses(records)' = uniqueClasses(records)
        BY <2>2 DEF Default, records
      <3>. QED BY <3>2, <3>3, <3>4 DEF ValuesResolved
    <2>3. CASE phase \notin {"merge", "default"} /\ UNCHANGED <<files, values>>
      BY <2>3 DEF ValuesResolved, records
    <2>4. CASE UNCHANGED <<files, values, phase>>
      BY <2>4 DEF ValuesResolved, records
    <2>. QED BY <2>1, <2>2, <2>3, <2>4
             DEF Next, InsertNext, BuildTrie, Offsets, Printed, vars
  <1>. QED BY <1>1, <1>2, InsertKeepsInv, PTL DEF Spec

-----------------------------------------------------------------------------
(* The nodes and the blocks.                                               *)

\* An insertion keeps what the nodes hold.
LEMMA InsertKeepsNodes ==
  ASSUME InsertInv, TypeOK, NodesHold, phase = "insert", phase' = "insert",
         NEW r \in pending, Insert(r, values[r]), pending' = pending \ {r},
         values' = values
  PROVE  NodesHold'
  <1>1. /\ r \in Rune /\ values[r] \in Property /\ r \notin Inserted
        /\ fault = "none" /\ LeavesOfRunes /\ TrieTypeOK
    BY DEF InsertInv, InsertSucceeds, TypeOK, Inserted
  <1>2. Inserted' = Inserted \cup {r}
    BY DEF Inserted, InsertInv
  <1>3. /\ \A q \in Rune : InNodes(Encode[q]) = IF q \in Inserted THEN values[q] ELSE {}
        /\ \A a \in 0 .. RuneSelf - 1 :
             ascii[a] # {} => \E q \in Inserted : Encode[q] = <<a>>
        /\ \A p \in DOMAIN leaves, s \in Slot :
             leaves[p][s] # {} => \E q \in Inserted : /\ Len(Encode[q]) # 1
                                                      /\ PathOf(Encode[q]) = p
                                                      /\ LastOf(Encode[q]) = s
        /\ \A p \in DOMAIN leaves : leaves[p] # ZeroBlock
    BY DEF NodesHold
  <1>4. CASE values[r] = {}
    <2>1. ascii' = ascii /\ leaves' = leaves
      BY <1>4 DEF Insert, trieVars
    <2>2. \A q \in Rune : InNodes(Encode[q])' = InNodes(Encode[q])
      BY <2>1 DEF InNodes
    <2>3. \A q \in Rune :
            InNodes(Encode[q])' = IF q \in Inserted' THEN values'[q] ELSE {}
      BY <1>1, <1>2, <1>3, <1>4, <2>2
    <2>. QED BY <1>2, <1>3, <2>1, <2>3 DEF NodesHold
  <1>5. CASE values[r] # {}
    <2>1. /\ \A q \in Rune :
               InNodes(Encode[q])' = IF q = r THEN values[r] ELSE InNodes(Encode[q])
          /\ \A a \in 0 .. RuneSelf - 1 : ascii'[a] = ascii[a] \/ Encode[r] = <<a>>
          /\ \A p \in DOMAIN leaves', s \in Slot :
               \/ p \in DOMAIN leaves /\ leaves'[p][s] = leaves[p][s]
               \/ leaves'[p][s] = {}
               \/ /\ Len(Encode[r]) # 1
                  /\ PathOf(Encode[r]) = p
                  /\ LastOf(Encode[r]) = s
          /\ \A p \in DOMAIN leaves' : leaves'[p] # ZeroBlock
      BY <1>1, <1>3, <1>5, InsertPlaces
    <2>2. \A q \in Rune :
            InNodes(Encode[q])' = IF q \in Inserted' THEN values'[q] ELSE {}
      BY <1>1, <1>2, <1>3, <2>1
    <2>3. \A a \in 0 .. RuneSelf - 1 :
            ascii'[a] # {} => \E q \in Inserted' : Encode[q] = <<a>>
      BY <1>2, <1>3, <2>1
    <2>4. \A p \in DOMAIN leaves', s \in Slot :
            leaves'[p][s] # {} => \E q \in Inserted' : /\ Len(Encode[q]) # 1
                                                       /\ PathOf(Encode[q]) = p
                                                       /\ LastOf(Encode[q]) = s
      BY <1>2, <1>3, <2>1
    <2>. QED BY <2>1, <2>2, <2>3, <2>4 DEF NodesHold
  <1>. QED BY <1>4, <1>5

\* Laying out changes no node.
LEMMA SameNodesHold ==
  ASSUME NodesHold, UNCHANGED trieVars, Inserted' = Inserted,
         \A r \in Inserted : values'[r] = values[r]
  PROVE  NodesHold'
  <1>1. ascii' = ascii /\ leaves' = leaves
    BY DEF trieVars
  <1>2. \A e : InNodes(e)' = InNodes(e)
    BY <1>1 DEF InNodes
  <1>. QED BY <1>1, <1>2 DEF NodesHold

\* Before the layout there is nothing but dummies, in this state and the next.
LEMMA NothingBuilt ==
  /\ BlocksInit => BlocksTypeOK
  /\ BlocksInit' => BlocksTypeOK'
  <1>1. ASSUME NEW S PROVE <<Dummy, Dummy, Dummy>> \in Seq(S \cup {Dummy})
    OBVIOUS
  <1>2. ASSUME BlocksInit PROVE BlocksTypeOK
    BY <1>1, <1>2 DEF BlocksInit, BlocksTypeOK
  <1>3. ASSUME BlocksInit' PROVE BlocksTypeOK'
    BY <1>1, <1>3 DEF BlocksInit, BlocksTypeOK
  <1>. QED BY <1>2, <1>3

\* Of the emptiness at the start.
LEMMA EmptyAtFirst ==
  ASSUME Init
  PROVE  TypeOK /\ GeneratorInv
  <1>1. /\ files \in Files /\ phase = "merge" /\ pending = {} /\ DOMAIN values = {}
        /\ ascii = [a \in 0 .. RuneSelf - 1 |-> {}] /\ DOMAIN leaves = {}
        /\ fault = "none" /\ BlocksInit
    BY DEF Init, TrieInit
  <1>2. TypeOK
    BY <1>1, NothingBuilt DEF TypeOK, TrieTypeOK, Property
  <1>3. NodesHold
    <2>1. ASSUME NEW r \in Rune PROVE InNodes(Encode[r]) = {}
      <3>1. CASE r \in LongRune
        BY <1>1, <3>1 DEF InNodes, LongRune
      <3>2. CASE r \notin LongRune
        BY <1>1, <3>2, ShortEncoding DEF InNodes
      <3>. QED BY <3>1, <3>2
    <2>. QED BY <1>1, <2>1 DEF NodesHold, Inserted
  <1>. QED BY <1>1, <1>2, <1>3 DEF GeneratorInv

\* The types and the invariant of the blocks, in every run.
LEMMA TypeAndBlocks == Spec => [](TypeOK /\ GeneratorInv)
  <1>1. Init => TypeOK /\ GeneratorInv
    BY EmptyAtFirst
  <1>2. InsertInv /\ InsertInv' /\ (TypeOK /\ GeneratorInv) /\ [Next]_vars
          => (TypeOK /\ GeneratorInv)'
    <2>. SUFFICES ASSUME InsertInv, InsertInv', TypeOK, GeneratorInv, [Next]_vars
                  PROVE  TypeOK' /\ GeneratorInv'
      OBVIOUS
    <2>1. CASE Merge
      <3>1. /\ phase = "merge" /\ phase' = "default" /\ BlocksInit /\ pending = {}
            /\ values' = Merged(records)
            /\ UNCHANGED <<files, pending, trieVars, blockVars>>
        BY <2>1 DEF Merge, GeneratorInv, InsertInv
      <3>2. BlocksInit'
        BY <3>1 DEF BlocksInit, blockVars
      <3>3. \A r \in DOMAIN values' : values'[r] \in Property
        BY <3>1, MergedType DEF records, TypeOK
      <3>4. NodesHold'
        <4>1. Inserted = {} /\ Inserted' = {}
          BY <3>1 DEF Inserted
        <4>. QED BY <3>1, <4>1, SameNodesHold DEF GeneratorInv
      <3>5. TrieTypeOK' /\ BlocksTypeOK'
        BY <3>1, <3>2, NothingBuilt DEF TrieTypeOK, TypeOK, trieVars
      <3>. QED BY <3>1, <3>2, <3>3, <3>4, <3>5 DEF TypeOK, GeneratorInv
    <2>2. CASE Default
      <3>1. /\ phase = "default" /\ phase' = "insert" /\ BlocksInit
            /\ values' = Defaulted(values, uniqueClasses(records))
            /\ pending' = DOMAIN values
            /\ DOMAIN values' = DOMAIN values
            /\ UNCHANGED <<files, trieVars, blockVars>>
        BY <2>2 DEF Default, Defaulted, GeneratorInv
      <3>2. BlocksInit'
        BY <3>1 DEF BlocksInit, blockVars
      <3>3. \A r \in DOMAIN values' : values'[r] \in Property
        BY <3>1 DEF Defaulted, TypeOK, Property, Class
      <3>4. NodesHold'
        <4>1. Inserted = {} /\ Inserted' = {}
          BY <3>1 DEF Inserted
        <4>. QED BY <3>1, <4>1, SameNodesHold DEF GeneratorInv
      <3>5. TrieTypeOK' /\ BlocksTypeOK'
        BY <3>1, <3>2, NothingBuilt DEF TrieTypeOK, TypeOK, trieVars
      <3>. QED BY <3>1, <3>2, <3>3, <3>4, <3>5 DEF TypeOK, GeneratorInv
    <2>3. CASE InsertNext
      <3>1. PICK r \in pending : /\ Insert(r, values[r])
                                 /\ pending' = pending \ {r}
        BY <2>3 DEF InsertNext
      <3>2. /\ phase = "insert" /\ phase' = "insert" /\ BlocksInit
            /\ UNCHANGED <<files, values, blockVars>>
        BY <2>3 DEF InsertNext, GeneratorInv, InsertInv, InsertSucceeds
      <3>3. BlocksInit'
        BY <3>2 DEF BlocksInit, blockVars
      <3>4. NodesHold'
        BY <3>1, <3>2, InsertKeepsNodes DEF GeneratorInv
      <3>5. TrieTypeOK'
        BY <3>1, InsertKeepsType DEF InsertInv, InsertSucceeds, TypeOK
      <3>6. BlocksTypeOK'
        BY <3>3, NothingBuilt
      <3>. QED BY <3>1, <3>2, <3>3, <3>4, <3>5, <3>6 DEF TypeOK, GeneratorInv
    <2>4. CASE BuildTrie
      <3>1. /\ phase = "insert" /\ phase' = "build" /\ pending = {} /\ BlocksInit
            /\ StartBuild /\ UNCHANGED <<files, values, pending, trieVars>>
        BY <2>4 DEF BuildTrie, GeneratorInv
      <3>2. NodesHold'
        <4>1. Inserted' = Inserted
          BY <3>1 DEF Inserted
        <4>. QED BY <3>1, <4>1, SameNodesHold DEF GeneratorInv
      <3>3. BlocksTypeOK' /\ BlocksHold' /\ BlocksInOrder' /\ ~Built'
        BY <3>1, BuildStarts, OrderStarts DEF TypeOK
      <3>4. TrieTypeOK'
        BY <3>1 DEF TrieTypeOK, TypeOK, trieVars
      <3>. QED BY <3>1, <3>2, <3>3, <3>4 DEF TypeOK, GeneratorInv
    <2>5. CASE Offsets
      <3>1. /\ phase = "build" /\ phase' = (IF Built' THEN "done" ELSE "build")
            /\ pending = {} /\ BlocksHold /\ BlocksInOrder /\ ~Built
            /\ ComputeOffsets /\ UNCHANGED <<files, values, pending, trieVars>>
        BY <2>5 DEF Offsets, GeneratorInv
      <3>2. NodesHold'
        <4>1. Inserted' = Inserted
          BY <3>1 DEF Inserted
        <4>. QED BY <3>1, <4>1, SameNodesHold DEF GeneratorInv
      <3>3. BlocksTypeOK' /\ BlocksHold' /\ BlocksInOrder'
        BY <3>1, OffsetsKeepBlocks, OffsetsKeepOrder DEF TypeOK, InsertInv
      <3>4. TrieTypeOK'
        BY <3>1 DEF TrieTypeOK, TypeOK, trieVars
      <3>. QED BY <3>1, <3>2, <3>3, <3>4 DEF TypeOK, GeneratorInv
    <2>6. CASE UNCHANGED vars
      <3>1. /\ UNCHANGED <<files, phase, values, pending, trieVars, blockVars>>
            /\ Nodes' = Nodes
        BY <2>6 DEF vars, trieVars, Nodes
      <3>2. TypeOK'
        BY <3>1 DEF TypeOK, TrieTypeOK, BlocksTypeOK, trieVars, blockVars
      <3>3. NodesHold'
        <4>1. Inserted' = Inserted
          BY <3>1 DEF Inserted
        <4>. QED BY <3>1, <4>1, SameNodesHold DEF GeneratorInv
      <3>4. /\ Built' <=> Built
            /\ BlocksInit => BlocksInit'
        BY <3>1 DEF Built, BlocksInit, blockVars
      <3>5. BlocksHold => BlocksHold'
        <4>1. /\ \A m : Content(m)' = Content(m)
              /\ \A m, n : Before(m, n)' <=> Before(m, n)
          BY <3>1 DEF Content, Before, Extends, trieVars
        <4>2. /\ \A v, b : LeadsToValues(v, b)' <=> LeadsToValues(v, b)
              /\ \A v, c : LeadsToNode(v, c)' <=> LeadsToNode(v, c)
          BY <3>1, <4>1 DEF LeadsToValues, LeadsToNode, blockVars, trieVars
        <4>. QED BY <3>1, <4>1, <4>2 DEF BlocksHold, FixedBlocks, blockVars, trieVars
      <3>6. BlocksInOrder => BlocksInOrder'
        <4>1. /\ Contents' = Contents /\ Itself' = Itself
              /\ leaves' = leaves
          BY <3>1 DEF Contents, Content, Itself, Inner, trieVars
        <4>. QED BY <3>1, <3>4, <4>1 DEF BlocksInOrder, blockVars
      <3>. QED BY <3>1, <3>2, <3>3, <3>4, <3>5, <3>6 DEF GeneratorInv
    <2>. QED BY <2>1, <2>2, <2>3, <2>4, <2>5, <2>6 DEF Next, Printed
  <1>. QED BY <1>1, <1>2, InsertKeepsInv, PTL DEF Spec

\* All variables of the generator keep their types: no handle is negative, no block
\* has a missing entry, no value a class without a bit.
THEOREM TypeCorrect == Spec => []TypeOK
  BY TypeAndBlocks, PTL

\* Through insertion and layout nodes and blocks hold what they should.
THEOREM BlocksSound == Spec => []GeneratorInv
  BY TypeAndBlocks, PTL

\* In the end every entry is what the nodes say.
LEMMA DoneReadsNodes ==
  ASSUME InsertInv, TypeOK, GeneratorInv, phase = "done", NEW e \in Encodings
  PROVE  lookupEncoding(e) = InNodes(e)
  <1>1. DOMAIN index = Nodes
    BY RootComesLast DEF GeneratorInv, TypeOK
  <1>. QED BY <1>1, LookupReadsNodes DEF InsertInv, GeneratorInv, TypeOK

\* The lookup that is generated finds the value of each rune that has one, and
\* nothing for any other encoding: whatever the files and the order of the map.
THEOREM LookupCorrect == Spec => []LookupGivesBack
  <1>1. InsertInv /\ TypeOK /\ GeneratorInv => LookupGivesBack
    <2>. SUFFICES ASSUME InsertInv, TypeOK, GeneratorInv, phase = "done",
                         NEW e \in Encodings
                  PROVE  InNodes(e) =
                           IF \E r \in DOMAIN values : Encode[r] = e
                           THEN values[CHOOSE r \in DOMAIN values : Encode[r] = e]
                           ELSE {}
      BY DoneReadsNodes DEF LookupGivesBack
    <2>1. /\ Inserted = DOMAIN values /\ DOMAIN values \subseteq Rune
          /\ NodesHold
      BY DEF Inserted, GeneratorInv, InsertInv
    <2>2. CASE \E r \in DOMAIN values : Encode[r] = e
      <3>1. PICK q \in DOMAIN values :
              /\ q = CHOOSE r \in DOMAIN values : Encode[r] = e
              /\ Encode[q] = e
        BY <2>2
      <3>. QED BY <2>1, <2>2, <3>1 DEF NodesHold
    <2>3. CASE ~\E r \in DOMAIN values : Encode[r] = e
      <3>. SUFFICES ASSUME InNodes(e) # {} PROVE FALSE
        BY <2>3
      <3>1. CASE Len(e) = 1 /\ e[1] \in 0 .. RuneSelf - 1 /\ e = <<e[1]>>
        <4>1. ascii[e[1]] # {}
          BY <3>1 DEF InNodes
        <4>. QED BY <2>1, <2>3, <3>1, <4>1 DEF NodesHold
      <3>2. CASE Regular(e) /\ e \in Seq(Nat)
        <4>1. Long(e) /\ Len(e) # 1
          <5>1. Long(e) /\ Len(e) \in 2 .. 4
            BY <3>2 DEF Regular, Long
          <5>. QED BY <5>1
        <4>2. /\ PathOf(e) \in DOMAIN leaves /\ LastOf(e) \in Slot
              /\ leaves[PathOf(e)][LastOf(e)] # {}
          BY <4>1, PathMeans DEF InNodes
        <4>3. PICK r \in Inserted : /\ Len(Encode[r]) # 1
                                    /\ PathOf(Encode[r]) = PathOf(e)
                                    /\ LastOf(Encode[r]) = LastOf(e)
          BY <2>1, <4>2 DEF NodesHold
        <4>4. Long(Encode[r]) /\ Encode[r] \in Seq(Nat)
          BY <2>1, <4>3, LongEncoding DEF LongRune
        <4>5. Encode[r] = e
          BY <3>2, <4>1, <4>3, <4>4, PathTells
        <4>. QED BY <2>1, <2>3, <4>5
      <3>. QED BY <3>1, <3>2, EncodingsMeans
    <2>. QED BY <2>2, <2>3
  <1>. QED BY <1>1, InsertKeepsInv, TypeAndBlocks, PTL

\* The values of a node that is not empty are those of runes.
LEMMA NodesAreValues ==
  ASSUME InsertInv, TypeOK, GeneratorInv, phase = "done"
  PROVE  /\ ascii = AsciiOf(values)
         /\ leaves = LeavesOf(values)
  <1>1. /\ Inserted = DOMAIN values /\ DOMAIN values \subseteq Rune
        /\ NodesHold /\ TrieTypeOK
    BY DEF Inserted, GeneratorInv, InsertInv, TypeOK
  <1>2. ascii = AsciiOf(values)
    <2>1. ASSUME NEW a \in 0 .. RuneSelf - 1
          PROVE  ascii[a] = IF \E r \in DOMAIN values : Encode[r] = <<a>>
                            THEN values[CHOOSE r \in DOMAIN values : Encode[r] = <<a>>]
                            ELSE {}
      <3>1. CASE \E r \in DOMAIN values : Encode[r] = <<a>>
        <4>1. PICK q \in DOMAIN values :
                /\ q = CHOOSE r \in DOMAIN values : Encode[r] = <<a>>
                /\ Encode[q] = <<a>>
          BY <3>1
        <4>2. InNodes(<<a>>) = ascii[a]
          BY DEF InNodes
        <4>. QED BY <1>1, <3>1, <4>1, <4>2 DEF NodesHold
      <3>2. CASE ~\E r \in DOMAIN values : Encode[r] = <<a>>
        BY <1>1, <3>2 DEF NodesHold
      <3>. QED BY <3>1, <3>2
    <2>. QED BY <1>1, <2>1 DEF AsciiOf, TrieTypeOK
  <1> DEFINE long == {r \in DOMAIN values : values[r] # {} /\ Len(Encode[r]) # 1}
             at(p, s) == {r \in long : PathOf(Encode[r]) = p /\ LastOf(Encode[r]) = s}
             paths == {PathOf(Encode[r]) : r \in long}
             val(p, s) == IF at(p, s) = {} THEN {} ELSE values[CHOOSE r \in at(p, s) : TRUE]
  <1>3. LeavesOf(values) = [p \in paths |-> [s \in Slot |-> val(p, s)]]
    BY DEF LeavesOf
  <1>4. ASSUME NEW r \in long
        PROVE  /\ PathOf(Encode[r]) \in DOMAIN leaves
               /\ leaves[PathOf(Encode[r])][LastOf(Encode[r])] = values[r]
    <2>1. InNodes(Encode[r]) = values[r] /\ values[r] # {} /\ Len(Encode[r]) # 1
      BY <1>1 DEF NodesHold
    <2>. QED BY <2>1 DEF InNodes
  <1>5. ASSUME NEW p \in DOMAIN leaves, NEW s \in Slot, leaves[p][s] # {}
        PROVE  at(p, s) # {}
    <2>1. PICK r \in Inserted : /\ Len(Encode[r]) # 1
                                /\ PathOf(Encode[r]) = p
                                /\ LastOf(Encode[r]) = s
      BY <1>1, <1>5 DEF NodesHold
    <2>2. InNodes(Encode[r]) = values[r] /\ InNodes(Encode[r]) = leaves[p][s]
      BY <1>1, <1>5, <2>1 DEF NodesHold, InNodes
    <2>. QED BY <1>1, <1>5, <2>1, <2>2
  <1>6. DOMAIN leaves = paths
    <2>1. ASSUME NEW p \in DOMAIN leaves PROVE p \in paths
      <3>1. leaves[p] \in Block /\ leaves[p] # ZeroBlock
        BY <1>1 DEF TrieTypeOK, NodesHold
      <3>2. PICK s \in Slot : leaves[p][s] # {}
        BY <3>1 DEF Block, ZeroBlock
      <3>. QED BY <1>5, <3>2
    <2>. QED BY <1>4, <2>1
  <1>7. ASSUME NEW p \in DOMAIN leaves
        PROVE  leaves[p] = [s \in Slot |-> val(p, s)]
    <2>1. ASSUME NEW s \in Slot PROVE leaves[p][s] = val(p, s)
      <3>1. CASE at(p, s) = {}
        BY <1>5, <3>1
      <3>2. CASE at(p, s) # {}
        <4>1. PICK q \in at(p, s) : q = CHOOSE r \in at(p, s) : TRUE
          BY <3>2
        <4>2. leaves[p][s] = values[q]
          BY <1>4, <4>1
        <4>. QED BY <3>2, <4>1, <4>2
      <3>. QED BY <3>1, <3>2
    <2>2. leaves[p] \in [Slot -> Property]
      BY <1>1 DEF TrieTypeOK, Block
    <2> HIDE DEF val
    <2>. QED BY <2>1, <2>2
  <1>8. leaves = [p \in DOMAIN leaves |-> leaves[p]]
    BY <1>1 DEF TrieTypeOK
  <1>9. leaves = LeavesOf(values)
    <2> HIDE DEF val, paths
    <2>. QED BY <1>3, <1>6, <1>7, <1>8
  <1>. QED BY <1>2, <1>9

\* Both arrays are what the values make them, whatever the order of the map: the
\* nodes, the blocks of values, the index blocks, and the entries of the index.
THEOREM TableCanonical == Spec => []Canonical
  <1>1. InsertInv /\ TypeOK /\ GeneratorInv => Canonical
    <2>. SUFFICES ASSUME InsertInv, TypeOK, GeneratorInv, phase = "done"
                  PROVE  Canonical
      BY DEF Canonical
    <2>1. BlocksHold /\ BlocksInOrder /\ DOMAIN index = Nodes
      BY RootComesLast DEF GeneratorInv, TypeOK
    <2>. QED BY <2>1, NodesAreValues DEF Canonical, BlocksInOrder, BlocksHold
  <1>. QED BY <1>1, InsertKeepsInv, TypeAndBlocks, PTL

\* What the trie is of: the values inserted so far.
Given == [r \in Rune |-> IF r \in Inserted THEN values[r] ELSE {}]

\* Looking up finds what has been inserted, at every stage.
LEMMA FoundIsGiven ==
  ASSUME InsertInv, TypeOK, GeneratorInv
  PROVE  Found = Given
  <1>1. ASSUME NEW r \in Rune
        PROVE  (IF phase = "done" THEN lookupEncoding(Encode[r])
                                  ELSE InNodes(Encode[r])) =
               IF r \in Inserted THEN values[r] ELSE {}
    <2>1. InNodes(Encode[r]) = IF r \in Inserted THEN values[r] ELSE {}
      BY DEF GeneratorInv, NodesHold
    <2>2. phase = "done" => lookupEncoding(Encode[r]) = InNodes(Encode[r])
      BY RunesAreEncodings, DoneReadsNodes
    <2>. QED BY <2>1, <2>2
  <1>. QED BY <1>1 DEF Found, Given

\* The generator implements a dictionary: an insertion gives its rune the value and
\* changes no other, and merging, laying out and printing change nothing.
THEOREM RefinesDictionary == Spec => ImplementsDictionary
  <1>1. Init => D!DictInit
    <2>. SUFFICES ASSUME Init PROVE D!DictInit
      OBVIOUS
    <2>1. \A r \in Rune : InNodes(Encode[r]) = {}
      BY EmptyAtFirst DEF GeneratorInv, NodesHold, Inserted, Init
    <2>. QED BY <2>1 DEF D!DictInit, Found, Init
  <1>2. InsertInv /\ TypeOK /\ GeneratorInv => Found = Given
    BY FoundIsGiven
  <1>3. InsertInv /\ InsertInv' /\ TypeOK /\ TypeOK' /\ Found = Given /\ (Found = Given)'
          /\ [Next]_vars => [D!DictNext]_Found
    <2>. SUFFICES ASSUME InsertInv, InsertInv', TypeOK, TypeOK',
                         Found = Given, (Found = Given)', [Next]_vars
                  PROVE  [D!DictNext]_Found
      OBVIOUS
    <2>1. CASE InsertNext
      <3>1. PICK r \in pending : pending' = pending \ {r}
        BY <2>1 DEF InsertNext
      <3>2. /\ phase = "insert" /\ phase' = "insert" /\ values' = values
        BY <2>1 DEF InsertNext, InsertInv, InsertSucceeds
      <3>3. /\ r \in Rune /\ values[r] \in Property
            /\ r \notin Inserted /\ Inserted' = Inserted \cup {r}
        BY <3>1, <3>2 DEF InsertInv, TypeOK, Inserted
      <3>4. /\ Given[r] = {} /\ Given'[r] = values[r]
            /\ Given' = [Given EXCEPT ![r] = Given'[r]]
        BY <3>2, <3>3 DEF Given
      <3>5. D!Put(r)
        <4>1. D!Property = Property
          BY DEF D!Property, D!Class, Property, Class
        <4>. QED BY <3>3, <3>4, <4>1 DEF D!Put
      <3>. QED BY <3>3, <3>5 DEF D!DictNext
    <2>2. CASE Merge \/ Default \/ BuildTrie \/ Offsets \/ Printed \/ UNCHANGED vars
      <3>1. Given' = Given
        <4>1. CASE Merge
          BY <4>1 DEF Merge, Given, Inserted
        <4>2. CASE Default
          <5>1. DOMAIN values' = DOMAIN values
            BY <4>2 DEF Default, Defaulted
          <5>2. Inserted = {} /\ Inserted' = {}
            BY <4>2, <5>1 DEF Default, Inserted
          <5>. QED BY <5>2 DEF Given
        <4>3. CASE BuildTrie \/ Offsets \/ Printed \/ UNCHANGED vars
          <5>1. values' = values /\ Inserted' = Inserted
            BY <4>3 DEF BuildTrie, Offsets, Printed, vars, Inserted
          <5>. QED BY <5>1 DEF Given
        <4>. QED BY <2>2, <4>1, <4>2, <4>3
      <3>. QED BY <3>1
    <2>. QED BY <2>1, <2>2 DEF Next
  <1>. QED BY <1>1, <1>2, <1>3, InsertKeepsInv, TypeAndBlocks, PTL
           DEF Spec, ImplementsDictionary, D!DictSpec

-----------------------------------------------------------------------------
(* The classes of a code point.                                            *)

\* The classes that a code point has in some records.
Covering(recs, r) == {rec.class : rec \in {q \in recs : r \in Points(q)}}

\* Those in two sets of records.
LEMMA CoveringUnion ==
  ASSUME NEW A, NEW B, NEW r
  PROVE  Covering(A \cup B, r) = Covering(A, r) \cup Covering(B, r)
  BY DEF Covering

\* What a renaming makes of some classes.
Image(to, C) == {to[c] : c \in C \cap DOMAIN to}

\* Of one class it makes one, or none.
LEMMA ImageOfOne ==
  ASSUME NEW to, NEW x
  PROVE  Image(to, {x}) = IF x \in DOMAIN to THEN {to[x]} ELSE {}
  BY DEF Image

\* A renaming changes the classes and nothing else.
LEMMA CoveringRenamed ==
  ASSUME NEW recs \in SUBSET Record, NEW to, NEW r
  PROVE  Covering(Renamed(recs, to), r)
           = Image(to, Covering(recs, r))
  <1>1. ASSUME NEW q \in recs, q.class \in DOMAIN to
        PROVE  /\ [q EXCEPT !.class = to[@]].class = to[q.class]
               /\ Points([q EXCEPT !.class = to[@]]) = Points(q)
    <2>1. q \in Record
      OBVIOUS
    <2>2. /\ [q EXCEPT !.class = to[@]].class = to[q.class]
          /\ [q EXCEPT !.class = to[@]].lo = q.lo
          /\ [q EXCEPT !.class = to[@]].hi = q.hi
      BY <2>1 DEF Record
    <2>. QED BY <2>2 DEF Points
  <1>2. ASSUME NEW c \in Covering(Renamed(recs, to), r)
        PROVE  c \in Image(to, Covering(recs, r))
    <2>1. PICK q \in recs : /\ q.class \in DOMAIN to
                            /\ r \in Points([q EXCEPT !.class = to[@]])
                            /\ c = [q EXCEPT !.class = to[@]].class
      BY <1>2 DEF Covering, Renamed
    <2>2. r \in Points(q) /\ c = to[q.class]
      BY <1>1, <2>1
    <2>. QED BY <2>1, <2>2 DEF Covering, Image
  <1>3. ASSUME NEW d \in Covering(recs, r) \cap DOMAIN to
        PROVE  to[d] \in Covering(Renamed(recs, to), r)
    <2>1. PICK q \in recs : r \in Points(q) /\ d = q.class
      BY DEF Covering
    <2>2. [q EXCEPT !.class = to[@]] \in Renamed(recs, to)
      BY <2>1 DEF Renamed
    <2>. QED BY <1>1, <2>1, <2>2 DEF Covering
  <1>. QED BY <1>2, <1>3 DEF Image

\* The code points that have one of some classes.
LEMMA PointsOfCovering ==
  ASSUME NEW recs, NEW classes, NEW r
  PROVE  r \in PointsOf(recs, classes) <=> Covering(recs, r) \cap classes # {}
  BY DEF PointsOf, Covering

\* In a file it is one class, or none and the default.
LEMMA CoveringFile ==
  ASSUME NEW f \in Files, NEW file \in {f.lb, f.gc, f.ea}, NEW r
  PROVE  \/ Covering(file, r) = {} /\ \A default : In(file, r, default) = default
         \/ \E c : Covering(file, r) = {c} /\ \A default : In(file, r, default) = c
  <1>1. CASE \E rec \in file : r \in Points(rec)
    <2>1. PICK rec \in file : r \in Points(rec) /\ rec = CHOOSE q \in file : r \in Points(q)
      BY <1>1
    <2>2. \A q \in file : r \in Points(q) => q = rec
      BY <2>1, OneValueAssumption
    <2>3. Covering(file, r) = {rec.class}
      BY <2>1, <2>2 DEF Covering
    <2>4. \A default : In(file, r, default) = rec.class
      BY <1>1, <2>1 DEF In
    <2>. QED BY <2>3, <2>4
  <1>2. CASE ~\E rec \in file : r \in Points(rec)
    BY <1>2 DEF Covering, In
  <1>. QED BY <1>1, <1>2

\* LB1, for a code point with the class c in LineBreak.txt.
LEMMA CoveringResolved ==
  ASSUME NEW lb \in SUBSET Record, NEW marks, NEW r \in Nat
  PROVE  Covering(resolveLineBreakClasses(lb, marks), r)
           = {c \in Covering(lb, r) : c \notin Unresolved}
             \cup Image([AI |-> "AL", SG |-> "AL", XX |-> "AL", CJ |-> "NS"],
                        Covering(lb, r))
             \cup (IF "SA" \in Covering(lb, r)
                   THEN {IF r \in marks THEN "CM" ELSE "AL"} ELSE {})
  <1> DEFINE to == [AI |-> "AL", SG |-> "AL", XX |-> "AL", CJ |-> "NS"]
             one(p) == [lo |-> p, hi |-> p, class |-> IF p \in marks THEN "CM" ELSE "AL"]
             A == {rec \in lb : rec.class \notin {"AI", "SG", "XX", "CJ", "SA"}}
             B == Renamed(lb, to)
             C == {one(p) : p \in PointsOf(lb, {"SA"})}
  <1>1. Covering(A, r) = {c \in Covering(lb, r) : c \notin Unresolved}
    BY DEF Covering, Unresolved
  <1>2. Covering(B, r) = Image(to, Covering(lb, r))
    BY CoveringRenamed
  <1>3. Covering(C, r) = IF "SA" \in Covering(lb, r)
                         THEN {IF r \in marks THEN "CM" ELSE "AL"} ELSE {}
    <2>1. ASSUME NEW p \in PointsOf(lb, {"SA"})
          PROVE  p \in Nat /\ Points(one(p)) = {p} /\ one(p).class = IF p \in marks THEN "CM" ELSE "AL"
      <3>1. PICK q \in lb : p \in Points(q)
        BY DEF PointsOf
      <3>2. p \in Nat
        BY <3>1 DEF Points, Record
      <3>. QED BY <3>2 DEF Points
    <2>2. r \in PointsOf(lb, {"SA"}) <=> "SA" \in Covering(lb, r)
      BY PointsOfCovering
    <2> HIDE DEF one
    <2>3. Covering(C, r) = {one(p).class : p \in {q \in PointsOf(lb, {"SA"}) : q = r}}
      BY <2>1 DEF Covering
    <2>4. CASE r \in PointsOf(lb, {"SA"})
      <3>1. {q \in PointsOf(lb, {"SA"}) : q = r} = {r}
        BY <2>4
      <3>2. Covering(C, r) = {one(r).class}
        BY <2>3, <3>1
      <3>. QED BY <2>1, <2>2, <2>4, <3>2
    <2>5. CASE r \notin PointsOf(lb, {"SA"})
      BY <2>2, <2>3, <2>5
    <2>. QED BY <2>4, <2>5
  <1>4. resolveLineBreakClasses(lb, marks) = (A \cup B) \cup C
    BY DEF resolveLineBreakClasses
  <1> HIDE DEF A, B, C
  <1>5. Covering(resolveLineBreakClasses(lb, marks), r)
          = (Covering(A, r) \cup Covering(B, r)) \cup Covering(C, r)
    <2>1. Covering((A \cup B) \cup C, r) = Covering(A \cup B, r) \cup Covering(C, r)
      BY CoveringUnion
    <2>2. Covering(A \cup B, r) = Covering(A, r) \cup Covering(B, r)
      BY CoveringUnion
    <2>. QED BY <1>4, <2>1, <2>2
  <1>. QED BY <1>1, <1>2, <1>3, <1>5

\* The ranges of default Extended_Pictographic.
LEMMA CoveringUnassigned ==
  ASSUME NEW gc \in SUBSET Record, NEW r \in Nat
  PROVE  Covering(selectExtendedPictographicUnassignedRecords(gc), r)
           = IF /\ "Cn" \in Covering(gc, r)
                /\ \E range \in ExtPictRanges : range.lo <= r /\ r <= range.hi
             THEN {"EPU"} ELSE {}
  <1> DEFINE max(a, b) == IF a > b THEN a ELSE b
             min(a, b) == IF a < b THEN a ELSE b
             cut(rec, range) == [ lo    |-> max(rec.lo, range.lo),
                                  hi    |-> min(rec.hi, range.hi),
                                  class |-> "EPU" ]
             unassigned == selectExtendedPictographicUnassignedRecords(gc)
  <1>1. ASSUME NEW rec \in gc, NEW range \in ExtPictRanges
        PROVE  /\ r \in Points(cut(rec, range))
                    <=> r \in Points(rec) /\ range.lo <= r /\ r <= range.hi
               /\ r \in Points(cut(rec, range)) => cut(rec, range).lo <= cut(rec, range).hi
    <2>1. /\ rec.lo \in Nat /\ rec.hi \in Nat
          /\ range.lo \in Nat /\ range.hi \in Nat
      BY TableAssumption DEF Record
    <2>. QED BY <2>1 DEF Points
  <1>2. /\ \A c \in unassigned : c.class = "EPU"
        /\ \A c \in unassigned : \E rec \in gc, range \in ExtPictRanges :
             rec.class = "Cn" /\ c = cut(rec, range)
        /\ \A rec \in gc, range \in ExtPictRanges :
             rec.class = "Cn" /\ cut(rec, range).lo <= cut(rec, range).hi
               => cut(rec, range) \in unassigned
    BY DEF selectExtendedPictographicUnassignedRecords
  <1> HIDE DEF cut, unassigned
  <1>3. ASSUME NEW c \in unassigned, r \in Points(c)
        PROVE  /\ "Cn" \in Covering(gc, r)
               /\ \E range \in ExtPictRanges : range.lo <= r /\ r <= range.hi
    BY <1>1, <1>2, <1>3 DEF Covering
  <1>4. ASSUME "Cn" \in Covering(gc, r),
               NEW range \in ExtPictRanges, range.lo <= r, r <= range.hi
        PROVE  \E c \in unassigned : r \in Points(c)
    <2>1. PICK rec \in gc : r \in Points(rec) /\ rec.class = "Cn"
      BY <1>4 DEF Covering
    <2>. QED BY <1>1, <1>2, <1>4, <2>1
  <1>5. Covering(unassigned, r) = IF \E c \in unassigned : r \in Points(c)
                                  THEN {"EPU"} ELSE {}
    BY <1>2 DEF Covering
  <1>6. (\E c \in unassigned : r \in Points(c)) <=>
          /\ "Cn" \in Covering(gc, r)
          /\ \E range \in ExtPictRanges : range.lo <= r /\ r <= range.hi
    BY <1>3, <1>4
  <1>. QED BY <1>5, <1>6 DEF unassigned

\* The ranges of default Extended_Pictographic have r.
Pictographic(r) == \E range \in ExtPictRanges : range.lo <= r /\ r <= range.hi

\* The annotations of r by its two properties.
AnnotationsOf(gc, ea, r) ==
  {c \in {"PI", "PF", "EA", "EPU", "DC"} :
     \/ c = "PI" /\ gc = "Pi"
     \/ c = "PF" /\ gc = "Pf"
     \/ c = "EA" /\ ea \in {"F", "W", "H"}
     \/ c = "EPU" /\ gc = "Cn" /\ Pictographic(r)
     \/ c = "DC" /\ r = DottedCircle}

\* c is the class in C, if there is one, and the default if not.
OneOrDefault(C, c, default) == (C = {} /\ c = default) \/ C = {c}

\* What the selections make of the classes G and E that r has in two files.
Selected(G, E, r) ==
  ((Image([Pi |-> "PI", Pf |-> "PF"], G)
    \cup Image([F |-> "EA", W |-> "EA", H |-> "EA"], E))
   \cup (IF "Cn" \in G /\ Pictographic(r) THEN {"EPU"} ELSE {}))
  \cup (IF r = DottedCircle THEN {"DC"} ELSE {})

\* The records of the annotations give just these.
LEMMA CoveringAnnotations ==
  ASSUME NEW G, NEW E, NEW gc, NEW ea, NEW r,
         OneOrDefault(G, gc, "none"), OneOrDefault(E, ea, "N")
  PROVE  Selected(G, E, r) = AnnotationsOf(gc, ea, r)
  <1>1. Image([Pi |-> "PI", Pf |-> "PF"], G)
          = (IF gc = "Pi" THEN {"PI"} ELSE {}) \cup (IF gc = "Pf" THEN {"PF"} ELSE {})
    <2> DEFINE to == [Pi |-> "PI", Pf |-> "PF"]
    <2>1. DOMAIN to = {"Pi", "Pf"} /\ to["Pi"] = "PI" /\ to["Pf"] = "PF"
      OBVIOUS
    <2> HIDE DEF to
    <2>2. CASE G = {gc}
      <3>1. Image(to, G) = IF gc \in {"Pi", "Pf"} THEN {to[gc]} ELSE {}
        BY <2>1, <2>2, ImageOfOne
      <3>. QED BY <2>1, <3>1 DEF to
    <2>3. CASE G = {} /\ gc = "none"
      BY <2>3 DEF Image
    <2>. QED BY <2>2, <2>3 DEF OneOrDefault
  <1>2. Image([F |-> "EA", W |-> "EA", H |-> "EA"], E)
          = IF ea \in {"F", "W", "H"} THEN {"EA"} ELSE {}
    <2> DEFINE to == [F |-> "EA", W |-> "EA", H |-> "EA"]
    <2>1. /\ DOMAIN to = {"F", "W", "H"}
          /\ to["F"] = "EA" /\ to["W"] = "EA" /\ to["H"] = "EA"
      OBVIOUS
    <2> HIDE DEF to
    <2>2. CASE E = {ea}
      <3>1. Image(to, E) = IF ea \in {"F", "W", "H"} THEN {to[ea]} ELSE {}
        BY <2>1, <2>2, ImageOfOne
      <3>. QED BY <2>1, <3>1 DEF to
    <2>3. CASE E = {} /\ ea = "N"
      BY <2>3 DEF Image
    <2>. QED BY <2>2, <2>3 DEF OneOrDefault
  <1>3. "Cn" \in G <=> gc = "Cn"
    BY DEF OneOrDefault
  <1>. QED BY <1>1, <1>2, <1>3 DEF Selected, AnnotationsOf

\* The classes that a code point has in all records: its resolved class, if
\* LineBreak.txt knows it, and its annotations.
LEMMA CoveringAll ==
  ASSUME files \in Files, NEW r \in Rune
  PROVE  Covering(records, r) =
           (IF Covering(files.lb, r) = {} THEN {} ELSE {ResolvedClass(r)})
           \cup Annotations(r)
  <1> DEFINE L == Covering(files.lb, r)
             G == Covering(files.gc, r)
             E == Covering(files.ea, r)
             marks == selectCombiningMarks(files.gc)
             resolved == Covering(resolveLineBreakClasses(files.lb, marks), r)
             quotes == Covering(selectQuoteCategoryRecords(files.gc), r)
             wide == Covering(selectEastAsianRecords(files.ea), r)
             unassigned == Covering(selectExtendedPictographicUnassignedRecords(files.gc), r)
             circle == Covering({[lo |-> DottedCircle, hi |-> DottedCircle, class |-> "DC"]}, r)
  <1>1. /\ files.lb \in SUBSET Record /\ files.gc \in SUBSET Record
        /\ files.ea \in SUBSET Record /\ r \in Nat
    BY FilesAssumption
  <1>2. Covering(records, r)
          = (((resolved \cup quotes) \cup wide) \cup unassigned) \cup circle
    <2> DEFINE a == resolveLineBreakClasses(files.lb, marks)
               b == selectQuoteCategoryRecords(files.gc)
               c == selectEastAsianRecords(files.ea)
               d == selectExtendedPictographicUnassignedRecords(files.gc)
               e == {[lo |-> DottedCircle, hi |-> DottedCircle, class |-> "DC"]}
    <2>1. records = (((a \cup b) \cup c) \cup d) \cup e
      BY DEF records, allRecords
    <2> HIDE DEF a, b, c, d, e
    <2>2. Covering(a \cup b, r) = Covering(a, r) \cup Covering(b, r)
      BY CoveringUnion
    <2>3. Covering((a \cup b) \cup c, r) = Covering(a \cup b, r) \cup Covering(c, r)
      BY CoveringUnion
    <2>4. Covering(((a \cup b) \cup c) \cup d, r)
            = Covering((a \cup b) \cup c, r) \cup Covering(d, r)
      BY CoveringUnion
    <2>5. Covering(records, r)
            = Covering(((a \cup b) \cup c) \cup d, r) \cup Covering(e, r)
      BY <2>1, CoveringUnion
    <2>. QED BY <2>2, <2>3, <2>4, <2>5 DEF a, b, c, d, e
  <1>3. /\ quotes = Image([Pi |-> "PI", Pf |-> "PF"], G)
        /\ wide = Image([F |-> "EA", W |-> "EA", H |-> "EA"], E)
    BY <1>1, CoveringRenamed DEF selectQuoteCategoryRecords, selectEastAsianRecords
  <1>4. unassigned = IF "Cn" \in G /\ Pictographic(r) THEN {"EPU"} ELSE {}
    BY <1>1, CoveringUnassigned DEF Pictographic
  <1>5. circle = IF r = DottedCircle THEN {"DC"} ELSE {}
    <2> DEFINE rec == [lo |-> DottedCircle, hi |-> DottedCircle, class |-> "DC"]
    <2>1. r \in Points(rec) <=> r = DottedCircle
      BY <1>1, TableAssumption DEF Points
    <2>2. rec.class = "DC"
      OBVIOUS
    <2> HIDE DEF rec
    <2>3. Covering({rec}, r) = IF r \in Points(rec) THEN {rec.class} ELSE {}
      BY DEF Covering
    <2>. QED BY <2>1, <2>2, <2>3 DEF rec
  <1>6. ((quotes \cup wide) \cup unassigned) \cup circle = Annotations(r)
    <2> DEFINE gc == In(files.gc, r, "none")
               ea == In(files.ea, r, "N")
    <2>1. /\ OneOrDefault(G, gc, "none")
          /\ OneOrDefault(E, ea, "N")
      <3>1. \/ G = {} /\ \A default : In(files.gc, r, default) = default
            \/ \E c : G = {c} /\ \A default : In(files.gc, r, default) = c
        BY CoveringFile
      <3>2. \/ E = {} /\ \A default : In(files.ea, r, default) = default
            \/ \E c : E = {c} /\ \A default : In(files.ea, r, default) = c
        BY CoveringFile
      <3> HIDE DEF G, E
      <3>3. OneOrDefault(G, gc, "none")
        BY <3>1 DEF OneOrDefault
      <3>4. OneOrDefault(E, ea, "N")
        BY <3>2 DEF OneOrDefault
      <3>. QED BY <3>3, <3>4
    <2>2. Annotations(r) = AnnotationsOf(gc, ea, r)
      BY DEF Annotations, AnnotationsOf, Pictographic
    <2> HIDE DEF G, E, gc, ea, quotes, wide, unassigned, circle
    <2>3. Selected(G, E, r) = AnnotationsOf(gc, ea, r)
      BY <2>1, CoveringAnnotations
    <2>. QED BY <1>3, <1>4, <1>5, <2>2, <2>3 DEF Selected
  <1>7. resolved = IF L = {} THEN {} ELSE {ResolvedClass(r)}
    <2>1. resolved = {c \in L : c \notin Unresolved}
                     \cup Image([AI |-> "AL", SG |-> "AL", XX |-> "AL", CJ |-> "NS"], L)
                     \cup (IF "SA" \in L THEN {IF r \in marks THEN "CM" ELSE "AL"} ELSE {})
      BY <1>1, CoveringResolved
    <2>2. r \in marks <=> In(files.gc, r, "Cn") \in {"Mn", "Mc"}
      <3>1. r \in marks <=> G \cap {"Mn", "Mc"} # {}
        BY PointsOfCovering DEF selectCombiningMarks
      <3>2. \/ G = {} /\ In(files.gc, r, "Cn") = "Cn"
            \/ G = {In(files.gc, r, "Cn")}
        BY CoveringFile
      <3>. QED BY <3>1, <3>2
    <2>3. CASE L = {}
      <3> HIDE DEF L, marks, resolved
      <3> DEFINE to == [AI |-> "AL", SG |-> "AL", XX |-> "AL", CJ |-> "NS"]
      <3>1. resolved = {c \in L : c \notin Unresolved} \cup Image(to, L)
                       \cup (IF "SA" \in L THEN {IF r \in marks THEN "CM" ELSE "AL"} ELSE {})
        BY <2>1
      <3> HIDE DEF to
      <3>2. Image(to, L) = {}
        BY <2>3 DEF Image
      <3>. QED BY <2>3, <3>1, <3>2
    <2>4. CASE L # {}
      <3> DEFINE l == In(files.lb, r, Missing(r))
      <3>1. L = {l}
        BY <2>4, CoveringFile
      <3>2. ResolvedClass(r) = IF l \in {"AI", "SG", "XX"} THEN "AL"
                               ELSE IF l = "CJ" THEN "NS"
                               ELSE IF l = "SA" THEN IF r \in marks THEN "CM" ELSE "AL"
                               ELSE l
        BY <2>2 DEF ResolvedClass
      <3> HIDE DEF l, L, marks
      <3> DEFINE to == [AI |-> "AL", SG |-> "AL", XX |-> "AL", CJ |-> "NS"]
      <3>3. /\ DOMAIN to = {"AI", "SG", "XX", "CJ"}
            /\ to["AI"] = "AL" /\ to["SG"] = "AL" /\ to["XX"] = "AL" /\ to["CJ"] = "NS"
        OBVIOUS
      <3>4. resolved = {c \in L : c \notin Unresolved}
                       \cup Image(to, L)
                       \cup (IF "SA" \in L THEN {IF r \in marks THEN "CM" ELSE "AL"} ELSE {})
        BY <2>1
      <3> HIDE DEF to
      <3>5. resolved = (IF l \in Unresolved THEN {} ELSE {l})
                       \cup (IF l \in {"AI", "SG", "XX", "CJ"} THEN {to[l]} ELSE {})
                       \cup (IF l = "SA" THEN {IF r \in marks THEN "CM" ELSE "AL"} ELSE {})
        <4>1. Image(to, L) = IF l \in {"AI", "SG", "XX", "CJ"} THEN {to[l]} ELSE {}
          BY <3>1, <3>3, ImageOfOne
        <4>2. "SA" \in L <=> l = "SA"
          BY <3>1
        <4>3. {c \in L : c \notin Unresolved} = IF l \in Unresolved THEN {} ELSE {l}
          BY <3>1
        <4>. QED BY <3>4, <4>1, <4>2, <4>3
      <3> HIDE DEF resolved
      <3>6. resolved = {ResolvedClass(r)}
        <4>1. CASE l \in {"AI", "SG", "XX", "CJ"}
          <5>1. to[l] = ResolvedClass(r)
            BY <3>2, <3>3, <4>1
          <5>. QED BY <3>5, <4>1, <5>1 DEF Unresolved
        <4>2. CASE l = "SA"
          <5>1. ResolvedClass(r) = IF r \in marks THEN "CM" ELSE "AL"
            BY <3>2, <4>2
          <5>. QED BY <3>5, <4>2, <5>1 DEF Unresolved
        <4>3. CASE l \notin {"AI", "SG", "XX", "CJ", "SA"}
          <5>1. ResolvedClass(r) = l
            BY <3>2, <4>3
          <5>. QED BY <3>5, <4>3, <5>1 DEF Unresolved
        <4>. QED BY <4>1, <4>2, <4>3
      <3>. QED BY <2>4, <3>6
    <2>. QED BY <2>3, <2>4
  <1> HIDE DEF resolved, quotes, wide, unassigned, circle
  <1>. QED BY <1>2, <1>6, <1>7

\* The header gives a code point one of its two classes, or XX.
LEMMA MissingRange ==
  ASSUME NEW r
  PROVE  Missing(r) \in {"ID", "PR", "XX"}
  <1>1. CASE \E rec \in Defaults : r \in Points(rec)
    <2>1. (CHOOSE rec \in Defaults : r \in Points(rec)) \in Defaults
      BY <1>1
    <2>. QED BY <1>1, <2>1, DefaultsAssumption DEF Missing
  <1>2. CASE ~ \E rec \in Defaults : r \in Points(rec)
    BY <1>2 DEF Missing
  <1>. QED BY <1>1, <1>2

\* The class that a code point is resolved to is no annotation; it is AL for one
\* that LineBreak.txt leaves to the default XX.
LEMMA ResolvedClasses ==
  ASSUME files \in Files, NEW r
  PROVE  /\ Annotations(r) \subseteq annotationMask
         /\ ResolvedClass(r) \notin annotationMask
         /\ Covering(files.lb, r) = {} /\ Missing(r) = "XX" => ResolvedClass(r) = "AL"
         /\ Covering(files.lb, r) = {} <=> Unlisted(r)
  <1>1. Annotations(r) \subseteq annotationMask
    BY DEF Annotations, annotationMask
  <1>2. CASE /\ Covering(files.lb, r) = {}
             /\ \A default : In(files.lb, r, default) = default
    <2>1. In(files.lb, r, "none") = "none" /\ In(files.lb, r, Missing(r)) = Missing(r)
      BY <1>2
    <2>2. /\ Missing(r) = "XX" => ResolvedClass(r) = "AL"
          /\ ResolvedClass(r) \in {"AL", "ID", "PR"}
      BY <2>1, MissingRange DEF ResolvedClass
    <2>. QED BY <1>1, <1>2, <2>1, <2>2 DEF annotationMask, Unlisted
  <1>3. CASE \E c : /\ Covering(files.lb, r) = {c}
                    /\ \A default : In(files.lb, r, default) = c
    <2>1. PICK c : /\ Covering(files.lb, r) = {c}
                   /\ \A default : In(files.lb, r, default) = c
      BY <1>3
    <2>2. c \in (Class \ annotationMask) \cup {"AI", "SG", "XX", "CJ", "SA"}
      <3>1. PICK rec \in files.lb : c = rec.class
        BY <2>1 DEF Covering
      <3>. QED BY <3>1, ClassesAssumption
    <2>3. c # "none"
      BY <2>2 DEF Class
    <2>4. In(files.lb, r, "none") = c /\ In(files.lb, r, Missing(r)) = c
      BY <2>1
    <2>5. ResolvedClass(r) \in {"AL", "NS", "CM", c}
      BY <2>4 DEF ResolvedClass
    <2>6. ResolvedClass(r) # c => ResolvedClass(r) \notin annotationMask
      BY <2>5 DEF annotationMask
    <2>7. ResolvedClass(r) = c => c \notin {"AI", "SG", "XX", "CJ", "SA"}
      BY <2>4 DEF ResolvedClass
    <2>8. ResolvedClass(r) \notin annotationMask
      BY <2>2, <2>6, <2>7
    <2>. QED BY <1>1, <2>1, <2>3, <2>4, <2>8 DEF Unlisted
  <1>. QED BY <1>2, <1>3, CoveringFile

\* What the merge makes of it all: the resolved class and the annotations, and
\* nothing for a code point that no file knows; if LineBreak.txt lists the code
\* point, or leaves it to XX.
LEMMA ResolvedValue ==
  ASSUME files \in Files, "AL" \in uniqueClasses(records), NEW r \in Rune,
         Unlisted(r) => Missing(r) = "XX",
         NEW rv, rv = runeValues(files.lb, files.gc, files.ea)
  PROVE  (IF r \in DOMAIN rv THEN rv[r] ELSE {}) = Published(r)
  <1> DEFINE V == Covering(records, r)
             A == Annotations(r)
             R == ResolvedClass(r)
             L == Covering(files.lb, r)
  <1>1. rv = Defaulted(Merged(records), uniqueClasses(records))
    BY DEF runeValues, records
  <1>2. /\ DOMAIN rv = PointsOf(records, uniqueClasses(records)) \ Surrogates
        /\ r \in DOMAIN rv => rv[r] = IF V \ annotationMask = {} THEN V \cup {"AL"} ELSE V
    <2>1. DOMAIN Merged(records) = PointsOf(records, uniqueClasses(records)) \ Surrogates
      BY DEF Merged
    <2>2. r \in DOMAIN Merged(records) => Merged(records)[r] = V
      BY DEF Merged, Covering
    <2>3. DOMAIN rv = DOMAIN Merged(records)
      BY <1>1 DEF Defaulted
    <2>4. r \in DOMAIN rv =>
            rv[r] = IF Merged(records)[r] \ annotationMask = {}
                    THEN Merged(records)[r] \cup {"AL"} ELSE Merged(records)[r]
      BY <1>1 DEF Defaulted
    <2> HIDE DEF V
    <2>. QED BY <2>1, <2>2, <2>3, <2>4
  <1>3. r \in DOMAIN rv <=> V # {}
    <2>1. r \notin Surrogates
      BY FilesAssumption
    <2>2. V \subseteq uniqueClasses(records)
      BY DEF Covering, uniqueClasses
    <2>3. r \in PointsOf(records, uniqueClasses(records))
            <=> V \cap uniqueClasses(records) # {}
      BY PointsOfCovering
    <2> HIDE DEF V
    <2>. QED BY <1>2, <2>1, <2>2, <2>3
  <1>4. V = (IF L = {} THEN {} ELSE {R}) \cup A
    BY CoveringAll
  <1>5. /\ A \subseteq annotationMask /\ R \notin annotationMask
        /\ L = {} => R = "AL"
        /\ L = {} <=> Unlisted(r)
    BY ResolvedClasses
  <1>8. Published(r) = IF L = {} /\ A = {} THEN {} ELSE {R} \cup A
    BY <1>5 DEF Published
  <1> HIDE DEF V, A, R, L
  <1>6. CASE L = {}
    <2>1. V = A /\ V \ annotationMask = {}
      BY <1>4, <1>5, <1>6
    <2>. QED BY <1>2, <1>3, <1>5, <1>6, <1>8, <2>1
  <1>7. CASE L # {}
    <2>1. V = {R} \cup A /\ V \ annotationMask # {}
      BY <1>4, <1>5, <1>7
    <2>. QED BY <1>2, <1>3, <1>5, <1>7, <1>8, <2>1
  <1>. QED BY <1>6, <1>7

\* The values are those of the merge, which nothing changes afterwards.
MergeInv ==
  /\ files \in Files
  /\ phase \in {"merge", "default", "insert", "build", "done", "failed"}
  /\ phase = "default" => values = Merged(records)
  /\ phase \in {"insert", "build", "done", "failed"} =>
       values = runeValues(files.lb, files.gc, files.ea)

\* The values that are inserted are those of the merged records.
LEMMA MergeFirst == Spec => []MergeInv
  <1>1. Init => MergeInv
    BY DEF Init, MergeInv
  <1>2. MergeInv /\ [Next]_vars => MergeInv'
    <2> SUFFICES ASSUME MergeInv, [Next]_vars
                 PROVE  MergeInv'
      OBVIOUS
    <2>1. CASE Merge
      BY <2>1 DEF Merge, MergeInv, records
    <2>2. CASE Default
      BY <2>2 DEF Default, MergeInv, records, runeValues
    <2>3. CASE InsertNext
      BY <2>3 DEF InsertNext, MergeInv
    <2>4. CASE BuildTrie
      BY <2>4 DEF BuildTrie, MergeInv
    <2>5. CASE Offsets
      BY <2>5 DEF Offsets, MergeInv
    <2>6. CASE Printed \/ UNCHANGED vars
      BY <2>6 DEF Printed, vars, MergeInv, records
    <2>. QED BY <2>1, <2>2, <2>3, <2>4, <2>5, <2>6 DEF Next
  <1>. QED BY <1>1, <1>2, PTL DEF Spec

\* docs/phase2.md: "Keep generated artifacts deterministic".  Of two runs over the
\* same files, which may range over the map in different orders, the second is
\* written with primes: in the end they have the same blocks, and the same entries
\* of the index under each slot of these.
THEOREM OneTable ==
  ASSUME MergeInv, TypeOK, Canonical, phase = "done",
         MergeInv', TypeOK', Canonical', phase' = "done",
         files' = files
  PROVE  /\ ValueBlocks' = ValueBlocks
         /\ IndexBlocks' = IndexBlocks
         /\ \A b \in 0 .. Len(IndexBlocks) - 1, s \in Slot :
              Index(b * blockSize + s)' = Index(b * blockSize + s)
  <1>1. values' = values
    BY DEF MergeInv
  <1>2. ascii' = ascii /\ leaves' = leaves
    BY <1>1 DEF Canonical
  <1>3. Nodes' = Nodes /\ Contents' = Contents /\ Itself' = Itself
    BY <1>2 DEF Nodes, Inner, Contents, Content, Itself
  <1>4. /\ TrieTypeOK /\ Nodes \subseteq Path /\ DOMAIN leaves \subseteq Nodes
        /\ DOMAIN Contents = Nodes \ (DOMAIN leaves \cup {<<>>})
    BY NodePath, LeafIsNode DEF TypeOK, Contents, Inner
  <1>5. /\ ValueBlocks \in Seq(Block) /\ ValueBlocks' \in Seq(Block)
        /\ IndexBlocks \in Seq(Nodes \cup {Dummy}) /\ IndexBlocks' \in Seq(Nodes \cup {Dummy})
    BY <1>3 DEF TypeOK, BlocksTypeOK
  <1>6. /\ FixedBlocks /\ FixedBlocks'
        /\ Placed(ValueBlocks, 3, leaves, leaves, Nodes)
        /\ Placed(ValueBlocks', 3, leaves, leaves, Nodes)
        /\ Placed(IndexBlocks, 4, Contents, Itself, Nodes)
        /\ Placed(IndexBlocks', 4, Contents, Itself, Nodes)
        /\ DOMAIN index = Nodes /\ DOMAIN index' = Nodes
        /\ Shared(index, leaves, 0, Nodes) /\ Shared(index', leaves, 0, Nodes)
        /\ Shared(index, Contents, 1, Nodes) /\ Shared(index', Contents, 1, Nodes)
    BY <1>2, <1>3 DEF Canonical
  <1>7. ValueBlocks' = ValueBlocks
    <2>1. \A i \in 1 .. 3 : ValueBlocks[i] = ValueBlocks'[i]
      <3>1. \A i \in 1 .. 3 : i = 1 \/ i = 2 \/ i = 3
        OBVIOUS
      <3>. QED BY <1>2, <1>6, <3>1 DEF FixedBlocks
    <2>. QED BY <1>5, <1>6, <2>1, PlacedOnce
  <1>8. IndexBlocks' = IndexBlocks
    <2>1. \A i \in 1 .. 4 : IndexBlocks[i] = IndexBlocks'[i]
      <3>1. \A i \in 1 .. 4 : i \in 1 .. 3 \/ i = 4
        OBVIOUS
      <3>. QED BY <1>6, <3>1 DEF FixedBlocks
    <2>. QED BY <1>5, <1>6, <2>1, PlacedOnce
  <1>9. ASSUME NEW n \in Nodes, n # <<>> PROVE index'[n] = index[n]
    <2>1. CASE n \in DOMAIN leaves
      BY <1>4, <1>6, <2>1, SharedOnce
    <2>2. CASE n \in DOMAIN Contents
      BY <1>4, <1>6, <2>2, SharedOnce
    <2>. QED BY <1>4, <1>9, <2>1, <2>2
  <1>10. ASSUME NEW b \in 0 .. Len(IndexBlocks) - 1, NEW s \in Slot
         PROVE  Index(b * blockSize + s)' = Index(b * blockSize + s)
    <2> DEFINE n == IndexBlocks[b + 1]
    <2>1. n \in Nodes \cup {Dummy} /\ b \in Nat
      BY <1>5
    <2>2. /\ Index(b * blockSize + s) = IF Append(n, s) \in Nodes THEN index[Append(n, s)] ELSE 0
          /\ Index(b * blockSize + s)' = IF Append(n, s) \in Nodes THEN index'[Append(n, s)] ELSE 0
      BY <1>6, <1>8, <2>1, Divided DEF Index
    <2>3. CASE n \in Nodes
      <3>1. Append(n, s) # <<>>
        BY <1>4, <2>3, Longer
      <3>. QED BY <1>9, <2>2, <3>1
    <2>4. CASE n = Dummy
      BY <1>4, <2>2, <2>4, DummyHasNoChildren
    <2>. QED BY <2>1, <2>3, <2>4
  <1>. QED BY <1>7, <1>8, <1>10

\* LB1, as the lookup tells it in the end: each rune that LineBreak.txt lists, or
\* leaves to the default XX, has its one resolved class and its annotations, and one
\* that no file knows has nothing.
THEOREM ClassesCorrect == Spec => []ClassesResolved
  <1>1. MergeInv /\ InsertInv /\ TypeOK /\ GeneratorInv => ClassesResolved
    <2>. SUFFICES ASSUME MergeInv, InsertInv, TypeOK, GeneratorInv,
                         phase = "done", "AL" \in uniqueClasses(records),
                         NEW r \in Rune, Unlisted(r) => Missing(r) = "XX"
                  PROVE  lookupEncoding(Encode[r]) = Published(r)
      BY DEF ClassesResolved, Printable
    <2>1. lookupEncoding(Encode[r]) = InNodes(Encode[r])
      BY RunesAreEncodings, DoneReadsNodes
    <2>2. InNodes(Encode[r]) = IF r \in DOMAIN values THEN values[r] ELSE {}
      BY DEF GeneratorInv, NodesHold, Inserted
    <2>3. files \in Files /\ values = runeValues(files.lb, files.gc, files.ea)
      BY DEF MergeInv
    <2>. QED BY <2>1, <2>2, <2>3, ResolvedValue
  <1>. QED BY <1>1, MergeFirst, InsertKeepsInv, TypeAndBlocks, PTL
=============================================================================
