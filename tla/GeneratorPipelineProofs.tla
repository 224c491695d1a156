---------------------- MODULE GeneratorPipelineProofs ----------------------
(***************************************************************************)
(* What a run of the generator promises, for every set of files, whatever  *)
(* the faults and the changes of the cache between the runs.               *)
(***************************************************************************)
EXTENDS GeneratorPipeline, TLAPS

USE DEF LineBreak, GeneralCategory, EastAsianWidth, LineBreakTest, FileName

-----------------------------------------------------------------------------
(* Type correctness.                                                       *)

\* Every variable keeps its type, and a run is under way just while the status
\* says so (main returns, or ends in fail).
THEOREM TypeCorrect == Spec => []TypeOK
  <1>1. Init => TypeOK
    <2>. SUFFICES ASSUME Init PROVE TypeOK
      OBVIOUS
    <2>1. PICK l \in Held(LineBreak), g \in Held(GeneralCategory),
               e \in Held(EastAsianWidth), t \in Held(LineBreakTest) :
            cache = [ f \in FileName |-> CASE f = LineBreak       -> l
                                           [] f = GeneralCategory -> g
                                           [] f = EastAsianWidth  -> e
                                           [] OTHER               -> t ]
      BY DEF Init
    <2>2. \A f \in FileName : cache[f] \in Held(f)
      BY <2>1
    <2>3. cache = [f \in FileName |-> cache[f]]
      BY <2>1
    <2>. QED BY <2>2, <2>3, PipelineAssumption DEF Init, TypeOK
  <1>2. TypeOK /\ [Next]_vars => TypeOK'
    <2>. SUFFICES ASSUME TypeOK, [Next]_vars PROVE TypeOK'
      OBVIOUS
    <2>1. CASE Start
      BY <2>1 DEF Start, Go, TypeOK, files
    <2>2. CASE Run
      BY <2>2 DEF Run, LoadLineBreak, LoadGeneralCategory, LoadEastAsianWidth,
                  CutTrie, WriteTrie, LoadLineBreakTest, CutTests, WriteTests,
                  Go, Fail, TypeOK
    <2>3. CASE Stop
      BY <2>3, PipelineAssumption DEF Stop, Fail, TypeOK
    <2>4. CASE ChangeCache
      <3>1. PICK f \in FileName : \E c \in Held(f) : cache' = [cache EXCEPT ![f] = c]
        BY <2>4 DEF ChangeCache
      <3>2. \A g \in FileName : cache'[g] \in Held(g)
        BY <3>1 DEF TypeOK
      <3>3. cache' = [g \in FileName |-> cache'[g]]
        BY <3>1 DEF TypeOK
      <3>. QED BY <2>4, <3>2, <3>3, PipelineAssumption DEF ChangeCache, TypeOK
    <2>5. CASE UNCHANGED vars
      BY <2>5 DEF vars, TypeOK
    <2>. QED BY <2>1, <2>2, <2>3, <2>4, <2>5 DEF Next
  <1>. QED BY <1>1, <1>2, PTL DEF Spec

-----------------------------------------------------------------------------
(* The invariant of a run.                                                 *)

\* cachePath never returns the empty string: loadData reads the cache.
LEMMA LoadsFromCache ==
  ASSUME NEW f
  PROVE  loadData(f) = InCache(f)
  <1>1. cachePath(f) # <<>>
    BY DEF cachePath
  <1>. QED BY <1>1 DEF loadData, InCache

\* What a run loads is what the cache holds.
LEMMA LoadedFromCache ==
  ASSUME NEW f, loadData(f).ok
  PROVE  cache[f] # Missing /\ loadData(f).content = cache[f]
  BY LoadsFromCache DEF InCache, Loaded, Error

\* A run leaves the cache alone, and what it would load with it.
LEMMA SameData ==
  ASSUME UNCHANGED cache
  PROVE  /\ \A f : DataOf(f)' = DataOf(f)
         /\ \A f : TestsOf(f)' = TestsOf(f)
  BY DEF DataOf, TestsOf, InCache

\* A run that has come past the test file has seen a good cache, and its table.
LEMMA GoodWhenPast ==
  ASSUME RunInv, pc \in AfterTests
  PROVE  GoodCache /\ TrieCurrent
  <1>1. /\ Took(LineBreak, records) /\ VersionMatches(cache[LineBreak])
        /\ Took(GeneralCategory, categories)
        /\ Took(EastAsianWidth, widths)
        /\ Formattable(records, categories, widths)
        /\ TestsOf(LineBreakTest).ok
        /\ TrieCurrent
    BY DEF RunInv, AfterTests, AfterTrie, AfterFormat, AfterWidths,
           AfterCategories, AfterLineBreak
  <1>. QED BY <1>1 DEF GoodCache, Took

\* What the run has behind it is still so, as long as neither the cache nor what
\* was parsed changes.
LEMMA StillTook ==
  ASSUME UNCHANGED cache
  PROVE  /\ UNCHANGED records => Took(LineBreak, records)' = Took(LineBreak, records)
         /\ UNCHANGED categories =>
              Took(GeneralCategory, categories)' = Took(GeneralCategory, categories)
         /\ UNCHANGED widths =>
              Took(EastAsianWidth, widths)' = Took(EastAsianWidth, widths)
         /\ VersionMatches(cache[LineBreak])' = VersionMatches(cache[LineBreak])
         /\ TestsOf(LineBreakTest)' = TestsOf(LineBreakTest)
         /\ UNCHANGED trieFile => TrieCurrent' = TrieCurrent
  BY SameData DEF Took, VersionMatches, TrieCurrent, TableOf

\* Exit status 0 means that the cache is good and both outputs are its own; and
\* half-way, that what the run has done so far is sound.
THEOREM RunCorrect == Spec => []RunInv
  <1>. USE DEF AfterTests, AfterTrie, AfterFormat, AfterWidths,
               AfterCategories, AfterLineBreak, Go
  <1>1. Init => RunInv
    BY DEF Init, RunInv, SuccessMeansUpToDate
  <1>2. TypeOK /\ RunInv /\ [Next]_vars => RunInv'
    <2>. SUFFICES ASSUME TypeOK, RunInv, [Next]_vars PROVE RunInv'
      OBVIOUS
    <2>1. CASE Start
      BY <2>1 DEF Start, RunInv, SuccessMeansUpToDate
    <2>2. CASE LoadLineBreak
      <3>1. CASE pc' = GeneralCategory
        <4>1. /\ UNCHANGED cache /\ status' # "ok"
              /\ loadData(LineBreak).ok
              /\ VersionMatches(loadData(LineBreak).content)
              /\ DataOf(LineBreak).ok /\ records' = DataOf(LineBreak).records
          BY <2>2, <3>1, LoadsFromCache DEF LoadLineBreak, Fail, DataOf, TypeOK
        <4>2. Took(LineBreak, records)' /\ VersionMatches(cache[LineBreak])'
          BY <4>1, SameData, LoadedFromCache DEF Took, VersionMatches
        <4>. QED BY <3>1, <4>1, <4>2 DEF RunInv, SuccessMeansUpToDate
      <3>2. CASE pc' # GeneralCategory
        BY <2>2, <3>2 DEF LoadLineBreak, Fail, RunInv, SuccessMeansUpToDate
      <3>. QED BY <3>1, <3>2
    <2>3. CASE LoadGeneralCategory
      <3>1. CASE pc' = EastAsianWidth
        <4>1. /\ UNCHANGED <<cache, records>> /\ status' # "ok"
              /\ pc = GeneralCategory
              /\ DataOf(GeneralCategory).ok
              /\ categories' = DataOf(GeneralCategory).records
          BY <2>3, <3>1, LoadsFromCache DEF LoadGeneralCategory, Fail, DataOf, TypeOK
        <4>2. Took(GeneralCategory, categories)'
          BY <4>1, SameData DEF Took
        <4>. QED BY <3>1, <4>1, <4>2, StillTook DEF RunInv, SuccessMeansUpToDate
      <3>2. CASE pc' # EastAsianWidth
        BY <2>3, <3>2 DEF LoadGeneralCategory, Fail, RunInv, SuccessMeansUpToDate
      <3>. QED BY <3>1, <3>2
    <2>4. CASE LoadEastAsianWidth
      <3>1. CASE pc' = "cutTrie"
        <4>1. /\ UNCHANGED <<cache, records, categories>> /\ status' # "ok"
              /\ pc = EastAsianWidth
              /\ DataOf(EastAsianWidth).ok
              /\ widths' = DataOf(EastAsianWidth).records
          BY <2>4, <3>1, LoadsFromCache DEF LoadEastAsianWidth, Fail, DataOf, TypeOK
        <4>2. Took(EastAsianWidth, widths)'
          BY <4>1, SameData DEF Took
        <4>. QED BY <3>1, <4>1, <4>2, StillTook DEF RunInv, SuccessMeansUpToDate
      <3>2. CASE pc' # "cutTrie"
        BY <2>4, <3>2 DEF LoadEastAsianWidth, Fail, RunInv, SuccessMeansUpToDate
      <3>. QED BY <3>1, <3>2
    <2>5. CASE CutTrie
      <3>1. CASE pc' = "writeTrie"
        <4>1. /\ UNCHANGED <<cache, parsed>> /\ status' # "ok" /\ pc = "cutTrie"
              /\ Formattable(records, categories, widths)
          BY <2>5, <3>1 DEF CutTrie, Fail, TypeOK
        <4>2. Formattable(records, categories, widths)'
          BY <4>1 DEF parsed
        <4>. QED BY <3>1, <4>1, <4>2, StillTook
                 DEF RunInv, SuccessMeansUpToDate, parsed
      <3>2. CASE pc' # "writeTrie"
        BY <2>5, <3>2 DEF CutTrie, Fail, RunInv, SuccessMeansUpToDate
      <3>. QED BY <3>1, <3>2
    <2>6. CASE WriteTrie
      <3>1. /\ UNCHANGED <<cache, parsed>> /\ status' # "ok"
            /\ pc = "writeTrie" /\ pc' = LineBreakTest
            /\ trieFile' = Complete(runeValues(records, categories, widths))
        BY <2>6 DEF WriteTrie, TypeOK
      <3>2. /\ records = DataOf(LineBreak).records
            /\ categories = DataOf(GeneralCategory).records
            /\ widths = DataOf(EastAsianWidth).records
        BY <3>1 DEF RunInv, Took
      <3>3. TrieCurrent'
        BY <3>1, <3>2, SameData DEF TrieCurrent, TableOf
      <3>4. Formattable(records, categories, widths)'
        BY <3>1 DEF parsed, RunInv
      <3>. QED BY <3>1, <3>3, <3>4, StillTook DEF RunInv, SuccessMeansUpToDate, parsed
    <2>7. CASE LoadLineBreakTest
      <3>1. CASE pc' = "cutTests"
        <4>1. /\ UNCHANGED <<cache, records, categories, widths, trieFile>>
              /\ status' # "ok" /\ pc = LineBreakTest
              /\ TestsOf(LineBreakTest).ok
              /\ tests' = TestsOf(LineBreakTest).tests
          BY <2>7, <3>1, LoadsFromCache
             DEF LoadLineBreakTest, Fail, TestsOf, TypeOK, files
        <4>2. Formattable(records, categories, widths)'
          BY <4>1 DEF RunInv
        <4>. QED BY <3>1, <4>1, <4>2, StillTook DEF RunInv, SuccessMeansUpToDate
      <3>2. CASE pc' # "cutTests"
        BY <2>7, <3>2 DEF LoadLineBreakTest, Fail, RunInv, SuccessMeansUpToDate
      <3>. QED BY <3>1, <3>2
    <2>8. CASE CutTests
      <3>1. /\ UNCHANGED <<cache, parsed, trieFile>> /\ status' # "ok"
            /\ pc = "cutTests" /\ pc' = "writeTests"
        BY <2>8 DEF CutTests, TypeOK
      <3>2. Formattable(records, categories, widths)'
        BY <3>1 DEF parsed, RunInv
      <3>. QED BY <3>1, <3>2, StillTook DEF RunInv, SuccessMeansUpToDate, parsed
    <2>9. CASE WriteTests
      <3>1. /\ UNCHANGED <<cache, trieFile>> /\ pc = "writeTests" /\ pc' = "idle"
            /\ testFile' = Complete(tests)
        BY <2>9 DEF WriteTests
      <3>2. /\ GoodCache /\ TrieCurrent
            /\ tests = TestsOf(LineBreakTest).tests
        BY <3>1, GoodWhenPast DEF RunInv
      <3>3. GoodCache' /\ TrieCurrent'
        BY <3>1, <3>2, StillTook, SameData DEF GoodCache
      <3>4. TestsCurrent'
        BY <3>1, <3>2, StillTook DEF TestsCurrent
      <3>. QED BY <3>1, <3>3, <3>4 DEF RunInv, SuccessMeansUpToDate, UpToDate
    <2>10. CASE Stop \/ ChangeCache
      BY <2>10 DEF Stop, Fail, ChangeCache, TypeOK, RunInv, SuccessMeansUpToDate
    <2>11. CASE UNCHANGED vars
      <3>1. GoodCache' = GoodCache
        BY <2>11, StillTook, SameData DEF vars, GoodCache
      <3>2. TestsCurrent' = TestsCurrent
        BY <2>11, StillTook DEF vars, files, TestsCurrent
      <3>3. SuccessMeansUpToDate'
        BY <2>11, <3>1, <3>2, StillTook
           DEF vars, files, RunInv, SuccessMeansUpToDate, UpToDate
      <3>4. Formattable(records, categories, widths)'
              = Formattable(records, categories, widths)
        BY <2>11 DEF vars, parsed
      <3>. QED BY <2>11, <3>3, <3>4, StillTook DEF vars, files, parsed, RunInv
    <2>. QED BY <2>1, <2>2, <2>3, <2>4, <2>5, <2>6, <2>7, <2>8, <2>9, <2>10, <2>11
             DEF Next, Run
  <1>. QED BY <1>1, <1>2, TypeCorrect, PTL DEF Spec

\* Exit status 0 means that the cache is good and both outputs are its own.
THEOREM SuccessIsTrue == Spec => []SuccessMeansUpToDate
  <1>1. RunInv => SuccessMeansUpToDate
    BY DEF RunInv
  <1>. QED BY <1>1, RunCorrect, PTL

\* The test file changes only when trie.go is complete and made from the cache.
THEOREM TestsAfterTable == Spec => TestsFollowTable
  <1>1. TypeOK /\ RunInv /\ [Next]_vars => [testFile' # testFile => TrieCurrent]_vars
    <2>. SUFFICES ASSUME RunInv, Next, testFile' # testFile PROVE TrieCurrent
      OBVIOUS
    <2>1. CutTests \/ WriteTests
      BY DEF Next, Start, Run, LoadLineBreak, LoadGeneralCategory,
             LoadEastAsianWidth, CutTrie, WriteTrie, LoadLineBreakTest, Stop,
             ChangeCache, files
    <2>2. pc \in AfterTests
      BY <2>1 DEF CutTests, WriteTests, Go, AfterTests
    <2>. QED BY <2>2, GoodWhenPast
  <1>. QED BY <1>1, TypeCorrect, RunCorrect, PTL DEF Spec, TestsFollowTable

\* What a run has parsed without an error, it has from a file without one.
LEMMA ParsedSound ==
  ASSUME TypeOK, NEW f \in FileName, DataOf(f).ok
  PROVE  /\ cache[f] \in Sound(f)
         /\ DataOf(f) = parseLineBreak(cache[f].lines)
  <1>1. InCache(f).ok
    BY DEF DataOf, ParsedData
  <1>2. cache[f] # Missing /\ InCache(f).content = cache[f]
    BY <1>1 DEF InCache, Loaded, Error
  <1>3. DataOf(f) = parseLineBreak(cache[f].lines)
    BY <1>1, <1>2 DEF DataOf, ParsedData
  <1>4. \A l \in ToSet(cache[f].lines) : l.kind = "skip" \/ ValidEntry(l)
    BY <1>3 DEF parseLineBreak
  <1>5. cache[f] \in Contents[f]
    BY <1>2 DEF TypeOK, Held
  <1>. QED BY <1>3, <1>4, <1>5 DEF Sound

\* A table is never made of a LineBreak.txt of another version, nor of any file
\* with a malformed line, however runs, faults and changes of the cache follow.
THEOREM NoBadInput == Spec => []NeverFromBadInput
  <1>1. Init => NeverFromBadInput
    BY DEF Init, NeverFromBadInput
  <1>2. TypeOK /\ RunInv /\ NeverFromBadInput /\ [Next]_vars => NeverFromBadInput'
    <2>. SUFFICES ASSUME TypeOK, RunInv, NeverFromBadInput, [Next]_vars
                  PROVE  NeverFromBadInput'
      OBVIOUS
    <2>1. CASE WriteTrie
      <3>1. /\ Took(LineBreak, records) /\ VersionMatches(cache[LineBreak])
            /\ Took(GeneralCategory, categories)
            /\ Took(EastAsianWidth, widths)
        BY <2>1 DEF WriteTrie, Go, RunInv, AfterTests, AfterTrie, AfterFormat,
                    AfterWidths, AfterCategories, AfterLineBreak
      <3>2. trieFile' = TableOf(parseLineBreak(cache[LineBreak].lines),
                                parseLineBreak(cache[GeneralCategory].lines),
                                parseLineBreak(cache[EastAsianWidth].lines))
        BY <2>1, <3>1, ParsedSound DEF WriteTrie, Took, TableOf
      <3>3. /\ cache[LineBreak] \in Sound(LineBreak)
            /\ cache[GeneralCategory] \in Sound(GeneralCategory)
            /\ cache[EastAsianWidth] \in Sound(EastAsianWidth)
        BY <3>1, ParsedSound DEF Took
      <3>. QED BY <3>1, <3>2, <3>3 DEF NeverFromBadInput
    <2>2. CASE CutTrie
      BY <2>2 DEF CutTrie, NeverFromBadInput
    <2>3. CASE UNCHANGED trieFile
      BY <2>3 DEF NeverFromBadInput
    <2>4. WriteTrie \/ CutTrie \/ UNCHANGED trieFile
      BY DEF Next, Start, Run, LoadLineBreak, LoadGeneralCategory,
             LoadEastAsianWidth, LoadLineBreakTest, CutTests, WriteTests, Stop,
             ChangeCache, files, vars
    <2>. QED BY <2>1, <2>2, <2>3, <2>4
  <1>. QED BY <1>1, <1>2, TypeCorrect, RunCorrect, PTL DEF Spec
=============================================================================
