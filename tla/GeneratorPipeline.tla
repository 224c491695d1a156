------------------------- MODULE GeneratorPipeline -------------------------
(***************************************************************************)
(* `go generate` (internal/gen/main.go): a process that reads the cached   *)
(* Unicode files, writes trie.go, reads the conformance cases and writes   *)
(* unicode_tests.go, and gives up at the first error.                      *)
(*                                                                         *)
(* The environment is a developer, who changes the cache between runs and  *)
(* runs the generator again, and faults: a run may be killed at any step,  *)
(* and a write may fail.  os.WriteFile cuts the file off first and writes  *)
(* it then, so that either leaves a file in part.                          *)
(***************************************************************************)
EXTENDS PropertyTable, UnicodeFiles

CONSTANTS
  Contents,     \* what the cache may hold, by file name
  Remote,       \* what unicode.org answers, for the files it has
  Identifiers,  \* the classes that make a Go identifier: gofmt fails on others
  OldTable, OldTests,   \* what the two outputs hold at first
  MaxChanges,   \* bound on the changes of the cache
  MaxFaults     \* bound on kills and failed writes

unicodeVersion == "17.0.0"

LineBreak       == "LineBreak.txt"
GeneralCategory == "DerivedGeneralCategory.txt"
EastAsianWidth  == "EastAsianWidth.txt"
LineBreakTest   == "LineBreakTest.txt"
FileName == {LineBreak, GeneralCategory, EastAsianWidth, LineBreakTest}

\* A content is [version, lines]; this is that of a file that is not there.
Missing == [version |-> "none", lines |-> <<>>]
Held(f) == Contents[f] \cup {Missing}

ASSUME PipelineAssumption ==
  /\ DOMAIN Contents = FileName
  /\ DOMAIN Remote \subseteq FileName
  /\ \A f \in DOMAIN Remote : Remote[f] \in Contents[f]
  /\ MaxChanges \in Nat /\ MaxFaults \in Nat

VARIABLES
  cache,                     \* the files in cache/17.0.0, by name
  trieFile, testFile,        \* trie.go and unicode_tests.go
  pc, status,                \* where the run is, how the last one ended
  records, categories, widths, tests,   \* what the run has parsed
  changes, faults

files  == <<trieFile, testFile>>
parsed == <<records, categories, widths, tests>>
vars   == <<cache, files, pc, status, parsed, changes, faults>>

\* A Go file: complete, cut off or written in part.
Complete(of) == [complete |-> TRUE, of |-> of]
Partial == [complete |-> FALSE, of |-> <<>>]

-----------------------------------------------------------------------------
(* loadData and generateTrieSource.                                        *)

\* A path is the sequence of its elements, the empty string is <<>>.
cacheDir == "cache"

\* Mutant: the path of a file that is not there is empty.
Mutant_cachePath(fileName) ==
  IF cache[fileName] = Missing THEN <<>> ELSE <<cacheDir, unicodeVersion, fileName>>

cachePath(fileName) == <<cacheDir, unicodeVersion, fileName>>

\* What loadData returns: a content, or an error.
Loaded(content) == [ok |-> TRUE, content |-> content]
Error == [ok |-> FALSE]

Download(f) == IF f \in DOMAIN Remote THEN Loaded(Remote[f]) ELSE Error

loadData(f) ==
  IF cachePath(f) # <<>>
  THEN IF cache[f] # Missing THEN Loaded(cache[f]) ELSE Error
  ELSE Download(f)

\* "unknown" is what extractVersion says of a file without a version.
VersionMatches(content) == content.version \in {"unknown", unicodeVersion}

\* parseLineBreak of a loaded file.
ParsedData(loaded) ==
  IF loaded.ok THEN parseLineBreak(loaded.content.lines)
  ELSE [ok |-> FALSE, records |-> {}]

\* parseLineBreakTests of a loaded file.
ParsedTests(loaded) ==
  IF loaded.ok THEN parseLineBreakTests(loaded.content.lines)
  ELSE [ok |-> FALSE, tests |-> <<>>]

\* format.Source takes the generated source.
Formattable(lb, gc, ea) == uniqueClasses(allRecords(lb, gc, ea)) \subseteq Identifiers

-----------------------------------------------------------------------------
(* One run.                                                                *)

Go(from, to) == pc = from /\ pc' = to

\* Mutant: the program ends without setting the exit status.
Mutant_Fail == pc' = "idle" /\ UNCHANGED status

\* fail: exit status 1.
Fail == pc' = "idle" /\ status' = "failed"

Start ==
  /\ Go("idle", LineBreak)
  /\ status' = "running"
  /\ records' = {} /\ categories' = {} /\ widths' = {} /\ tests' = <<>>
  /\ UNCHANGED <<cache, files, changes, faults>>

\* Mutant: a file that does not tell its version is refused.
MutantStrict_LoadLineBreak ==
  /\ pc = LineBreak
  /\ LET loaded == loadData(LineBreak)
         result == ParsedData(loaded)
     IN  IF /\ loaded.ok
            /\ loaded.content.version = unicodeVersion
            /\ result.ok
         THEN /\ Go(LineBreak, GeneralCategory)
              /\ records' = result.records
              /\ UNCHANGED status
         ELSE Fail /\ UNCHANGED records
  /\ UNCHANGED <<cache, files, categories, widths, tests, changes, faults>>

\* Mutant: the version of the file is not compared.
Mutant_LoadLineBreak ==
  /\ pc = LineBreak
  /\ LET loaded == loadData(LineBreak)
         result == ParsedData(loaded)
     IN  IF loaded.ok /\ result.ok
         THEN /\ Go(LineBreak, GeneralCategory)
              /\ records' = result.records
              /\ UNCHANGED status
         ELSE Fail /\ UNCHANGED records
  /\ UNCHANGED <<cache, files, categories, widths, tests, changes, faults>>

LoadLineBreak ==
  /\ pc = LineBreak
  /\ LET loaded == loadData(LineBreak)
         result == ParsedData(loaded)
     IN  IF loaded.ok /\ VersionMatches(loaded.content) /\ result.ok
         THEN /\ Go(LineBreak, GeneralCategory)
              /\ records' = result.records
              /\ UNCHANGED status
         ELSE Fail /\ UNCHANGED records
  /\ UNCHANGED <<cache, files, categories, widths, tests, changes, faults>>

LoadGeneralCategory ==
  /\ pc = GeneralCategory
  /\ LET result == ParsedData(loadData(GeneralCategory))
     IN  IF result.ok
         THEN /\ Go(GeneralCategory, EastAsianWidth)
              /\ categories' = result.records
              /\ UNCHANGED status
         ELSE Fail /\ UNCHANGED categories
  /\ UNCHANGED <<cache, files, records, widths, tests, changes, faults>>

LoadEastAsianWidth ==
  /\ pc = EastAsianWidth
  /\ LET result == ParsedData(loadData(EastAsianWidth))
     IN  IF result.ok
         THEN /\ Go(EastAsianWidth, "cutTrie")
              /\ widths' = result.records
              /\ UNCHANGED status
         ELSE Fail /\ UNCHANGED widths
  /\ UNCHANGED <<cache, files, records, categories, tests, changes, faults>>

\* generateTrieSource and format.Source, then the first half of the write.
CutTrie ==
  /\ pc = "cutTrie"
  /\ IF Formattable(records, categories, widths)
     THEN /\ Go("cutTrie", "writeTrie")
          /\ trieFile' = Partial
          /\ UNCHANGED status
     ELSE Fail /\ UNCHANGED trieFile
  /\ UNCHANGED <<cache, testFile, parsed, changes, faults>>

\* Mutant: the error of the write is dropped.
Mutant_WriteTrie ==
  /\ Go("writeTrie", LineBreakTest)
  /\ trieFile' \in {Partial, Complete(runeValues(records, categories, widths))}
  /\ UNCHANGED <<cache, testFile, status, parsed, changes, faults>>

WriteTrie ==
  /\ Go("writeTrie", LineBreakTest)
  /\ trieFile' = Complete(runeValues(records, categories, widths))
  /\ UNCHANGED <<cache, testFile, status, parsed, changes, faults>>

LoadLineBreakTest ==
  /\ pc = LineBreakTest
  /\ LET result == ParsedTests(loadData(LineBreakTest))
     IN  IF result.ok
         THEN /\ Go(LineBreakTest, "cutTests")
              /\ tests' = result.tests
              /\ UNCHANGED status
         ELSE Fail /\ UNCHANGED tests
  /\ UNCHANGED <<cache, files, records, categories, widths, changes, faults>>

CutTests ==
  /\ Go("cutTests", "writeTests")
  /\ testFile' = Partial
  /\ UNCHANGED <<cache, trieFile, status, parsed, changes, faults>>

WriteTests ==
  /\ Go("writeTests", "idle")
  /\ testFile' = Complete(tests)
  /\ status' = "ok"
  /\ UNCHANGED <<cache, trieFile, parsed, changes, faults>>

Run ==
  \/ LoadLineBreak \/ LoadGeneralCategory \/ LoadEastAsianWidth
  \/ CutTrie \/ WriteTrie \/ LoadLineBreakTest \/ CutTests \/ WriteTests

-----------------------------------------------------------------------------
(* The environment.                                                        *)

\* The run is killed, or a write fails before (cutTrie, cutTests) or after the
\* file has been cut off.
Stop ==
  /\ pc # "idle"
  /\ faults < MaxFaults
  /\ faults' = faults + 1
  /\ Fail
  /\ UNCHANGED <<cache, files, parsed, changes>>

\* The developer puts a file into the cache, or takes one away, between runs.
ChangeCache ==
  /\ pc = "idle"
  /\ changes < MaxChanges
  /\ changes' = changes + 1
  /\ status' = "none"
  /\ \E f \in FileName : \E c \in Held(f) : cache' = [cache EXCEPT ![f] = c]
  /\ UNCHANGED <<files, pc, parsed, faults>>

Init ==
  /\ \E l \in Held(LineBreak), g \in Held(GeneralCategory),
        e \in Held(EastAsianWidth), t \in Held(LineBreakTest) :
       cache = [ f \in FileName |-> CASE f = LineBreak       -> l
                                      [] f = GeneralCategory -> g
                                      [] f = EastAsianWidth  -> e
                                      [] OTHER               -> t ]
  /\ trieFile = Complete(OldTable)
  /\ testFile = Complete(OldTests)
  /\ pc = "idle" /\ status = "none"
  /\ records = {} /\ categories = {} /\ widths = {} /\ tests = <<>>
  /\ changes = 0 /\ faults = 0

Next == Start \/ Run \/ Stop \/ ChangeCache

Fairness == WF_vars(Run) /\ WF_vars(Start)

Spec == Init /\ [][Next]_vars /\ Fairness

-----------------------------------------------------------------------------
(* Properties.                                                             *)

TypeOK ==
  /\ cache = [f \in FileName |-> cache[f]]
  /\ \A f \in FileName : cache[f] \in Held(f)
  /\ pc \in FileName \cup {"idle", "cutTrie", "writeTrie", "cutTests", "writeTests"}
  /\ status \in {"none", "running", "ok", "failed"}
  /\ pc # "idle" <=> status = "running"
  /\ changes \in 0 .. MaxChanges
  /\ faults \in 0 .. MaxFaults

\* What the outputs should be, given the files in the cache, and these alone.
InCache(f) == IF cache[f] = Missing THEN Error ELSE Loaded(cache[f])
DataOf(f) == ParsedData(InCache(f))
TestsOf(f) == ParsedTests(InCache(f))
TableOf(lb, gc, ea) == Complete(runeValues(lb.records, gc.records, ea.records))

\* The cache is one that a run can use.
GoodCache ==
  /\ \A f \in {LineBreak, GeneralCategory, EastAsianWidth} : DataOf(f).ok
  /\ VersionMatches(cache[LineBreak])
  /\ Formattable(DataOf(LineBreak).records, DataOf(GeneralCategory).records,
                 DataOf(EastAsianWidth).records)
  /\ TestsOf(LineBreakTest).ok

TrieCurrent ==
  trieFile = TableOf(DataOf(LineBreak), DataOf(GeneralCategory),
                     DataOf(EastAsianWidth))
TestsCurrent == testFile = Complete(TestsOf(LineBreakTest).tests)
UpToDate == GoodCache /\ TrieCurrent /\ TestsCurrent

\* Exit status 0 means that the cache is good and both outputs are its own: a run
\* never skips over an error, a half of the work, or a failed write.
SuccessMeansUpToDate == status = "ok" => UpToDate

\* What a run has behind it, by where it stands: what it has parsed is still what
\* the cache holds, and the errors it has passed over are none.  (The invariant
\* that SuccessMeansUpToDate and TestsFollowTable rest on.)
AfterTests      == {"cutTests", "writeTests"}
AfterTrie       == {LineBreakTest} \cup AfterTests
AfterFormat     == {"writeTrie"} \cup AfterTrie
AfterWidths     == {"cutTrie"} \cup AfterFormat
AfterCategories == {EastAsianWidth} \cup AfterWidths
AfterLineBreak  == {GeneralCategory} \cup AfterCategories

Took(f, parse) == DataOf(f).ok /\ parse = DataOf(f).records

RunInv ==
  /\ pc \in AfterLineBreak =>
       Took(LineBreak, records) /\ VersionMatches(cache[LineBreak])
  /\ pc \in AfterCategories => Took(GeneralCategory, categories)
  /\ pc \in AfterWidths => Took(EastAsianWidth, widths)
  /\ pc \in AfterFormat => Formattable(records, categories, widths)
  /\ pc \in AfterTrie => TrieCurrent
  /\ pc \in AfterTests => /\ TestsOf(LineBreakTest).ok
                         /\ tests = TestsOf(LineBreakTest).tests
  /\ SuccessMeansUpToDate

\* main.go:54: a table is never made of a LineBreak.txt of another version (the
\* one file whose version is compared), nor of any file with a malformed line,
\* however runs and faults follow each other.
Sound(f) ==
  {c \in Contents[f] : \A l \in ToSet(c.lines) : l.kind = "skip" \/ ValidEntry(l)}
NeverFromBadInput ==
  trieFile \in {Complete(OldTable), Partial} \cup
    { TableOf(parseLineBreak(lb.lines), parseLineBreak(gc.lines),
              parseLineBreak(ea.lines)) :
        lb \in {c \in Sound(LineBreak) : VersionMatches(c)},
        gc \in Sound(GeneralCategory), ea \in Sound(EastAsianWidth) }

\* New cases are never put beside an old table, or beside half of one: the test
\* file changes only when trie.go is complete and made from the cache.
TestsFollowTable == [][testFile' # testFile => TrieCurrent]_vars

\* The parsed cases: offsets increase, each lies at the end of a character (or at
\* 0), and is there just if the file has a division sign in that place.
OffsetsAtCharacters ==
  pc \in {"cutTests", "writeTests"} => \A k \in DOMAIN tests :
    LET tc == tests[k]
        fields == SelectSeq(cache[LineBreakTest].lines, LAMBDA x : x # <<>>)[k]
        end(n) == FoldLeft(LAMBDA size, r : size + RuneLen(r), 0,
                           SubSeq(tc.input, 1, n))
    IN  /\ \A i \in 1 .. Len(tc.breakOffsets) - 1 :
             tc.breakOffsets[i] < tc.breakOffsets[i + 1]
        /\ ToSet(tc.breakOffsets) =
             {end(n) : n \in {m \in 0 .. Len(tc.input) :
                                fields[2 * m + 1].is = "break"}}

\* Whatever faults and changes there were, once the cache is good for good the
\* runs that follow bring the outputs up to date: no half-written trie.go stops
\* the generator, which does not import what it writes.
Recovers == <>[]GoodCache => []<>UpToDate
=============================================================================
