# uax14 in TLA+

A verification project for `github.com/clipperhouse/uax14`, a Go implementation
of the Unicode line breaking algorithm (UAX #14, Unicode 17). `NextBreak` takes
a string or a byte slice and says how far the first line segment reaches and
whether the break there is mandatory or an opportunity. Callers call it again
on what is left.

## Inventory

| part | source | state | operations |
|---|---|---|---|
| scanner `NextBreak` | `break.go` | `pos`, `current`, nine remembered properties and a count, all local to a call | one call: first character, loop, results |
| the rules LB4 to LB31 | `break.go:79-461` | none of their own | one `if` each, first match decides |
| lookup | `trie.go:62-139`, `lookup.go` | two generated arrays, constant | `lookup`, `lookupProperty`, `isValidUTF8Prefix` |
| `breaks` | `unicode_test.go:97-115` | `remaining`, `offset`, `offsets`, `kinds` | call, check the advance, cut |
| generator pipeline | `internal/gen/main.go` | files: cache, `trie.go`, `unicode_tests.go` | load, check version, parse, build, write |
| class resolution | `internal/gen/main.go:332-371, 446-556` | records, `runeValues` | select, resolve, merge bits |
| data parsers | `internal/gen/main.go:178-330` | none | records and test cases from text |
| trie builder | `internal/gen/triegen/` | nodes, index and value blocks, hash maps | `Insert`, `build`, `computeOffsets`, `Store` |
| printer | `internal/gen/triegen/print.go` | none | Go source from the blocks |

`breaks` calls `NextBreak`, which calls `lookupProperty` for the first character
and in lookaheads, and `lookup` in its loop; `lookupProperty` calls `lookup`.
There is no shared mutable state and no goroutine: a call is a function of the
bytes it is given. The generator is a process of its own, run by `go generate`
at development time: `main` loads and parses the files of the cache, merges the
records into one value for each code point, has triegen build and print the trie,
writes `trie.go`, and then does the same for the conformance cases. It shares
only files with its surroundings, and only its result with the scanner.

What makes the code hard is therefore not concurrency. It is

* **state in place of context**: the rules are patterns over the text on both
  sides of a boundary; the code keeps nine variables instead, and a call starts
  with none of them set although a text mostly goes on from an earlier cut;
* **the order of some forty rules**, each of which ends the iteration;
* **arbitrary bytes**: widths reported for broken encodings, a text that ends
  within a character, a first character that cannot be decoded;
* **widths**: every offset is in bytes, and the lookaheads compute theirs;
* **a table that nobody reads**: 26 000 entries, in blocks that are shared and
  shifted, built in the order of a Go map, and taken on trust by the scanner;
* **a generator that may stop anywhere**: `main` calls `fail` in fifteen places,
  runs are killed, writes leave half a file, and the cache changes from run to run.

What makes each part correct:

* lookup: a width of 0 only if the text ends within the encoding; any other
  width stays in the text and never leads into a character (lemmas `LookupStep`,
  `StepForward`);
* `NextBreak`: returns, with a positive advance (`Returns`, `ReturnContract`);
* `breaks`: comes to the end of the text, with cuts between characters, never
  within CR LF, at every hard break (`Segmentation`, `HardBreaksHonoured`);
* the rules: the lines are those of UAX #14 (`ConformsToUAX14`), and what the
  loop remembers is what its variables are named for (`RememberedContext`);
* class resolution: each code point gets its resolved class and its annotations
  (`ClassesResolved`; `ClassesAsPublished` without its exception, which is a finding);
* the trie: it is a dictionary (`ImplementsDictionary`, `LookupGivesBack`), the
  same whatever the order of insertion (`Canonical`), and never fails on the
  code points it is given (`InsertSucceeds`);
* the table in `trie.go`: `TableAsAssumed`, `LookupAsModelled`,
  `LaidOutInOrder`, `SoleCharacters`;
* the pipeline: exit status 0 means that both outputs are current
  (`SuccessMeansUpToDate`), bad input never becomes a table
  (`NeverFromBadInput`), new cases never stand beside an old table
  (`TestsFollowTable`), and running again repairs everything (`Recovers`);
* the parsers: the offsets of a case are the ends of its characters
  (`OffsetsAtCharacters`).

## Modules

| module | what it models |
|---|---|
| `LineBreakClasses` | the bits of `property` as sets of classes, `is`, `breakKind` |
| `EncodedText` | texts as bytes: what a byte is to `lookup`, and the words (`Complete`, `Inside`, `HardBreak`, `WellFormed`) the properties use |
| `TrieLookup` | `lookup`, `lookupProperty`, `isValidUTF8Prefix` |
| `LineBreakRules` | the loop body: `Remember` (lines 47-68), one operator per rule, `Verdict` for their order, `Settled` for what `current` keeps |
| `NextBreak` | one call as a state machine |
| `ScanContext` | what the variables of its loop are named for: the characters found by looking back over the slice |
| `Breaks` | `breaks` around `NextBreak` |
| `Segmentation` | the abstract specification: cut a text to its end, legally |
| `UAX14` | the reference: the rules as the comments of `break.go` state them, over a whole text, which is a function from places to properties |
| `TableValues` | the 59 values of the table without the marks, zero, and those of the marks, by name |
| `Conformance` | texts from these values, `Breaks` against `UAX14`, and the invariant that leads there |
| `PropertyTable` | `select...`, `resolveLineBreakClasses`, the merge and the defaults of `generateTrieSource` |
| `TrieBuilder` | `NewTrie`, `Insert`, `buildTrie`, `computeOffsets`, `Store`, and the arrays and the lookup that `print.go` writes |
| `Dictionary` | the abstract specification of a trie: a value for each rune, given once |
| `TableGenerator` | `generateTrieSource`: the two before composed |
| `UnicodeFiles` | `parseLineBreak`, `parseRange`, `parseHexRune`, `parseLineBreakTests` |
| `GeneratorPipeline` | `main` and `loadData`, one action per load and per half of a write; `PropertyTable` and `UnicodeFiles` composed, with faults |
| `LineBreakData` | the two arrays of `trie.go`, block by block, run-length encoded |
| `GeneratedTable` | `lookup` and `lookupValue` over these arrays, for bytes that are numbers |
| `TableWalk` | a walk over all encodings, which compares the arrays with what the other modules take them for |
| `ByteTexts`, `MC*` | the texts and files of the runs |
| `NextBreakProofs` (lookup, rules and one call), `BreaksProofs`, `ScanContextProofs`, `UAX14Proofs`, `ConformanceProofs`, `TrieBuilderProofs`, `TableGeneratorProofs`, `GeneratorPipelineProofs` | theorems |

`Breaks` extends `NextBreak`, which extends `LineBreakRules` and `TrieLookup`;
`Conformance` puts `Breaks` beside `UAX14`. `TableGenerator` and
`GeneratorPipeline` both extend `PropertyTable`. `TableWalk` ties the two halves
together: what the builder makes is what the scanner reads.

**Data.** A `property` is the set of the classes whose bits are set, so `|` is
union and 0 is `{}`. A byte is a record of what the code tests of it: how many
bytes the encoding it starts has, whether it is a continuation byte, the trie's
value of the encoding, and whether the encoding is a Unicode scalar. The value
sits at the lead byte, whatever continuation bytes follow. `Byte` states what
holds of every entry of the generated table: ASCII is always mapped; encodings
that are no scalar (overlong, surrogates, beyond U+10FFFF) never; and a value is a
`TableValue`: one class of `LineBreak.txt`, beside which there may be annotations (PI
with QU only and not with PF, DC with AL only, none with BK, CR, LF, NL, SP and ZW).
The run `real_table` shows it of
every encoding (`TableAsAssumed`), and that the abstract lookup and the one over
the arrays agree, on whole and on broken encodings (`LookupAsModelled`).

**State and actions.** `text` and `start` stand for the slice `data` (it is
`text[start:]`); `pos`, `current` and the results have the code's names; `seen`
holds the variables that lines 19-27 call stateful, with `last` and
`prevExCMZWJ`, which an iteration computes from them. One action is one path
before the loop or through one iteration: `CallEmpty` (14-17),
`CallUndecodable` (29-33), `CallFirst` (29-37), `EndOfText` (39-45),
`Truncated` (70-74), `Continue` (any `pos += w; continue`) and `Break` (any
`return` of a rule). `Breaks` adds `Collect`, the loop body after the call
returned, with its error return.

**The generator.** A file is the set of its records, as the bits of a code point
are or-ed together. A node of the trie is the path that leads to it; equal hashes
are equal contents. `index`, `IndexBlocks`, `ValueBlocks`, `indexBlockIdx` and
`valueBlockIdx` have the names of the code; the recursion of `computeOffsets` is
one step for each node, taken when the recursion is done with it (`Turn`). In
`GeneratorPipeline`, `pc` is the name of the file that `main` loads next or the
half of a write that comes next: `CutTrie` and `CutTests` are the moment in
`os.WriteFile` when the old file is gone and the new one not yet there. `Stop`
is a kill, or a write that fails, at any of these places; `ChangeCache` is the
developer, between runs. `LineBreakData` was derived from `trie.go` by machine:
`27,"AL"` is 27 entries with the bit AL, `2,290,1` two index entries from 290 on.

**Conformance.** `UAX14` shares only the class names with the code's model. A text
is for it a function from places, which are any numbers (the offsets where the
characters start, in `Values`), to properties; `Adjacent` says which places follow
each other. It works on the whole text, first removing the marks that LB9 absorbs,
and states each rule as a pattern on both sides of a boundary, so neither the
remembered variables nor the restart at every cut is assumed right. It follows the comments
in `break.go`; where these leave a question (LB30a, LB15b) it reads them as UAX
#14 does.

## Runs

| run | texts | shows |
|---|---|---|
| `next_break` | 34 855 byte texts, and texts of marks | one call returns and keeps its contract, with a defined type, where `lookupProperty` gives up most often; what the loop remembers |
| `lines` | the 34 855 byte texts | `breaks` implements `Segmentation`, terminates, honours hard breaks; the proofs' invariant |
| `conform_short` | all pairs and, without AS, all triples of the table's values | conformance |
| `conform_long` | up to 5 or 6 characters in nine families | conformance where rules look further; what the loop remembers; the invariant of the proof of conformance, on the 54 731 of the 60 053 texts that it speaks of |
| `table` | 54 triples of small files, 11 code points, every order of insertion | the generated trie is the dictionary it should be, and canonical; the proofs' invariant |
| `pipeline` | caches of 6, 2, 2 and 3 files or none | what runs of the generator leave behind, in whatever order they fail |
| `real_table` | every encoding of one to four bytes | the arrays of `trie.go` are as assumed |
| `leading_mark`, `absorbed_mark`, `wide_lookahead` | small families of texts | disagreements of the rules and their comments, below |
| `defined_type` | the 34 855 byte texts | hard breaks that are lost, below |
| `unlisted` | one triple of files, in which a code point of a range with a default is not listed | a default that is not applied, below |

**Bounds.** The byte texts are all sequences of up to four of eleven kinds of
byte (AL, SP, CR, LF, leads of NEL, LINE SEPARATOR, an unassigned character, an
emoji, a surrogate; a continuation byte; an invalid byte) and up to six of five
of them. Four bytes hold the longest encoding, complete or broken at each place;
six hold a four-byte character with a CR before it and an LF after it.
`next_break` adds all texts of up to five of AL, SP, OP, CM and a three-byte ZWJ:
slices that begin with marks, or have them after a space, as one does that a cut
before a mark has left. The conformance texts need no invalid bytes. A rule sees at most two characters
beyond the boundary and one or two items before it, except for the unbounded
runs (SP\*, (SY|IS)\*, RI, marks), whose second repetition brings no new value of
the remembered variables (for RI, no new parity); so pairs and triples of *all*
values meet the rules in their order, and texts of five or six of the values
that a longer pattern is about meet that pattern and its runs. The values are those the table really holds, by what the
rules tell apart: 38 single classes, 21 pairs, and zero, as `real_table` checks
(`AllValues`, with `MarkValues`). The texts of the two
passing conformance runs leave out, by name, what the findings are about: marks
(all but four families), texts in which a call begins with a mark (`LeadingMark`), a
mark on the bracket that closes a number (`ClosedMark`) or on an opening quotation
mark after a letter (`QuotedMark`; these two are 24 texts, all others of their
families are there), a wide bracket before an infix and a digit (no family has it),
AS in triples.

In `table`, blocks have four entries instead of 64, and bytes scale with them;
encodings have one to four bytes, so that two index levels can be shared, and the
files let nodes be equal on each level and differ in one entry. The number of
code points makes every order of insertion affordable. Two surrogates, a dotted
circle, and ranges of default Extended_Pictographic that a record overlaps,
exceeds or misses are among them; and so are the ranges whose code points have the
default ID or PR (`Defaults`), listed, unlisted, and unlisted but annotated.

In `pipeline`, each file may be missing, usable, or wrong in each way in which
`main.go` gives up (another version, no semicolon, descending range, no digits, a
class that is no Go identifier, a surrogate in a case). The cache changes at most
twice (`MaxChanges`) and at most two runs are cut short (`MaxFaults`): a run starts
from nothing, so what one leaves to the next is in the files, and two changes and
two faults make every pair of such runs. The number of runs is not bounded.

`real_table` has no bound: it visits the 33 823 prefixes of encodings one after
the other.

No run uses symmetry: the classes are not interchangeable. Deadlock is checked
in all; a finished call or text stutters by an action of its own (`Returned`,
`Finished`, `Printed`, `Done`). In `pipeline` a run can always be started.

**Fairness.** `WF` of the call's steps, in `Breaks` of the loop's as well. All of
it runs on one goroutine without waiting for anything, so an enabled step is
taken sooner or later. In `GeneratorPipeline`, `WF` of `Run` for the same reason,
and of `Start`: the developer runs the generator again. Nothing is assumed of
`Stop` and `ChangeCache`. `Recovers` says that, once the cache is good for good,
such runs bring both outputs up to date again and again (each run is without a
complete `trie.go` for a moment).

## Findings

Each run with `expect: violation` ends with a text, a table or a run of the
generator for which the code does not do what a line of the repository says.

* `leading_mark`: LB10's "or sot" (`break.go:125-126`). The first character of a
  call never passes LB10, so `CM NU` is cut in two where `AL NU` is not. It is
  the same for a mark after a space or a hard break, where a call starts too.
* `absorbed_mark`: LB20a tests `last`, not `lastExCMZWJ` (`break.go:264`), so
  `HY CM AL` is cut before the AL although LB9 absorbs the mark (`break.go:123`).
  LB19a and LB21a test `last` too.
* `wide_lookahead`: LB25, "PR × OP IS NU" (`break.go:337`). The second lookahead
  (lines 359-360) steps by the width of the bracket.
* `defined_type`: `lookup.go:6`. For a type such as `json.RawMessage`, which the
  constraint admits, unmapped scalars do not default to XX, and if the first
  character is one, the whole text becomes one segment, hard breaks included.
* `unlisted`: the header of the cached `LineBreak.txt` (lines 35-38) has unassigned
  code points of two ranges default to ID; `main.go:361-367` gives those that the
  file does not list, and that have the bit EPU, AL. In Unicode 17 these are 85 code
  points from U+1F80C to U+1F8FF.

Read in the source, and kept apart from what the runs check:

* LB25, "NU ( SY | IS )\* CL × PO" (`break.go:327`): a mark on the bracket has
  `beforeLastExSYIS` assigned a second time from the same `lastExCMZWJ` (lines
  65-68), so the digit is forgotten and `NU CL CM PO` is cut before the PO.
  `RememberedContext` states this variable for slices without marks only, and
  `conform_long` leaves out just these texts (`ClosedMark`);
* LB15a (`break.go:171`): a mark on the quotation mark makes `beforeLastExSP` the
  quotation mark itself (lines 50-53), which LB15a admits before itself, so
  `AL QU CM SP AL` is not cut, where `AL QU SP AL` is (QU with Pi). `conform_long`
  leaves out just these texts (`QuotedMark`);
* LB28a's third line (`break.go:405`) leaves out AS on the right; the code (line
  409) includes it, and `AK VI AS` is not cut. `conform_short` has no triple with AS;
* "break after CR, LF, NL" (`break.go:86`): the next character is looked up first
  (lines 70-74), and if the text ends within it the call returns the whole rest; on
  CR and the first byte of a longer encoding there is no break after the CR.
  `NoneMissed` of `Segmentation` allows no more than this: unless the line starts with
  a character that cannot be decoded, a hard break is lost only where the encoding
  that is cut short starts, or after that;
* `docs/phase2.md:11` and `:24` have files cached "after initial download".
  `cachePath` is never empty (`main.go:124-132, 166`), so a missing file ends the run
  and nothing is ever downloaded. `loadData` models both branches, `LoadsFromCache`
  proves that the first one is always taken, and `RunInv` and
  `SuccessMeansUpToDate` speak of the files in the cache alone;
* lookaheads do not skip marks;
* `lookup_test.go:65` fails unless "A" has the EA bit, while its message says that
  it should not;
* only `LineBreak.txt` has its version compared (`main.go:54`);
* `getIntType` returns "property" for index values as well
  (`triegen.go:378-388`), so `lineBreakIndex` is an array of 8-byte entries, while
  the comments in `trie.go` count it with two.

## Proofs

The provers check, for every set of texts over `Byte` of any length:

* `ContractKept`: `Spec => []ReturnContract`, for one call of `NextBreak`.
* `TypeCorrect`: `BreaksSpec => []TypeOK`.
* `LinesCorrect`: `BreaksSpec => []LinesInv`.
* `AlwaysAdvances`: `breaks` never meets its "invalid advance", whatever the
  bytes and their type.
* `NoHardBreakMissed`, assuming `~DefinedType`: a finished text that is valid
  UTF-8 has been cut at every hard break.
* `ContextRemembered`: `BreaksSpec => []RememberedContext`, for every text that is
  valid UTF-8, in every call that `breaks` makes on it.
* `LinesAreIndependent`: no rule of UAX #14 looks back beyond the start of a line.
* `CutsCorrect` and `LinesConform`, assuming `~DefinedType`:
  `BreaksSpec => [](Covered(text) => ConformsToUAX14)`. `Covered` texts are valid
  UTF-8 (`WellFormed`), have no CM and ZWJ (`Unmarked`), and neither of two sequences
  (`Undisputed`): an aksara, VI and AS, and PO or PR before an OP and an IS of
  unequal widths.
* `RefinesSegmentation`, assuming `~DefinedType`: the safety part of `Breaks`
  implements the safety part of `Segmentation`. Without that assumption it is
  false, as the run `defined_type` shows.

and for the generator, for every set of files:

* `TypeCorrect` (of `GeneratorPipeline`) and `RunCorrect`: `Spec => []TypeOK` and
  `Spec => []RunInv`.
* `SuccessIsTrue`: `Spec => []SuccessMeansUpToDate`.
* `TestsAfterTable`: `Spec => TestsFollowTable`.
* `NoBadInput`: `Spec => []NeverFromBadInput`.
* `InsertNeverFails`: `Spec => []InsertSucceeds`, for every block size and every
  encoding that is like UTF-8.
* `LB1Applied`: no value of the trie has a class that LB1 resolves, and, if the
  files have AL, none is made of annotations only.
* `TypeCorrect` (of `TableGenerator`) and `BlocksSound`: `Spec => []TypeOK` and
  `Spec => []GeneratorInv`.
* `LookupCorrect`: `Spec => []LookupGivesBack`, for encodings of one to four bytes,
  whole or not those of a code point.
* `TableCanonical`: `Spec => []Canonical`: the nodes, both arrays of blocks and the
  index are what the values make them.
* `OneTable`: two finished builds from the same files, one of them written with
  primes, have the same value blocks, the same index blocks, and the same entry of
  `lineBreakIndex` for every block and slot. Nothing ties the two states together but
  `Canonical` and the invariants that every finished build meets.
* `RefinesDictionary`: `Spec => ImplementsDictionary`, for every order in which the
  map yields its entries.
* `ClassesCorrect`: `Spec => []ClassesResolved`, from the records of the files to
  what the printed lookup returns, for the code points that LineBreak.txt lists or
  leaves to its default XX, whatever other defaults its header has.

Assumed, of the scanner: `DefinedType \in BOOLEAN` and `Texts \subseteq Seq(Byte)`;
the second carries what `Byte` says of the table, which `real_table` checks. Of the
generator:

* `PipelineAssumption`: the files have names;
* `TableAssumption`, `FilesAssumption`: records are ranges of code points, which
  `parseRange` sees to; a code point is a number, and no surrogate has an encoding;
* `EncodeAssumption`: different code points have different encodings, and the first
  byte tells the length, as in UTF-8;
* `ClassesAssumption`: LineBreak.txt has the classes that `property` has a bit for
  and those that LB1 resolves, none with the name of an annotation;
* `OneValueAssumption`: in a file no two records overlap, as UAX #44 has it. The code
  does not check it: it would or the classes together.

* `DefaultsAssumption`: the header of LineBreak.txt has records of ranges with the
  default ID or PR.

`ClassesAssumption` and `OneValueAssumption` are needed by `ClassesCorrect` and by the type of the values, and hold
of the three files of Unicode 17 that `trie.go` was made from.

**The argument for `breaks`.** "No hard break is passed" is not inductive. `ScanInv` adds
that the scan stands between characters and that `current` has a hard break
class just where a character with it ends. Both rest on `StepForward`: from a
place between characters, a step by the width of `lookup` comes to another such
place, since the bytes it covers after the first are continuation bytes and
start nothing (`StepOwner`). So the rules see CR, LF, NL and BK exactly where the
text has them (`AtBoundary`), and three facts about the forty rules are enough:
a verdict is mandatory just after those classes and not between CR and LF
(`MandatoryVerdict`), CR LF is joined (`JoinedVerdict`), and what `current` keeps
after LB10 has the same hard break classes (`SettledHard`). `ReturnInv` carries
this to the driver: each call returns a cut that `Segmentation` allows. In valid
UTF-8 every place between characters starts a scalar and nothing is cut short
(`WellFormedDecodes`), so neither of the two ways to give the rest of a text away
is taken, and `HonouredSoFar` follows.

**The argument for what is remembered.** `RememberedContext` speaks of the
characters before the last one, `Passed`, and is not inductive: `current` is missing,
and so is what makes LB8a, LB9 and LB10 take a mark as they do. `ContextInv` adds
three things. `current` has the value of the one character that ends where the scan
stands (`Scanned`, `ValueAt`). If that value is a mark, either the base before it is
one that LB9 attaches to, or only ZWJs have passed; `MarkSettled` and `AloneAfter`
then decide, case by case, that the rules and the look back agree on the next mark
(`SettledIsValue`). And `lastExSYIS` is `lastExCMZWJ` unless that is a separator
(`SameNumeric`), without which it would be wrong after a mark. `RememberOne` is the
step of all nine variables at once, about sets of offsets only; `EndedGrows` says
that a step of the scan adds one such offset, since no encoding starts within
another (`NoneWithin`). The look back itself is more than the comments say: in the
run of marks that starts a slice, LB8a keeps every mark after a ZWJ as it is, and
the first mark after one that is no ZWJ is AL.

**The argument for conformance.** The driver calls `NextBreak` afresh after every
cut, and `NextBreak` remembers where UAX #14 looks back; so there are two things to
show, and an invariant that puts them together.

*At one boundary*, what is remembered of the slice is enough. `Recalls` says of each
variable that it is the last character of the slice that is not of certain classes;
`RecallsTells` turns this into what the rules ask: whether one of a class stands before
the boundary with nothing but spaces between (`Spaced`), whether a number does
(`Number`; after CL or CP, `ClosedRecalled`), whether LB15a's quotation mark opens
(`QuoteRecalled`), how many RI there are (`Flags`). A variable tells this only of the
classes that it does not skip, and only because a character has one class beside its
annotations (`OtherClass`, from `TableValue`). Then the forty rules, each in its order,
join just where `UAX14` does not let a line end (`RulesAgree`). LB25 is the
hardest (`NumbersAgree`): the code tests a single digit some way back and reads what
followed it from `last`, which is right only where LB13 and LB15d have not decided
before. `LooksAhead` settles the two lookaheads; it is where the hypothesis on the
widths is needed.

*Along a text*, the slice stands for the whole. `LinesAreIndependent` says that
`MayEnd` at a boundary within a line is the same of the text and of what is left of it
from the start of the line (`LineStart`: a place where the rules let a line end).
Some rules look back without a limit, over spaces, SY and IS, or RI; each has a lemma
which says that the run is within the line, since no line ends within it
(`RunIntoLine`, `NoSpacesIntoLine`, `NoNumberIntoLine`; for RI a line may end in the
run, but only after an even number, `FlagsFrom`). The others look at the character
before the boundary, or before that one. Where the latter lies in the line before, the
rule that asks for it decides as if the text started with the line, since the line
could not have started there otherwise. So it is with sot, which LB15a, LB19a and LB20a
read in a new line where there is none in the text: another rule joins, or no line
starts there (`Joined11From`, `Joined19From`, `Joined20aFrom`).

*Together*: `CutsInv` says that the slice starts where a line does, that the cuts so
far are the line ends so far, that a scan has passed none, and that a returned advance
leads to one. It is inductive with `TypeOK`, `LinesInv` (the scan is between
characters) and `ContextInv` (the variables are what they are named for): at the head
of the loop the verdict is that of `UAX14` over the whole text (`ScanAgrees`), so
joining passes no line end (`ContinueKeepsCuts`) and returning is one
(`ReturnsLineEnd`). At the end of the text it is `ConformsToUAX14`.

What `Covered` leaves out is where the code does not follow its comments. Marks are
left out as a whole, although only some of their texts are disputed (`leading_mark`,
`absorbed_mark`, and the variables that LB25 and LB15a read); the two sequences are
AS after VI (LB28a) and that of `wide_lookahead`.

**The argument for the generator.** `SuccessMeansUpToDate` is not inductive: when
the last write ends, it must be known that all that came before is sound. `RunInv`
says so for each place where a run can stand: what it has parsed is what the cache
holds (which does not change during a run), none of it was an error, and from the
first write on `trie.go` is current. Each step adds one conjunct and keeps the
others; a run that is cut short goes to "failed", where nothing is promised. For
`InsertNeverFails` the invariant is that the leaves are at the ends of encodings
(`InsertInv`); then a conflict would need an encoding whose way leads through the
leaf of another (`PrefixFree`), which has the same first slot, hence the same
first byte (`SlotOfStarter`), hence the same length.

**The argument for the trie.** `LookupGivesBack` speaks of the end of a build only.
`GeneratorInv` follows the values through it. `NodesHold`: after each insertion the
nodes hold the values inserted, each at the place that its encoding leads to
(`PathTells`), and nothing else. `BlocksHold`: the index of a finished node leads to a
block with the node's contents, directly or through a block that equal nodes share;
a finished node comes before the unfinished ones, so that a parent finds its
children done, and an entry of 0 is no child. Indices into the arrays are shifted, by
two blocks for continuation bytes and by one more for the root: `Shifted`,
`RootStands`, `StepStands` and `ValueFound` are the steps of the printed lookup, and
`LookupReadsNodes` puts two, three or four of them together. `OffsetsKeepBlocks` is
the step.

`Canonical` says what the arrays are as a function of the values. The nodes come
first: they hold the values and no empty leaf, so they are `AsciiOf` and `LeavesOf`
of them (`NodesAreValues`). Of the nodes with the same contents, the `First` one in
the order of the recursion gets a block, in the place that its `Rank` among such
nodes tells (`Placed`), and the index of each of them tells that place (`Shared`).
`BlocksInOrder` says this of the nodes that are done so far, and that what is
remembered to be shared is just the index of each such first node (`Known`), without
which a node could get a second block. The order is total on paths
(`BeforeOneWay`), so a node whose turn has come is the first of its contents or finds
one that is (`Fresh`, `NotFirst`), and if it is the first its rank is the next
(`NextFirst`). `NewKeepsOrder`, `OldKeepsOrder` and `OtherKeepsOrder` then do the
step once for both kinds of blocks, and `OffsetsKeepOrder` puts them together.
`OneTable` follows from `Canonical` alone: nodes, ranks and places are the same in
two builds (`PlacedOnce`, `SharedOnce`).

The refinement follows: `Found` reads the nodes during the walk over the map and the
arrays at its end, where the two agree; so each insertion is a `Put` and every other
step leaves `Found` alone.

**The argument for the classes.** The merge ors the bits of all records, so what
counts is the set of classes that the records covering a code point have. It is
computed record set by record set: of a file it is one class or none
(`CoveringFile`, by `OneValueAssumption`), a renaming maps it
(`CoveringRenamed`), LB1 splits it by the general category (`CoveringResolved`), and
the defaults of Extended_Pictographic are the ranges less what the general category
knows (`CoveringUnassigned`). `CoveringAll` adds them up: the resolved class and the
annotations. The code has one default for all, AL, so what a code point should have
(`Published`) is compared only where the file lists it or its header has no other
default than XX (`Missing`, `MissingRange`). `ResolvedValue` then follows the defaults, and `LookupCorrect` carries
the value through the trie.

**Only model-checked.** `Terminates`, `Returns` and `Recovers`, since liveness is
out of the prover's reach; `OffsetsAtCharacters`, which folds over a line, and so
needs an induction over data; the four properties of the real table, which has no
parameter; and `ConformsToUAX14` for texts with marks, which four families of
`conform_long` have.

## Not modelled, and the plan

Modelled, in the order of the plan: lookup, rules, `NextBreak`, `Breaks` and
`Segmentation`, with proofs; `UAX14` and conformance; `PropertyTable`,
`TrieBuilder` and their composition; the pipeline and the parsers; the table
itself.

Left:

* `LinesConform` for texts with marks. The clusters of LB9 are then the places of
  `Bases`, the remembered variables those of `Remembers` with its marks
  (`ContextRemembered` has them), and each rule that tests `last` or `current` needs a
  hypothesis that no mark stands there: a mark after HY, HH, QU, HL, an aksara or VI,
  before a lookahead, after a closing bracket of a number, and at the start of a line.

Not modelled, and why:

* `getIntType`, `Size`, `maxValue` and the statistics (`triegen.go:298-388`,
  `print.go:17-22`): they choose the Go type of the arrays, which the generator
  sets to `property` in every case, and what a comment says;
* several tries, and compacters other than `simpleCompacter`: the program makes one
  trie and passes no option;
* the Go text of both outputs (`main.go:373-431`, the templates): formatting; that
  what is printed is what the lookup reads is in `TrieBuilder`, and `real_table`
  takes up where it ends;
* hash collisions of CRC-64; lines longer than the buffers of the scanners; more
  than 64 classes (there are 49); a cache that changes during a run;
* `unicode_tests.go`: data. How its cases are made is in `UnicodeFiles`.
