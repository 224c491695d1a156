--------------------------- MODULE TableGenerator ---------------------------
(***************************************************************************)
(* generateTrieSource (internal/gen/main.go): the records of the Unicode   *)
(* files are merged into the property of each code point, these are put    *)
(* into a trie in the order in which Go happens to range over the map, and *)
(* the trie is laid out in blocks and printed.                             *)
(***************************************************************************)
EXTENDS PropertyTable, TrieBuilder

CONSTANTS
  Files,     \* the contents [lb, gc, ea] that the files may have
  Defaults   \* the classes that the header of LineBreak.txt gives to the code
             \* points of some ranges, should it not list them: a comment, which
             \* the generator does not read

\* parseRange accepts code points only, and each has an encoding unless it is a
\* surrogate.
ASSUME FilesAssumption ==
  /\ DottedCircle \in Rune
  /\ Rune \subseteq Nat \ Surrogates
  /\ \A f \in Files : \A rec \in f.lb \cup f.gc \cup f.ea :
       rec \in Record /\ Points(rec) \subseteq Rune \cup Surrogates

\* The header names two classes, besides XX for all the rest.
ASSUME DefaultsAssumption ==
  \A rec \in Defaults : rec \in Record /\ rec.class \in {"ID", "PR"}

\* The classes of LineBreak.txt: the generated type has a bit for each of them but
\* those that LB1 resolves, and none has the name of an annotation.
ASSUME ClassesAssumption ==
  \A f \in Files : \A rec \in f.lb :
    rec.class \in (Class \ annotationMask) \cup {"AI", "SG", "XX", "CJ", "SA"}

\* UAX #44: a property has one value for each code point, so no two records of a
\* file overlap.
ASSUME OneValueAssumption ==
  \A f \in Files : \A file \in {f.lb, f.gc, f.ea} : \A rec, q \in file :
    rec # q => Points(rec) \cap Points(q) = {}

VARIABLES
  files,
  phase,     \* "merge", "default", "insert", "build", "done", "failed"
  values,    \* runeValues
  pending    \* the code points not yet ranged over

vars == <<files, phase, values, pending, trieVars, blockVars>>

records == allRecords(files.lb, files.gc, files.ea)

Init ==
  /\ files \in Files
  /\ phase = "merge"
  /\ values = <<>>
  /\ pending = {}
  /\ TrieInit
  /\ BlocksInit

\* "Build and merge all per-rune property bits before writing the trie."
Merge ==
  /\ phase = "merge"
  /\ values' = Merged(records)
  /\ phase' = "default"
  /\ UNCHANGED <<files, pending, trieVars, blockVars>>

Default ==
  /\ phase = "default"
  /\ values' = Defaulted(values, uniqueClasses(records))
  /\ pending' = DOMAIN values
  /\ phase' = "insert"
  /\ UNCHANGED <<files, trieVars, blockVars>>

\* One iteration of `for r, v := range runeValues`, in no particular order.
InsertNext ==
  /\ phase = "insert"
  /\ \E r \in pending : /\ Insert(r, values[r])
                        /\ pending' = pending \ {r}
  /\ phase' = IF fault' = "none" THEN "insert" ELSE "failed"
  /\ UNCHANGED <<files, values, blockVars>>

BuildTrie ==
  /\ phase = "insert"
  /\ pending = {}
  /\ StartBuild
  /\ phase' = "build"
  /\ UNCHANGED <<files, values, pending, trieVars>>

Offsets ==
  /\ phase = "build"
  /\ ComputeOffsets
  /\ phase' = IF Built' THEN "done" ELSE "build"
  /\ UNCHANGED <<files, values, pending, trieVars>>

Printed == phase \in {"done", "failed"} /\ UNCHANGED vars

Next == Merge \/ Default \/ InsertNext \/ BuildTrie \/ Offsets \/ Printed

Spec == Init /\ [][Next]_vars

-----------------------------------------------------------------------------
(* Properties.                                                             *)

TypeOK ==
  /\ files \in Files
  /\ phase \in {"merge", "default", "insert", "build", "done", "failed"}
  /\ \A r \in DOMAIN values : values[r] \in Property
  /\ pending \subseteq DOMAIN values
  /\ TrieTypeOK
  /\ BlocksTypeOK

\* Insert never meets a code point without an encoding, nor a node that is leaf
\* and inner node at once: it neither panics nor gives up.
InsertSucceeds == fault = "none"

\* What is in the trie.
Inserted == IF phase \in {"merge", "default"} THEN {} ELSE DOMAIN values \ pending

\* At each moment of the walk over the map, the nodes hold the values of the runes
\* inserted so far, each in a place of its own, and nothing else.
NodesHold ==
  /\ \A r \in Rune :
       InNodes(Encode[r]) = IF r \in Inserted THEN values[r] ELSE {}
  /\ \A a \in 0 .. RuneSelf - 1 :
       ascii[a] # {} => \E r \in Inserted : Encode[r] = <<a>>
  /\ \A p \in DOMAIN leaves, s \in Slot :
       leaves[p][s] # {} => \E r \in Inserted : /\ Len(Encode[r]) # 1
                                                /\ PathOf(Encode[r]) = p
                                                /\ LastOf(Encode[r]) = s
  /\ \A p \in DOMAIN leaves : leaves[p] # ZeroBlock

\* Insertion ends before the layout begins; from then on, through all sharing and
\* shifting, the blocks hold what the nodes do, until the root is done.
GeneratorInv ==
  /\ NodesHold
  /\ phase \in {"merge", "default", "insert"} => BlocksInit
  /\ phase \in {"build", "done"} => pending = {} /\ BlocksHold /\ BlocksInOrder
  /\ phase = "build" => ~Built
  /\ phase = "done" => Built

\* triegen: "a trie for associating unsigned integer values with UTF-8 encoded
\* runes".  The lookup finds the value of each rune that has one, through
\* shared blocks and shifted indices, and nothing for any other encoding.
LookupGivesBack ==
  phase = "done" =>
    \A e \in Encodings :
      lookupEncoding(e) =
        IF \E r \in DOMAIN values : Encode[r] = e
        THEN values[CHOOSE r \in DOMAIN values : Encode[r] = e] ELSE {}

\* The nodes that hold some values, and nothing else.
AsciiOf(v) ==
  [a \in 0 .. RuneSelf - 1 |->
     IF \E r \in DOMAIN v : Encode[r] = <<a>>
     THEN v[CHOOSE r \in DOMAIN v : Encode[r] = <<a>>] ELSE {}]
LeavesOf(v) ==
  LET long == {r \in DOMAIN v : v[r] # {} /\ Len(Encode[r]) # 1}
      at(p, s) == {r \in long : PathOf(Encode[r]) = p /\ LastOf(Encode[r]) = s}
  IN  [p \in {PathOf(Encode[r]) : r \in long} |->
         [s \in Slot |-> IF at(p, s) = {} THEN {}
                         ELSE v[CHOOSE r \in at(p, s) : TRUE]]]

\* docs/phase2.md: "Keep generated artifacts deterministic".  Whatever the order
\* of insertion, both arrays are what the values make them: the nodes hold the
\* values; each distinct block of values and each distinct inner node has one
\* block, whose place is its rank in the order of the nodes; and an index entry is
\* the place of the block that its node has or shares.
Canonical ==
  phase = "done" =>
    /\ ascii = AsciiOf(values)
    /\ leaves = LeavesOf(values)
    /\ FixedBlocks
    /\ Placed(ValueBlocks, 3, leaves, leaves, Nodes)
    /\ Placed(IndexBlocks, 4, Contents, Itself, Nodes)
    /\ DOMAIN index = Nodes
    /\ Shared(index, leaves, 0, Nodes)
    /\ Shared(index, Contents, 1, Nodes)

\* What each rune has: in the nodes, and in the arrays once they are complete.
Found == [ r \in Rune |-> IF phase = "done" THEN lookupEncoding(Encode[r])
                                           ELSE InNodes(Encode[r]) ]

D == INSTANCE Dictionary WITH Key <- Rune, dict <- Found

\* Each insertion gives its rune the value, and changes no other; laying the
\* nodes out changes nothing.
ImplementsDictionary == D!DictSpec

-----------------------------------------------------------------------------
(* The classes by the words of UAX #14 and UAX #44, one code point at a    *)
(* time.                                                                   *)

\* The value of r in a file, or the default.
In(file, r, default) ==
  IF \E rec \in file : r \in Points(rec)
  THEN (CHOOSE rec \in file : r \in Points(rec)).class ELSE default

\* LineBreak.txt: "All code points, assigned and unassigned, that are not listed
\* explicitly are given the value XX", but those of the ranges named after that.
Missing(r) ==
  IF \E rec \in Defaults : r \in Points(rec)
  THEN (CHOOSE rec \in Defaults : r \in Points(rec)).class ELSE "XX"

\* "AI/SG/XX -> AL, CJ -> NS, SA -> CM (Mn/Mc) or AL (others)."
ResolvedClass(r) ==
  LET lb == In(files.lb, r, Missing(r))
      gc == In(files.gc, r, "Cn")
  IN  IF lb \in {"AI", "SG", "XX"} THEN "AL"
      ELSE IF lb = "CJ" THEN "NS"
      ELSE IF lb = "SA" THEN IF gc \in {"Mn", "Mc"} THEN "CM" ELSE "AL"
      ELSE lb

\* The additional bits of r that the rules of UAX #14 ask for.
Annotations(r) ==
  LET gc == In(files.gc, r, "none")
      in(range) == range.lo <= r /\ r <= range.hi
  IN  {c \in {"PI", "PF", "EA", "EPU", "DC"} :
         \/ c = "PI" /\ gc = "Pi"
         \/ c = "PF" /\ gc = "Pf"
         \/ c = "EA" /\ In(files.ea, r, "N") \in {"F", "W", "H"}
         \/ c = "EPU" /\ gc = "Cn" /\ \E range \in ExtPictRanges : in(range)
         \/ c = "DC" /\ r = DottedCircle}

\* LineBreak.txt does not list r.
Unlisted(r) == In(files.lb, r, "none") = "none"

\* What the lookup should say of r, which has no entry if no file knows more of it
\* than that it is AL.
Published(r) ==
  IF Unlisted(r) /\ Missing(r) = "XX" /\ Annotations(r) = {}
  THEN {} ELSE {ResolvedClass(r)} \cup Annotations(r)

\* The tables are printed, and some code point has the class AL, or its bit would
\* be missing.
Printable == phase = "done" /\ "AL" \in uniqueClasses(records)

\* UAX #14, LB1, and LineBreak.txt, its header included: each rune has one class,
\* and its annotations.
ClassesAsPublished ==
  Printable => \A r \in Rune : lookupEncoding(Encode[r]) = Published(r)

\* The same of the runes that LineBreak.txt lists, and of those that it leaves to
\* the default XX.  (The others are the ones that ClassesAsPublished fails for.)
ClassesResolved ==
  Printable =>
    \A r \in Rune : \/ Unlisted(r) /\ Missing(r) # "XX"
                    \/ lookupEncoding(Encode[r]) = Published(r)
=============================================================================
