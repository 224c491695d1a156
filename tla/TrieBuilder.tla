---------------------------- MODULE TrieBuilder ----------------------------
(***************************************************************************)
(* Package triegen: a trie of runes by the bytes of their UTF-8 encodings, *)
(* and the builder that lays its nodes out in index and value blocks,      *)
(* sharing equal ones.                                                     *)
(*                                                                         *)
(* A node is its path: the sequence of the child slots that lead to it     *)
(* from the root <<>>.  A leaf holds a block of values; the nodes above    *)
(* the leaves are those that Insert created on the way to them.  Two nodes *)
(* have the same CRC-64 in the code just if their contents are equal here  *)
(* (no collisions).                                                        *)
(*                                                                         *)
(* The block size is a parameter, and bytes scale with it: ASCII fills two *)
(* blocks, continuation bytes the third, starters the fourth.              *)
(***************************************************************************)
EXTENDS LineBreakClasses, Integers, Sequences, FiniteSets

CONSTANTS
  blockSize,   \* 64 in the code
  Encode       \* the bytes of string(r), for every rune r that is valid

RuneSelf == 2 * blockSize
Cont     == 2 * blockSize .. 3 * blockSize - 1
Starter  == 3 * blockSize .. 4 * blockSize - 1
Rune     == DOMAIN Encode

\* UTF-8: the first byte tells the length, and no two runes share an encoding.
ASSUME EncodeAssumption ==
  /\ blockSize \in Nat \ {0}
  /\ \A r \in Rune :
       \/ Encode[r] \in {<<a>> : a \in 0 .. RuneSelf - 1}
       \/ \E n \in 2 .. 4 : /\ Encode[r] \in [1 .. n -> Cont \cup Starter]
                            /\ Encode[r][1] \in Starter
                            /\ \A k \in 2 .. n : Encode[r][k] \in Cont
  /\ \A r, q \in Rune :
       /\ Encode[r] = Encode[q] => r = q
       /\ Encode[r][1] = Encode[q][1] => Len(Encode[r]) = Len(Encode[q])

VARIABLES
  ascii,          \* the values of the root, by ASCII byte
  leaves,         \* the values of each leaf, by path
  fault,          \* "none", or how Insert ended the program
  index,          \* n.index of each node that computeOffsets is done with
  IndexBlocks,    \* nodes, the first three of them dummies
  ValueBlocks,
  indexBlockIdx,  \* the index blocks and the value blocks to be shared, by
  valueBlockIdx   \* content

trieVars  == <<ascii, leaves, fault>>
blockVars == <<index, IndexBlocks, ValueBlocks, indexBlockIdx, valueBlockIdx>>

Slot == 0 .. blockSize - 1
Path == Seq(Slot)
Block == [Slot -> Property]
ZeroBlock == [s \in Slot |-> {}]

\* NewTrie.
TrieInit ==
  /\ ascii = [a \in 0 .. RuneSelf - 1 |-> {}]
  /\ leaves = <<>>
  /\ fault = "none"

\* Gen, before build: two dummy blocks and the zero block.  The key 0 of the two
\* maps, the hash of a missing node, belongs to no node.
Dummy == <<blockSize>>
BlocksInit ==
  /\ index = <<>>
  /\ IndexBlocks = <<Dummy, Dummy, Dummy>>
  /\ ValueBlocks = <<>>
  /\ indexBlockIdx = <<>>
  /\ valueBlockIdx = <<>>

-----------------------------------------------------------------------------
(* Trie.Insert                                                             *)

SlotOf(byte) == byte % blockSize
PathOf(e) == [k \in 1 .. Len(e) - 1 |-> SlotOf(e[k])]
LastOf(e) == SlotOf(e[Len(e)])

Extends(p, q) == Len(q) < Len(p) /\ SubSeq(p, 1, Len(q)) = q

\* "found internal node with values", "found leaf node that also has children".
Conflict(path) == \E q \in DOMAIN leaves : Extends(path, q) \/ Extends(q, path)

With(f, x, y) == [z \in DOMAIN f \cup {x} |-> IF z = x THEN y ELSE f[z]]

\* Mutant: the slot of a leaf is filled for the first rune only.
Mutant_InsertEncoded(e, value) ==
  leaves' = With(leaves, PathOf(e), [ZeroBlock EXCEPT ![LastOf(e)] = value])

InsertEncoded(e, value) ==
  LET path == PathOf(e)
      old  == IF path \in DOMAIN leaves THEN leaves[path] ELSE ZeroBlock
  IN  leaves' = With(leaves, path, [old EXCEPT ![LastOf(e)] = value])

Insert(r, value) ==
  IF value = {} THEN UNCHANGED trieVars
  ELSE IF r \notin Rune
  THEN fault' = "panic" /\ UNCHANGED <<ascii, leaves>>
  ELSE IF Len(Encode[r]) = 1
  THEN /\ ascii' = [ascii EXCEPT ![Encode[r][1]] = value]
       /\ UNCHANGED <<leaves, fault>>
  ELSE IF Conflict(PathOf(Encode[r]))
  THEN fault' = "fatal" /\ UNCHANGED <<ascii, leaves>>
  ELSE InsertEncoded(Encode[r], value) /\ UNCHANGED <<ascii, fault>>

-----------------------------------------------------------------------------
(* buildTrie and computeOffsets.                                           *)

Nodes == {<<>>} \cup UNION { {SubSeq(p, 1, n) : n \in 0 .. Len(p)} :
                               p \in DOMAIN leaves }

\* What the hash of a node stands for: the leaves below it, by the way there.
Content(n) ==
  LET below == {p \in DOMAIN leaves : p = n \/ Extends(p, n)}
      rest(p) == SubSeq(p, Len(n) + 1, Len(p))
  IN  [w \in {rest(p) : p \in below} |-> leaves[n \o w]]

\* The order in which the recursion ends for two nodes: children before their
\* parent, lower slots first.
Before(m, n) ==
  \/ Extends(m, n)
  \/ \E k \in 1 .. Len(m) : /\ k <= Len(n)
                            /\ SubSeq(m, 1, k - 1) = SubSeq(n, 1, k - 1)
                            /\ m[k] < n[k]

\* computeOffsets comes to the end of its work on node n.
Turn(n) ==
  /\ n \in Nodes \ DOMAIN index
  /\ \A m \in Nodes \ DOMAIN index : m = n \/ Before(n, m)

blockOffset == 2
rootBlockOffset == 3

\* The ASCII blocks, the zero block, and the root's index block.
StartBuild ==
  /\ ValueBlocks = <<>>
  /\ ValueBlocks' = << [s \in Slot |-> ascii[s]],
                       [s \in Slot |-> ascii[blockSize + s]],
                       ZeroBlock >>
  /\ IndexBlocks' = Append(IndexBlocks, <<>>)
  /\ UNCHANGED <<index, indexBlockIdx, valueBlockIdx>>

\* simpleCompacter.Store, and the handle that it returns.
Store(block) == ValueBlocks' = Append(ValueBlocks, block)
Handle == Len(ValueBlocks) - blockOffset

\* A leaf with new values.
StoreLeaf(n) ==
  /\ n \in DOMAIN leaves
  /\ leaves[n] \notin DOMAIN valueBlockIdx
  /\ Store(leaves[n])
  /\ valueBlockIdx' = With(valueBlockIdx, leaves[n], Handle)
  /\ index' = With(index, n, Handle)
  /\ UNCHANGED <<IndexBlocks, indexBlockIdx>>

ShareLeaf(n) ==
  /\ n \in DOMAIN leaves
  /\ leaves[n] \in DOMAIN valueBlockIdx
  /\ index' = With(index, n, valueBlockIdx[leaves[n]])
  /\ UNCHANGED <<IndexBlocks, ValueBlocks, indexBlockIdx, valueBlockIdx>>

\* Mutant: the handle is taken after the block has been appended.
Mutant_AddIndexBlock(n) ==
  /\ n \notin DOMAIN leaves \cup {<<>>}
  /\ Content(n) \notin DOMAIN indexBlockIdx
  /\ LET v == Len(IndexBlocks) + 1 - blockOffset
     IN  /\ indexBlockIdx' = With(indexBlockIdx, Content(n), v)
         /\ index' = With(index, n, v)
  /\ IndexBlocks' = Append(IndexBlocks, n)
  /\ UNCHANGED <<ValueBlocks, valueBlockIdx>>

\* Mutant: a block is added although equal contents have one already.
MutantCopies_AddIndexBlock(n) ==
  /\ n \notin DOMAIN leaves \cup {<<>>}
  /\ LET v == Len(IndexBlocks) - blockOffset
     IN  /\ indexBlockIdx' = With(indexBlockIdx, Content(n), v)
         /\ index' = With(index, n, v)
  /\ IndexBlocks' = Append(IndexBlocks, n)
  /\ UNCHANGED <<ValueBlocks, valueBlockIdx>>

\* A node above the leaves with new contents.
AddIndexBlock(n) ==
  /\ n \notin DOMAIN leaves \cup {<<>>}
  /\ Content(n) \notin DOMAIN indexBlockIdx
  /\ LET v == Len(IndexBlocks) - blockOffset
     IN  /\ indexBlockIdx' = With(indexBlockIdx, Content(n), v)
         /\ index' = With(index, n, v)
  /\ IndexBlocks' = Append(IndexBlocks, n)
  /\ UNCHANGED <<ValueBlocks, valueBlockIdx>>

ShareIndexBlock(n) ==
  /\ n \notin DOMAIN leaves \cup {<<>>}
  /\ Content(n) \in DOMAIN indexBlockIdx
  /\ index' = With(index, n, indexBlockIdx[Content(n)])
  /\ UNCHANGED <<IndexBlocks, ValueBlocks, indexBlockIdx, valueBlockIdx>>

\* Mutant: the offset of the starters is subtracted twice.
Mutant_FinishRoot(n) ==
  /\ n = <<>>
  /\ LET v == blockOffset - rootBlockOffset
     IN  /\ indexBlockIdx' = With(indexBlockIdx, Content(n), v)
         /\ index' = With(index, n, v)
  /\ UNCHANGED <<IndexBlocks, ValueBlocks, valueBlockIdx>>

\* The root, whose block has been the fourth since StartBuild.
FinishRoot(n) ==
  /\ n = <<>>
  /\ LET v == rootBlockOffset - blockOffset
     IN  /\ indexBlockIdx' = With(indexBlockIdx, Content(n), v)
         /\ index' = With(index, n, v)
  /\ UNCHANGED <<IndexBlocks, ValueBlocks, valueBlockIdx>>

ComputeOffsets ==
  /\ ValueBlocks # <<>>
  /\ \E n \in Nodes :
       /\ Turn(n)
       /\ \/ StoreLeaf(n) \/ ShareLeaf(n)
          \/ AddIndexBlock(n) \/ ShareIndexBlock(n)
          \/ FinishRoot(n)

Built == <<>> \in DOMAIN index

-----------------------------------------------------------------------------
(* print: the entries of the two arrays, and the lookup over them that the *)
(* template generates.                                                     *)

Values(o) == ValueBlocks[(o \div blockSize) + 1][o % blockSize]

Index(o) ==
  LET child == Append(IndexBlocks[(o \div blockSize) + 1], o % blockSize)
  IN  IF child \in DOMAIN index THEN index[child] ELSE 0

Mutant_Step(i, byte) == Index(i * blockSize + SlotOf(byte))

\* o = i<<6 + byte
Step(i, byte) == Index(i * blockSize + byte)
lookupValue(n, byte) == Values(n * blockSize + byte)

\* The value of a whole encoding: the bytes after the first are continuation
\* bytes.
lookupEncoding(e) ==
  IF Len(e) = 1 THEN Values(e[1])
  ELSE IF Len(e) = 2 THEN lookupValue(Index(e[1]), e[2])
  ELSE IF Len(e) = 3 THEN lookupValue(Step(Index(e[1]), e[2]), e[3])
  ELSE lookupValue(Step(Step(Index(e[1]), e[2]), e[3]), e[4])

-----------------------------------------------------------------------------
(* What the nodes and the blocks hold.                                     *)

TrieTypeOK ==
  /\ ascii \in [0 .. RuneSelf - 1 -> Property]
  /\ leaves = [p \in DOMAIN leaves |-> leaves[p]]
  /\ \A p \in DOMAIN leaves : p \in Path /\ leaves[p] \in Block
  /\ fault \in {"none", "panic", "fatal"}

BlocksTypeOK ==
  /\ \A n \in DOMAIN index : n \in Nodes /\ index[n] \in Nat
  /\ IndexBlocks \in Seq(Nodes \cup {Dummy})
  /\ ValueBlocks \in Seq(Block)

\* The encodings, and all else that has their form: overlong, unassigned, cut
\* out of the runes.
Encodings ==
  LET length(a) == IF \E r \in Rune : Encode[r][1] = a
                   THEN Len(Encode[CHOOSE r \in Rune : Encode[r][1] = a]) ELSE 2
  IN  {<<a>> : a \in 0 .. RuneSelf - 1}
      \cup UNION { {<<a>> \o w : w \in [1 .. length(a) - 1 -> Cont]} :
                     a \in Starter }

\* The value of an encoding in the nodes, before they are laid out.
InNodes(e) ==
  IF Len(e) = 1 THEN ascii[e[1]]
  ELSE IF PathOf(e) \in DOMAIN leaves THEN leaves[PathOf(e)][LastOf(e)]
  ELSE {}

\* The index v leads to a block with the values b; to one of a node with the
\* contents c.
LeadsToValues(v, b) ==
  /\ v \in 1 .. Len(ValueBlocks) - 3
  /\ ValueBlocks[v + 3] = b
LeadsToNode(v, c) ==
  /\ v \in 1 .. Len(IndexBlocks) - 3
  /\ IndexBlocks[v + 3] \in Nodes \ DOMAIN leaves
  /\ Content(IndexBlocks[v + 3]) = c

\* ASCII and the zero block; the dummies and the root.
FixedBlocks ==
  /\ Len(ValueBlocks) >= 3
  /\ ValueBlocks[1] = [s \in Slot |-> ascii[s]]
  /\ ValueBlocks[2] = [s \in Slot |-> ascii[blockSize + s]]
  /\ ValueBlocks[3] = ZeroBlock
  /\ Len(IndexBlocks) >= 4
  /\ \A i \in 1 .. 3 : IndexBlocks[i] = Dummy
  /\ IndexBlocks[4] = <<>>

\* From StartBuild on: the fixed blocks are in their places, the index of a node
\* that is done leads to a block with the contents of that node, and so does
\* what is remembered to be shared; and of two nodes the one whose turn comes
\* first is done first.
BlocksHold ==
  /\ FixedBlocks
  /\ DOMAIN index \subseteq Nodes
  /\ \A n \in DOMAIN index : IF n \in DOMAIN leaves
                              THEN LeadsToValues(index[n], leaves[n])
                              ELSE LeadsToNode(index[n], Content(n))
  /\ \A b \in DOMAIN valueBlockIdx : LeadsToValues(valueBlockIdx[b], b)
  /\ \A c \in DOMAIN indexBlockIdx : LeadsToNode(indexBlockIdx[c], c)
  /\ \A m \in DOMAIN index, n \in Nodes \ DOMAIN index : Before(m, n)

\* The nodes of f that are the first with their contents, and how many of these
\* come up to one of them.
First(f) ==
  {n \in DOMAIN f : \A m \in DOMAIN f : f[m] = f[n] => m = n \/ Before(n, m)}
Rank(f, n) == Cardinality({m \in First(f) : m = n \/ Before(m, n)})

\* The nodes that get an index block, and the contents of each.
Inner    == Nodes \ (DOMAIN leaves \cup {<<>>})
Contents == [n \in Inner |-> Content(n)]
Itself   == [n \in Inner |-> n]

\* After the fixed ones, the blocks are those of the first of the nodes that are
\* done, each in the place that its rank is.
Placed(blocks, fixed, f, block, done) ==
  /\ Len(blocks) = fixed + Cardinality(First(f) \cap done)
  /\ \A n \in First(f) \cap done : blocks[fixed + Rank(f, n)] = block[n]
  /\ \A i \in fixed + 1 .. Len(blocks) :
       \E n \in First(f) \cap done : i = fixed + Rank(f, n)

\* The index of a node that is done tells the place of the first with its contents.
Shared(idx, f, base, done) ==
  \A n \in DOMAIN f \cap done :
    \E m \in First(f) \cap done : f[m] = f[n] /\ idx[n] = base + Rank(f, m)

\* What is remembered: the index of each first node that is done.
Known(byContent, idx, f, done) ==
  /\ \A n \in First(f) \cap done : /\ f[n] \in DOMAIN byContent
                                   /\ byContent[f[n]] = idx[n]
  /\ \A c \in DOMAIN byContent : \E n \in First(f) \cap done : f[n] = c

BlocksInOrder ==
  LET done == DOMAIN index
  IN  /\ IsFiniteSet(done)
      /\ Placed(ValueBlocks, 3, leaves, leaves, done)
      /\ Placed(IndexBlocks, 4, Contents, Itself, done)
      /\ Shared(index, leaves, 0, done)
      /\ Shared(index, Contents, 1, done)
      /\ ~Built => /\ Known(valueBlockIdx, index, leaves, done)
                   /\ Known(indexBlockIdx, index, Contents, done)
=============================================================================
