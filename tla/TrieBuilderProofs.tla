-------------------------- MODULE TrieBuilderProofs --------------------------
(***************************************************************************)
(* What the trie builder does for every block size and every encoding like *)
(* UTF-8: a lookup over the finished arrays finds what the nodes hold.     *)
(***************************************************************************)
EXTENDS TrieBuilder, FiniteSetTheorems, SequenceTheorems, TLAPS

-----------------------------------------------------------------------------
(* Bytes and slots.                                                        *)

\* Blocks have entries.
LEMMA BlockSize == blockSize \in Nat \ {0}
  BY EncodeAssumption

\* An offset in the arrays is a block and a slot in it.
LEMMA Divided ==
  ASSUME NEW q \in Nat, NEW s \in Slot
  PROVE  /\ (q * blockSize + s) \div blockSize = q
         /\ (q * blockSize + s) % blockSize = s
  BY BlockSize, SMTT(60) DEF Slot

\* The slot of a continuation byte.
LEMMA SlotOfCont ==
  ASSUME NEW b \in Cont
  PROVE  /\ SlotOf(b) = b - 2 * blockSize
         /\ SlotOf(b) \in Slot
  BY BlockSize, SMTT(60) DEF SlotOf, Cont, Slot

\* The slot of a starter.
LEMMA SlotOfLead ==
  ASSUME NEW b \in Starter
  PROVE  /\ SlotOf(b) = b - 3 * blockSize
         /\ SlotOf(b) \in Slot
  BY BlockSize, SMTT(60) DEF SlotOf, Starter, Slot

\* So starters are told apart by their slots.
LEMMA SlotOfStarter ==
  ASSUME NEW a \in Starter, NEW c \in Starter, SlotOf(a) = SlotOf(c)
  PROVE  a = c
  BY SlotOfLead, BlockSize DEF Starter

\* So are continuation bytes.
LEMMA SlotOfContinuation ==
  ASSUME NEW a \in Cont, NEW c \in Cont, SlotOf(a) = SlotOf(c)
  PROVE  a = c
  BY SlotOfCont, BlockSize DEF Cont

\* A continuation byte counts from two blocks on.
LEMMA Shifted ==
  ASSUME NEW i \in Nat, NEW byte \in Cont
  PROVE  i * blockSize + byte = (i + 2) * blockSize + SlotOf(byte)
  <1>1. SlotOf(byte) = byte - 2 * blockSize /\ byte \in Nat
    BY SlotOfCont, BlockSize DEF Cont
  <1>2. (i + 2) * blockSize = i * blockSize + 2 * blockSize
    BY BlockSize
  <1>3. i * blockSize \in Nat /\ 2 * blockSize \in Nat
    BY BlockSize
  <1>. QED BY <1>1, <1>2, <1>3

-----------------------------------------------------------------------------
(* Paths and nodes.                                                        *)

\* A path goes through n if it starts with n.
LEMMA StartsAt ==
  ASSUME NEW n \in Path, NEW p \in Path
  PROVE  (p = n \/ Extends(p, n)) <=> (Len(n) <= Len(p) /\ SubSeq(p, 1, Len(n)) = n)
  <1>1. SubSeq(p, 1, Len(p)) = p
    BY SubSeqFull DEF Path
  <1>2. Len(p) \in Nat /\ Len(n) \in Nat
    BY DEF Path
  <1>. QED BY <1>1, <1>2 DEF Extends

\* A path is the way to a node on it and the way from there.
LEMMA Suffix ==
  ASSUME NEW n \in Path, NEW p \in Path, Len(n) <= Len(p), SubSeq(p, 1, Len(n)) = n
  PROVE  /\ SubSeq(p, Len(n) + 1, Len(p)) \in Path
         /\ p = n \o SubSeq(p, Len(n) + 1, Len(p))
  <1>1. Len(p) \in Nat /\ Len(n) \in 0 .. Len(p)
    BY DEF Path
  <1>2. \A i \in Len(n) + 1 .. Len(p) : p[i] \in Slot
    BY <1>1 DEF Path
  <1>3. SubSeq(p, Len(n) + 1, Len(p)) \in Path
    BY <1>1, <1>2 DEF Path
  <1>4. SubSeq(p, 1, Len(n)) \o SubSeq(p, Len(n) + 1, Len(p)) = SubSeq(p, 1, Len(p))
    <2>1. /\ 1 \in 1 .. Len(p) + 1
          /\ Len(n) \in 1 - 1 .. Len(p)
          /\ Len(p) \in Len(n) .. Len(p)
      BY <1>1
    <2>. QED BY <2>1, ConcatAdjacentSubSeq DEF Path
  <1>5. SubSeq(p, 1, Len(p)) = p
    BY SubSeqFull DEF Path
  <1>. QED BY <1>3, <1>4, <1>5

\* And the two together are a path through n.
LEMMA Prefix ==
  ASSUME NEW n \in Path, NEW w \in Path
  PROVE  /\ n \o w \in Path
         /\ Len(n) <= Len(n \o w)
         /\ SubSeq(n \o w, 1, Len(n)) = n
         /\ SubSeq(n \o w, Len(n) + 1, Len(n \o w)) = w
  <1>1. /\ n \o w \in Path /\ Len(n \o w) = Len(n) + Len(w)
        /\ Len(n) \in Nat /\ Len(w) \in Nat
    BY ConcatProperties DEF Path
  <1>2. SubSeq(n \o w, 1, Len(n)) = n
    <2>1. CASE n = <<>>
      BY <2>1, <1>1, SubSeqEmpty DEF Path
    <2>2. CASE n # <<>>
      <3>1. Len(n) \in 1 .. Len(n) /\ 1 \in 1 .. Len(n)
        BY <1>1, <2>2, EmptySeq DEF Path
      <3>2. SubSeq(n \o w, 1, Len(n)) = SubSeq(n, 1, Len(n))
        BY <3>1, SubSeqOfConcat1 DEF Path
      <3>. QED BY <3>2, SubSeqFull DEF Path
    <2>. QED BY <2>1, <2>2
  <1>3. SubSeq(n \o w, Len(n) + 1, Len(n \o w)) = w
    <2>1. CASE w = <<>>
      BY <2>1, <1>1, SubSeqEmpty DEF Path
    <2>2. CASE w # <<>>
      <3>1. Len(w) # 0
        BY <1>1, <2>2, EmptySeq DEF Path
      <3>2. SubSeq(n \o w, Len(n) + 1, Len(n) + Len(w)) = SubSeq(w, Len(n) + 1 - Len(n), Len(n) + Len(w) - Len(n))
        BY <1>1, <3>1, SubSeqOfConcat2 DEF Path
      <3>3. Len(n) + 1 - Len(n) = 1 /\ Len(n) + Len(w) - Len(n) = Len(w)
        BY <1>1
      <3>. QED BY <1>1, <3>2, <3>3, SubSeqFull DEF Path
    <2>. QED BY <2>1, <2>2
  <1>. QED BY <1>1, <1>2, <1>3

\* The nodes other than the root are those on the ways to leaves.
LEMMA NodeMeans ==
  ASSUME TrieTypeOK, NEW n \in Path
  PROVE  n \in Nodes <=> n = <<>> \/ \E w \in Path : n \o w \in DOMAIN leaves
  <1>1. ASSUME NEW w \in Path, n \o w \in DOMAIN leaves PROVE n \in Nodes
    <2>1. SubSeq(n \o w, 1, Len(n)) = n /\ Len(n) \in 0 .. Len(n \o w)
      <3>1. Len(n) \in Nat /\ Len(n \o w) \in Nat
        BY Prefix, LenProperties DEF Path
      <3>. QED BY <3>1, Prefix
    <2>2. n \in {SubSeq(n \o w, 1, k) : k \in 0 .. Len(n \o w)}
      BY <2>1
    <2>. QED BY <1>1, <2>2 DEF Nodes
  <1>2. ASSUME n \in Nodes, n # <<>>
        PROVE  \E w \in Path : n \o w \in DOMAIN leaves
    <2>1. PICK p \in DOMAIN leaves : \E k \in 0 .. Len(p) : n = SubSeq(p, 1, k)
      BY <1>2 DEF Nodes
    <2>2. PICK k \in 0 .. Len(p) : n = SubSeq(p, 1, k)
      BY <2>1
    <2>3. p \in Path /\ Len(p) \in Nat
      BY DEF TrieTypeOK, Path
    <2>4. Len(n) = k
      BY <2>2, <2>3 DEF Path
    <2>5. SubSeq(p, Len(n) + 1, Len(p)) \in Path /\ p = n \o SubSeq(p, Len(n) + 1, Len(p))
      <3>1. Len(n) <= Len(p) /\ SubSeq(p, 1, Len(n)) = n
        BY <2>2, <2>3, <2>4
      <3>. QED BY <2>3, <3>1, Suffix
    <2>. QED BY <2>5
  <1>. QED BY <1>1, <1>2 DEF Nodes

\* The contents of a node: the ways from it to leaves, and the leaves.
LEMMA ContentMeans ==
  ASSUME TrieTypeOK, NEW n \in Path
  PROVE  /\ \A w : w \in DOMAIN Content(n) <=> w \in Path /\ n \o w \in DOMAIN leaves
         /\ \A w \in DOMAIN Content(n) : Content(n)[w] = leaves[n \o w]
  <1> DEFINE below == {p \in DOMAIN leaves : p = n \/ Extends(p, n)}
             rest(p) == SubSeq(p, Len(n) + 1, Len(p))
             rests == {rest(p) : p \in below}
  <1>1. Content(n) = [w \in rests |-> leaves[n \o w]]
    BY DEF Content
  <1>2. ASSUME NEW p \in below
        PROVE  rest(p) \in Path /\ n \o rest(p) = p
    BY StartsAt, Suffix DEF TrieTypeOK
  <1>3. ASSUME NEW w \in Path, n \o w \in DOMAIN leaves
        PROVE  w \in rests
    <2>1. n \o w \in below
      BY <1>3, Prefix, StartsAt
    <2>2. rest(n \o w) = w
      BY Prefix
    <2>. QED BY <2>1, <2>2
  <1>4. ASSUME NEW w \in rests PROVE w \in Path /\ n \o w \in DOMAIN leaves
    BY <1>2
  <1>. HIDE DEF below, rests
  <1>. QED BY <1>1, <1>3, <1>4

\* Nodes are at paths.
LEMMA NodePath ==
  ASSUME TrieTypeOK, NEW n \in Nodes
  PROVE  n \in Path
  <1>1. CASE n = <<>>
    BY <1>1, EmptySeq DEF Path
  <1>2. CASE n # <<>>
    <2>1. PICK p \in DOMAIN leaves : n \in {SubSeq(p, 1, k) : k \in 0 .. Len(p)}
      BY <1>2 DEF Nodes
    <2>2. PICK k \in 0 .. Len(p) : n = SubSeq(p, 1, k)
      BY <2>1
    <2>. QED BY <2>2 DEF TrieTypeOK, Path
  <1>. QED BY <1>1, <1>2

\* Leaves are nodes.
LEMMA LeafIsNode ==
  ASSUME TrieTypeOK, NEW p \in DOMAIN leaves
  PROVE  p \in Nodes
  <1>1. p \in Path /\ <<>> \in Path /\ p \o <<>> = p
    BY ConcatEmptySeq, EmptySeq DEF Path, TrieTypeOK
  <1>. QED BY <1>1, NodeMeans

\* The way on from a child is a way on from its parent.
LEMMA Longer ==
  ASSUME NEW n \in Path, NEW s \in Slot
  PROVE  /\ Append(n, s) \in Path
         /\ Append(n, s) # <<>>
         /\ \A w \in Path : /\ <<s>> \o w \in Path
                            /\ Append(n, s) \o w = n \o (<<s>> \o w)
  <1>1. <<s>> \in Path /\ Append(n, s) = n \o <<s>>
    BY AppendIsConcat DEF Path
  <1>2. Append(n, s) \in Path /\ Append(n, s) # <<>>
    BY AppendProperties DEF Path
  <1>3. ASSUME NEW w \in Path
        PROVE  <<s>> \o w \in Path /\ Append(n, s) \o w = n \o (<<s>> \o w)
    BY <1>1, ConcatProperties, ConcatAssociative DEF Path
  <1>. QED BY <1>2, <1>3

\* Functions are equal if their domains and their values are.
LEMMA SameFunction ==
  ASSUME NEW f, NEW g, f = [x \in DOMAIN f |-> f[x]], g = [x \in DOMAIN g |-> g[x]],
         DOMAIN f = DOMAIN g, \A x \in DOMAIN f : f[x] = g[x]
  PROVE  f = g
  OBVIOUS

\* Nodes with the same contents have the same children, with the same contents.
LEMMA SameChildren ==
  ASSUME TrieTypeOK, NEW n \in Path, NEW m \in Path, Content(n) = Content(m),
         NEW s \in Slot
  PROVE  /\ n \in DOMAIN leaves <=> m \in DOMAIN leaves
         /\ n \in DOMAIN leaves => leaves[n] = leaves[m]
         /\ Append(n, s) \in Nodes <=> Append(m, s) \in Nodes
         /\ Content(Append(n, s)) = Content(Append(m, s))
  <1>1. \A w \in Path : /\ n \o w \in DOMAIN leaves <=> m \o w \in DOMAIN leaves
                        /\ n \o w \in DOMAIN leaves => leaves[n \o w] = leaves[m \o w]
    BY ContentMeans
  <1>2. <<>> \in Path /\ n \o <<>> = n /\ m \o <<>> = m
    BY ConcatEmptySeq, EmptySeq DEF Path
  <1>3. \A w \in Path :
          /\ Append(n, s) \o w \in DOMAIN leaves <=> Append(m, s) \o w \in DOMAIN leaves
          /\ Append(n, s) \o w \in DOMAIN leaves =>
               leaves[Append(n, s) \o w] = leaves[Append(m, s) \o w]
    <2> SUFFICES ASSUME NEW w \in Path
                 PROVE  /\ Append(n, s) \o w \in DOMAIN leaves
                             <=> Append(m, s) \o w \in DOMAIN leaves
                        /\ Append(n, s) \o w \in DOMAIN leaves =>
                             leaves[Append(n, s) \o w] = leaves[Append(m, s) \o w]
      OBVIOUS
    <2>1. /\ <<s>> \o w \in Path
          /\ Append(n, s) \o w = n \o (<<s>> \o w)
          /\ Append(m, s) \o w = m \o (<<s>> \o w)
      BY Longer
    <2>. QED BY <1>1, <2>1
  <1>4. Append(n, s) \in Nodes <=> Append(m, s) \in Nodes
    BY <1>3, Longer, NodeMeans
  <1>5. Content(Append(n, s)) = Content(Append(m, s))
    <2> DEFINE c == Content(Append(n, s))
               d == Content(Append(m, s))
    <2>1. Append(n, s) \in Path /\ Append(m, s) \in Path
      BY Longer
    <2>2. \A w : w \in DOMAIN c <=> w \in DOMAIN d
      BY <1>3, <2>1, ContentMeans
    <2>3. \A w \in DOMAIN c : c[w] = d[w]
      BY <1>3, <2>1, <2>2, ContentMeans
    <2>4. c = [w \in DOMAIN c |-> c[w]] /\ d = [w \in DOMAIN d |-> d[w]]
      BY DEF Content
    <2>5. DOMAIN c = DOMAIN d
      BY <2>2
    <2>6. c = d
      <3> HIDE DEF c, d
      <3>. QED BY <2>3, <2>4, <2>5, SameFunction
    <2>. QED BY <2>6
  <1>. QED BY <1>1, <1>2, <1>4, <1>5

\* The way to a node leads through nodes.
LEMMA ParentIsNode ==
  ASSUME TrieTypeOK, NEW n \in Path, NEW s \in Slot, Append(n, s) \in Nodes
  PROVE  n \in Nodes
  <1>1. PICK w \in Path : Append(n, s) \o w \in DOMAIN leaves
    BY Longer, NodeMeans
  <1>2. <<s>> \o w \in Path /\ Append(n, s) \o w = n \o (<<s>> \o w)
    BY Longer
  <1>. QED BY <1>1, <1>2, NodeMeans

\* A sequence of one with an element appended.
LEMMA AppendToOne ==
  ASSUME NEW a \in Nat, NEW b \in Nat
  PROVE  Len(Append(<<a>>, b)) = 2 /\ Append(<<a>>, b)[1] = a
  OBVIOUS

\* A dummy block stands for nothing.
LEMMA DummyHasNoChildren ==
  ASSUME TrieTypeOK, NEW s \in Slot
  PROVE  Append(Dummy, s) \notin Nodes
  <1>. SUFFICES ASSUME Append(Dummy, s) \in Nodes PROVE FALSE
    OBVIOUS
  <1>1. Append(Dummy, s) \in Path
    BY NodePath
  <1>2. blockSize \in Nat /\ s \in Nat
    BY BlockSize DEF Slot
  <1>3. Len(Append(Dummy, s)) = 2 /\ Append(Dummy, s)[1] = blockSize
    BY <1>2, AppendToOne DEF Dummy
  <1>4. blockSize \in Slot
    BY <1>1, <1>3 DEF Path
  <1>. QED BY <1>4, BlockSize DEF Slot

-----------------------------------------------------------------------------
(* The way through the arrays.                                             *)

\* The index i of the arrays stands for the node p: it is that of a node with the
\* same contents, or 0 if there is no such node.
Stands(i, p) ==
  IF p \in Nodes THEN \E n \in Nodes : i = index[n] /\ Content(n) = Content(p)
  ELSE i = 0

\* The entry of an index block under a slot.
LEMMA EntryStands ==
  ASSUME TrieTypeOK, BlocksTypeOK, BlocksHold, DOMAIN index = Nodes,
         NEW b \in Nat, NEW s \in Slot, NEW p \in Path,
         \/ IndexBlocks[b + 1] \in Nodes /\ Content(IndexBlocks[b + 1]) = Content(p)
         \/ IndexBlocks[b + 1] = Dummy /\ p \notin Nodes
  PROVE  Stands(Index(b * blockSize + s), Append(p, s))
  <1> DEFINE m == IndexBlocks[b + 1]
             child == Append(m, s)
  <1>1. Index(b * blockSize + s) = IF child \in Nodes THEN index[child] ELSE 0
    BY Divided DEF Index
  <1>2. CASE m \in Nodes /\ Content(m) = Content(p)
    <2>1. m \in Path
      BY <1>2, NodePath
    <2>2. /\ Append(p, s) \in Nodes <=> child \in Nodes
          /\ Content(child) = Content(Append(p, s))
      BY <1>2, <2>1, SameChildren
    <2>. QED BY <1>1, <2>2 DEF Stands
  <1>3. CASE m = Dummy /\ p \notin Nodes
    BY <1>1, <1>3, DummyHasNoChildren, ParentIsNode DEF Stands
  <1>. QED BY <1>2, <1>3

\* The first step goes from the root to its child for a starter.
LEMMA RootStands ==
  ASSUME TrieTypeOK, BlocksTypeOK, BlocksHold, DOMAIN index = Nodes, NEW a \in Starter
  PROVE  Stands(Index(a), <<SlotOf(a)>>)
  <1>1. SlotOf(a) \in Slot /\ a = 3 * blockSize + SlotOf(a)
    BY SlotOfLead, BlockSize DEF Starter
  <1>2. <<>> \in Nodes /\ <<>> \in Path /\ IndexBlocks[3 + 1] = <<>>
    BY EmptySeq DEF Nodes, Path, BlocksHold, FixedBlocks
  <1>3. Stands(Index(3 * blockSize + SlotOf(a)), Append(<<>>, SlotOf(a)))
    BY <1>1, <1>2, EntryStands
  <1>4. Append(<<>>, SlotOf(a)) = <<SlotOf(a)>>
    OBVIOUS
  <1>. QED BY <1>1, <1>3, <1>4

\* A further step goes from an inner node to its child for a continuation byte.
LEMMA StepStands ==
  ASSUME TrieTypeOK, BlocksTypeOK, BlocksHold, DOMAIN index = Nodes, NEW byte \in Cont,
         NEW p \in Path \ DOMAIN leaves, NEW i, Stands(i, p)
  PROVE  Stands(Step(i, byte), Append(p, SlotOf(byte)))
  <1>1. SlotOf(byte) \in Slot /\ byte = 2 * blockSize + SlotOf(byte)
    BY SlotOfCont, BlockSize DEF Cont
  <1>2. /\ i \in Nat
        /\ \/ IndexBlocks[i + 3] \in Nodes /\ Content(IndexBlocks[i + 3]) = Content(p)
           \/ IndexBlocks[i + 3] = Dummy /\ p \notin Nodes
    <2>1. CASE p \in Nodes
      <3>1. PICK n \in Nodes : i = index[n] /\ Content(n) = Content(p)
        BY <2>1 DEF Stands
      <3>2. n \notin DOMAIN leaves
        BY <3>1, <1>1, NodePath, SameChildren
      <3>. QED BY <3>1, <3>2 DEF BlocksHold, FixedBlocks, LeadsToNode
    <2>2. CASE p \notin Nodes
      BY <2>2 DEF Stands, BlocksHold, FixedBlocks
    <2>. QED BY <2>1, <2>2
  <1>3. i * blockSize + byte = (i + 2) * blockSize + SlotOf(byte)
    BY <1>2, Shifted
  <1>4. i + 2 \in Nat /\ (i + 2) + 1 = i + 3
    BY <1>2
  <1>5. Stands(Index((i + 2) * blockSize + SlotOf(byte)), Append(p, SlotOf(byte)))
    BY <1>1, <1>2, <1>4, EntryStands
  <1>. QED BY <1>3, <1>5 DEF Step

\* The last step goes from a leaf to a value.
LEMMA ValueFound ==
  ASSUME TrieTypeOK, BlocksTypeOK, BlocksHold, DOMAIN index = Nodes, NEW byte \in Cont,
         NEW p \in Path, p \in Nodes => p \in DOMAIN leaves, NEW i, Stands(i, p)
  PROVE  lookupValue(i, byte) = IF p \in DOMAIN leaves
                                THEN leaves[p][SlotOf(byte)] ELSE {}
  <1>1. SlotOf(byte) \in Slot /\ byte = 2 * blockSize + SlotOf(byte)
    BY SlotOfCont, BlockSize DEF Cont
  <1>2. p \in DOMAIN leaves => p \in Nodes
    <2>1. <<>> \in Path /\ p \o <<>> = p
      BY ConcatEmptySeq, EmptySeq DEF Path
    <2>. QED BY <2>1, NodeMeans
  <1>3. /\ i \in Nat
        /\ ValueBlocks[i + 3] = IF p \in DOMAIN leaves THEN leaves[p] ELSE ZeroBlock
    <2>1. CASE p \in DOMAIN leaves
      <3>1. PICK n \in Nodes : i = index[n] /\ Content(n) = Content(p)
        BY <2>1, <1>2 DEF Stands
      <3>2. n \in DOMAIN leaves /\ leaves[n] = leaves[p]
        BY <2>1, <3>1, <1>1, NodePath, SameChildren
      <3>. QED BY <2>1, <3>1, <3>2 DEF BlocksHold, FixedBlocks, LeadsToValues
    <2>2. CASE p \notin DOMAIN leaves
      BY <2>2, <1>2 DEF Stands, BlocksHold, FixedBlocks
    <2>. QED BY <2>1, <2>2
  <1>4. i * blockSize + byte = (i + 2) * blockSize + SlotOf(byte)
    BY <1>3, Shifted
  <1>5. i + 2 \in Nat /\ (i + 2) + 1 = i + 3
    BY <1>3
  <1>6. lookupValue(i, byte) = ValueBlocks[i + 3][SlotOf(byte)]
    BY <1>1, <1>4, <1>5, Divided DEF lookupValue, Values
  <1>. QED BY <1>1, <1>3, <1>6 DEF ZeroBlock

-----------------------------------------------------------------------------
(* Encodings of more than one byte.                                        *)

LongRune == {r \in Rune : Len(Encode[r]) # 1}

\* Their form: a starter and one to three continuation bytes.
Long(e) ==
  /\ Len(e) \in 2 .. 4
  /\ DOMAIN e = 1 .. Len(e)
  /\ e[1] \in Starter
  /\ \A k \in 2 .. Len(e) : e[k] \in Cont

\* Every encoding of more than one byte has it.
LEMMA LongEncoding ==
  ASSUME NEW r \in LongRune
  PROVE  Long(Encode[r]) /\ Encode[r] \in Seq(Nat)
  <1>1. PICK n \in 2 .. 4 : /\ Encode[r] \in [1 .. n -> Cont \cup Starter]
                            /\ Encode[r][1] \in Starter
                            /\ \A k \in 2 .. n : Encode[r][k] \in Cont
    <2>1. Encode[r] \notin {<<a>> : a \in 0 .. RuneSelf - 1}
      BY DEF LongRune
    <2>. QED BY <2>1, EncodeAssumption DEF LongRune
  <1>2. Len(Encode[r]) = n /\ DOMAIN Encode[r] = 1 .. n
    BY <1>1
  <1>3. Cont \cup Starter \subseteq Nat
    BY BlockSize DEF Cont, Starter
  <1>4. Encode[r] \in [1 .. n -> Nat]
    BY <1>1, <1>3
  <1>. QED BY <1>1, <1>2, <1>4 DEF Long

\* The other encodings are single bytes.
LEMMA ShortEncoding ==
  ASSUME NEW r \in Rune \ LongRune
  PROVE  /\ Len(Encode[r]) = 1
         /\ Encode[r][1] \in 0 .. RuneSelf - 1
         /\ Encode[r] = <<Encode[r][1]>>
  <1>1. ASSUME NEW n \in 2 .. 4, Encode[r] \in [1 .. n -> Cont \cup Starter]
        PROVE  FALSE
    <2>1. Len(Encode[r]) = n /\ n # 1
      BY <1>1
    <2>2. Len(Encode[r]) = 1
      BY DEF LongRune
    <2>. QED BY <2>1, <2>2
  <1>2. PICK a \in 0 .. RuneSelf - 1 : Encode[r] = <<a>>
    BY <1>1, EncodeAssumption
  <1>. QED BY <1>2

\* A path with a slot appended.
LEMMA Appended ==
  ASSUME NEW p \in Path, NEW s \in Slot
  PROVE  /\ Append(p, s) \in Path
         /\ Append(p, s) # <<>>
         /\ Len(Append(p, s)) = Len(p) + 1
         /\ \A k \in 1 .. Len(p) : Append(p, s)[k] = p[k]
         /\ Append(p, s)[Len(p) + 1] = s
  BY AppendProperties DEF Path

\* A path of two slots.
LEMMA AppendedToOne ==
  ASSUME NEW p \in Path, Len(p) = 1, NEW s \in Slot
  PROVE  /\ Append(p, s) \in Path /\ Append(p, s) # <<>> /\ Len(Append(p, s)) = 2
         /\ Append(p, s)[1] = p[1] /\ Append(p, s)[2] = s
  <1> DEFINE q == Append(p, s)
  <1>1. /\ q \in Path /\ q # <<>> /\ Len(q) = Len(p) + 1
        /\ \A k \in 1 .. Len(p) : q[k] = p[k]
        /\ q[Len(p) + 1] = s
    BY Appended
  <1> HIDE DEF q
  <1>2. Len(p) + 1 = 2 /\ 1 \in 1 .. Len(p)
    OBVIOUS
  <1>3. Len(q) = 2 /\ q[1] = p[1] /\ q[2] = s
    BY <1>1, <1>2
  <1>. QED BY <1>1, <1>3 DEF q

\* A path of three slots.
LEMMA AppendedToTwo ==
  ASSUME NEW p \in Path, Len(p) = 2, NEW s \in Slot
  PROVE  /\ Append(p, s) \in Path /\ Append(p, s) # <<>> /\ Len(Append(p, s)) = 3
         /\ Append(p, s)[1] = p[1] /\ Append(p, s)[2] = p[2] /\ Append(p, s)[3] = s
  <1> DEFINE q == Append(p, s)
  <1>1. /\ q \in Path /\ q # <<>> /\ Len(q) = Len(p) + 1
        /\ \A k \in 1 .. Len(p) : q[k] = p[k]
        /\ q[Len(p) + 1] = s
    BY Appended
  <1> HIDE DEF q
  <1>2. Len(p) + 1 = 3 /\ 1 \in 1 .. Len(p) /\ 2 \in 1 .. Len(p)
    OBVIOUS
  <1>3. Len(q) = 3 /\ q[1] = p[1] /\ q[2] = p[2] /\ q[3] = s
    BY <1>1, <1>2
  <1>. QED BY <1>1, <1>3 DEF q

\* The way to the leaf of an encoding.
LEMMA PathMeans ==
  ASSUME NEW e, Long(e)
  PROVE  /\ PathOf(e) \in Path
         /\ Len(PathOf(e)) = Len(e) - 1
         /\ \A k \in 1 .. Len(e) - 1 : PathOf(e)[k] = SlotOf(e[k])
         /\ LastOf(e) \in Slot
  <1>1. \A k \in 1 .. Len(e) : SlotOf(e[k]) \in Slot
    BY SlotOfLead, SlotOfCont DEF Long
  <1>2. PathOf(e) \in [1 .. Len(e) - 1 -> Slot] /\ Len(e) - 1 \in Nat
    BY <1>1 DEF PathOf, Long
  <1>. QED BY <1>1, <1>2 DEF PathOf, LastOf, Long, Path

\* An encoding is told by the way to its leaf and its slot there.
LEMMA PathTells ==
  ASSUME NEW e, NEW d, Long(e), Long(d), PathOf(e) = PathOf(d), LastOf(e) = LastOf(d),
         e \in Seq(Nat), d \in Seq(Nat)
  PROVE  e = d
  <1>1. Len(e) = Len(d) /\ Len(e) \in 2 .. 4
    <2>1. Len(e) \in 2 .. 4 /\ Len(d) \in 2 .. 4
      BY DEF Long
    <2>2. Len(e) - 1 = Len(d) - 1
      BY PathMeans
    <2>. QED BY <2>1, <2>2
  <1>2. \A k \in 1 .. Len(e) - 1 : SlotOf(e[k]) = SlotOf(d[k])
    BY <1>1, PathMeans
  <1>3. SlotOf(e[Len(e)]) = SlotOf(d[Len(e)])
    BY <1>1 DEF LastOf
  <1>4. e[1] = d[1]
    BY <1>1, <1>2, SlotOfStarter DEF Long
  <1>5. ASSUME NEW k \in 2 .. Len(e) PROVE e[k] = d[k]
    <2>1. SlotOf(e[k]) = SlotOf(d[k])
      <3>1. CASE k = Len(e)
        BY <1>3, <3>1
      <3>2. CASE k # Len(e)
        <4>1. k \in 1 .. Len(e) - 1
          BY <1>1, <3>2
        <4>. QED BY <1>2, <4>1
      <3>. QED BY <3>1, <3>2
    <2>. QED BY <1>1, <2>1, SlotOfContinuation DEF Long
  <1>6. \A k \in 1 .. Len(e) : e[k] = d[k]
    BY <1>1, <1>4, <1>5
  <1>. QED BY <1>1, <1>6, SeqEqual

\* The encodings that have the length that their first byte tells.
Regular(e) ==
  Long(e) /\ \A r \in Rune : Encode[r][1] = e[1] => Len(Encode[r]) = Len(e)

\* What is looked up has one byte or is regular.
LEMMA EncodingsMeans ==
  ASSUME NEW e \in Encodings
  PROVE  \/ Len(e) = 1 /\ e[1] \in 0 .. RuneSelf - 1 /\ e = <<e[1]>>
         \/ Regular(e) /\ e \in Seq(Nat)
  <1>1. CASE e \in {<<a>> : a \in 0 .. RuneSelf - 1}
    BY <1>1
  <1>2. CASE e \notin {<<a>> : a \in 0 .. RuneSelf - 1}
    <2> DEFINE length(a) == IF \E r \in Rune : Encode[r][1] = a
                            THEN Len(Encode[CHOOSE r \in Rune : Encode[r][1] = a])
                            ELSE 2
    <2>1. PICK a \in Starter : e \in {<<a>> \o w : w \in [1 .. length(a) - 1 -> Cont]}
      BY <1>2 DEF Encodings
    <2>2. PICK w \in [1 .. length(a) - 1 -> Cont] : e = <<a>> \o w
      BY <2>1
    <2>3. /\ length(a) \in 2 .. 4
          /\ \A r \in Rune : Encode[r][1] = a => Len(Encode[r]) = length(a)
      <3>1. CASE \E r \in Rune : Encode[r][1] = a
        <4>1. PICK q \in Rune : q = CHOOSE r \in Rune : Encode[r][1] = a
          BY <3>1
        <4>2. Encode[q][1] = a /\ length(a) = Len(Encode[q])
          BY <3>1, <4>1
        <4>3. q \in LongRune
          <5>1. ASSUME Encode[q] \in {<<b>> : b \in 0 .. RuneSelf - 1} PROVE FALSE
            BY <4>2, <5>1, BlockSize DEF Starter, RuneSelf
          <5>2. PICK n \in 2 .. 4 : Encode[q] \in [1 .. n -> Cont \cup Starter]
            BY <5>1, EncodeAssumption
          <5>3. Len(Encode[q]) = n /\ n # 1
            BY <5>2
          <5>. QED BY <4>1, <5>3 DEF LongRune
        <4>. QED BY <4>2, <4>3, LongEncoding, EncodeAssumption DEF Long
      <3>2. CASE ~\E r \in Rune : Encode[r][1] = a
        BY <3>2
      <3>. QED BY <3>1, <3>2
    <2> HIDE DEF length
    <2>4. PICK n \in 2 .. 4 : n = length(a)
      BY <2>3
    <2>5. w \in Seq(Nat) /\ Len(w) = n - 1 /\ <<a>> \in Seq(Nat) /\ Len(<<a>>) = 1
          /\ w \in [1 .. n - 1 -> Cont]
      <3>1. Cont \subseteq Nat /\ a \in Nat
        BY BlockSize DEF Cont, Starter
      <3>2. n - 1 \in Nat /\ w \in [1 .. n - 1 -> Cont]
        BY <2>2, <2>4
      <3>3. w \in [1 .. n - 1 -> Nat]
        BY <3>1, <3>2
      <3>. QED BY <3>1, <3>2, <3>3
    <2>6. /\ e \in Seq(Nat) /\ Len(e) = n
          /\ \A k \in 1 .. n : e[k] = IF k <= 1 THEN <<a>>[k] ELSE w[k - 1]
      BY <2>2, <2>5, ConcatProperties
    <2>7. e[1] = a /\ DOMAIN e = 1 .. n
      BY <2>6
    <2>8. ASSUME NEW k \in 2 .. n PROVE e[k] \in Cont
      <3>1. k \in 1 .. n /\ ~(k <= 1) /\ k - 1 \in 1 .. n - 1
        OBVIOUS
      <3>. QED BY <2>5, <2>6, <3>1
    <2>9. Long(e)
      BY <2>6, <2>7, <2>8 DEF Long
    <2>. QED BY <2>3, <2>4, <2>6, <2>7, <2>9 DEF Regular
  <1>. QED BY <1>1, <1>2

\* Insert makes leaves for runes only.
LeavesOfRunes == DOMAIN leaves \subseteq {PathOf(Encode[q]) : q \in LongRune}

\* The encodings of the runes are among what is looked up.
LEMMA RunesAreEncodings ==
  ASSUME NEW r \in Rune
  PROVE  Encode[r] \in Encodings
  <1>1. CASE r \notin LongRune
    BY <1>1, ShortEncoding DEF Encodings
  <1>2. CASE r \in LongRune
    <2> DEFINE e == Encode[r]
               length(a) == IF \E q \in Rune : Encode[q][1] = a
                            THEN Len(Encode[CHOOSE q \in Rune : Encode[q][1] = a])
                            ELSE 2
    <2>1. Long(e) /\ e \in Seq(Nat)
      BY <1>2, LongEncoding
    <2>2. PICK a \in Starter : e[1] = a
      BY <2>1 DEF Long
    <2>3. length(a) = Len(e)
      <3>1. \E q \in Rune : Encode[q][1] = a
        BY <2>2
      <3>2. PICK q \in Rune : q = CHOOSE p \in Rune : Encode[p][1] = a
        BY <3>1
      <3>3. Encode[q][1] = e[1]
        BY <3>1, <3>2, <2>2
      <3>4. Len(Encode[q]) = Len(e)
        BY <3>3, EncodeAssumption
      <3>. QED BY <3>1, <3>2, <3>4
    <2> HIDE DEF length, e
    <2>4. PICK n \in 2 .. 4 : n = Len(e)
      BY <2>1 DEF Long
    <2> DEFINE w == [k \in 1 .. n - 1 |-> e[k + 1]]
    <2>5. w \in [1 .. n - 1 -> Cont]
      <3>1. ASSUME NEW k \in 1 .. n - 1 PROVE e[k + 1] \in Cont
        <4>1. k + 1 \in 2 .. Len(e)
          BY <2>4
        <4>. QED BY <2>1, <4>1 DEF Long
      <3>. QED BY <3>1
    <2>6. e = <<a>> \o w
      <3>1. a \in Nat /\ Cont \subseteq Nat
        BY BlockSize DEF Starter, Cont
      <3>2. <<a>> \in Seq(Nat) /\ Len(<<a>>) = 1 /\ <<a>>[1] = a
        BY <3>1
      <3>3. w \in Seq(Nat) /\ Len(w) = n - 1 /\ \A k \in 1 .. n - 1 : w[k] = e[k + 1]
        <4>1. n - 1 \in Nat
          OBVIOUS
        <4>2. w \in [1 .. n - 1 -> Nat]
          BY <2>5, <3>1
        <4>. QED BY <4>1, <4>2
      <3> DEFINE u == <<a>>
      <3> HIDE DEF u, w
      <3>4. /\ u \o w \in Seq(Nat) /\ Len(u \o w) = Len(u) + Len(w)
            /\ \A k \in 1 .. Len(u) + Len(w) :
                 (u \o w)[k] = IF k <= Len(u) THEN u[k] ELSE w[k - Len(u)]
        BY <3>2, <3>3, ConcatProperties DEF u
      <3>5. Len(u) + Len(w) = n /\ Len(u) = 1 /\ u[1] = a
        BY <3>2, <3>3 DEF u
      <3>6. ASSUME NEW k \in 1 .. n PROVE (u \o w)[k] = e[k]
        <4>1. CASE k = 1
          BY <2>2, <3>4, <3>5, <4>1
        <4>2. CASE k # 1
          <5>1. ~(k <= 1) /\ k - 1 \in 1 .. n - 1 /\ (k - 1) + 1 = k
            BY <4>2
          <5>2. (u \o w)[k] = w[k - 1]
            BY <3>4, <3>5, <5>1
          <5>. QED BY <3>3, <5>1, <5>2
        <4>. QED BY <4>1, <4>2
      <3>7. e = u \o w
        BY <2>1, <2>4, <3>4, <3>5, <3>6, SeqEqual
      <3>. QED BY <3>7 DEF u
    <2>7. e \in {<<a>> \o v : v \in [1 .. length(a) - 1 -> Cont]}
      BY <2>3, <2>4, <2>5, <2>6
    <2>8. e \in UNION { {<<b>> \o v : v \in [1 .. length(b) - 1 -> Cont]} : b \in Starter }
      BY <2>7
    <2>. QED BY <2>8 DEF Encodings, length, e
  <1>. QED BY <1>1, <1>2

\* The nodes on the way to an encoding are above the leaves of its length.
LEMMA NodesOnTheWay ==
  ASSUME TrieTypeOK, LeavesOfRunes, NEW e, Regular(e),
         NEW n \in Path, n # <<>>, n[1] = SlotOf(e[1])
  PROVE  /\ n \in DOMAIN leaves => Len(n) = Len(e) - 1
         /\ n \in Nodes /\ Len(n) = Len(e) - 1 => n \in DOMAIN leaves
  <1>1. ASSUME NEW p \in DOMAIN leaves, p[1] = n[1]
        PROVE  Len(p) = Len(e) - 1
    <2>1. PICK q \in LongRune : p = PathOf(Encode[q])
      BY DEF LeavesOfRunes
    <2>2. Long(Encode[q])
      BY LongEncoding
    <2>3. Len(Encode[q]) \in 2 .. 4 /\ 1 \in 1 .. Len(Encode[q]) - 1
      <3>1. PICK k \in 2 .. 4 : k = Len(Encode[q])
        BY <2>2 DEF Long
      <3>2. 1 \in 1 .. k - 1
        OBVIOUS
      <3>. QED BY <3>1, <3>2
    <2>4. p[1] = SlotOf(Encode[q][1]) /\ Len(p) = Len(Encode[q]) - 1
      BY <2>1, <2>2, <2>3, PathMeans
    <2>5. Encode[q][1] = e[1]
      BY <1>1, <2>2, <2>4, SlotOfStarter DEF Long, Regular
    <2>. QED BY <2>4, <2>5 DEF LongRune, Regular
  <1>2. ASSUME n \in Nodes, Len(n) = Len(e) - 1 PROVE n \in DOMAIN leaves
    <2>1. PICK w \in Path : n \o w \in DOMAIN leaves
      BY <1>2, NodeMeans
    <2>2. /\ Len(n \o w) = Len(n) + Len(w)
          /\ Len(n) \in Nat \ {0} /\ Len(w) \in Nat
          /\ (n \o w)[1] = n[1]
      <3>1. Len(n) \in Nat \ {0} /\ Len(w) \in Nat
        BY EmptySeq, LenProperties DEF Path
      <3>2. 1 \in 1 .. Len(n) + Len(w) /\ 1 <= Len(n)
        BY <3>1
      <3>. QED BY <3>1, <3>2, ConcatProperties DEF Path
    <2>3. Len(n \o w) = Len(e) - 1
      BY <1>1, <2>1, <2>2
    <2>4. Len(w) = 0
      BY <1>2, <2>2, <2>3
    <2>5. w = <<>> /\ n \o <<>> = n
      BY <2>4, EmptySeq, ConcatEmptySeq DEF Path
    <2>. QED BY <2>1, <2>5
  <1>. QED BY <1>1, <1>2

\* The way to the leaf of an encoding, step by step.
LEMMA WayOfLong ==
  ASSUME NEW e, Long(e)
  PROVE  /\ <<SlotOf(e[1])>> \in Path
         /\ Len(e) = 2 => PathOf(e) = <<SlotOf(e[1])>>
         /\ Len(e) = 3 => PathOf(e) = Append(<<SlotOf(e[1])>>, SlotOf(e[2]))
         /\ Len(e) = 4 => PathOf(e) = Append(Append(<<SlotOf(e[1])>>, SlotOf(e[2])), SlotOf(e[3]))
  <1>1. SlotOf(e[1]) \in Slot /\ \A k \in 2 .. Len(e) : SlotOf(e[k]) \in Slot
    BY SlotOfLead, SlotOfCont DEF Long
  <1> DEFINE p1 == <<SlotOf(e[1])>>
  <1>2. p1 \in Path /\ Len(p1) = 1 /\ p1[1] = SlotOf(e[1])
    BY <1>1 DEF Path
  <1>. HIDE DEF p1
  <1>3. PathOf(e) \in Path /\ Len(PathOf(e)) = Len(e) - 1
        /\ \A k \in 1 .. Len(e) - 1 : PathOf(e)[k] = SlotOf(e[k])
    BY PathMeans
  <1>4. ASSUME Len(e) = 2 PROVE PathOf(e) = p1
    <2>1. Len(PathOf(e)) = Len(p1) /\ \A k \in 1 .. Len(PathOf(e)) : PathOf(e)[k] = p1[k]
      BY <1>2, <1>3, <1>4
    <2>. QED BY <2>1, <1>2, <1>3, SeqEqual DEF Path
  <1>5. ASSUME Len(e) = 3 PROVE PathOf(e) = Append(p1, SlotOf(e[2]))
    <2> DEFINE p2 == Append(p1, SlotOf(e[2]))
    <2>0. SlotOf(e[2]) \in Slot
      BY <1>1, <1>2, <1>5
    <2>1. p2 \in Path /\ Len(p2) = 2 /\ p2[1] = SlotOf(e[1]) /\ p2[2] = SlotOf(e[2])
      BY <1>2, <2>0, AppendedToOne
    <2> HIDE DEF p2
    <2>2. Len(PathOf(e)) = Len(p2) /\ \A k \in 1 .. Len(PathOf(e)) : PathOf(e)[k] = p2[k]
      BY <1>3, <1>5, <2>1
    <2>3. PathOf(e) = p2
      BY <2>1, <2>2, <1>3, SeqEqual DEF Path
    <2>. QED BY <2>3 DEF p2
  <1>6. ASSUME Len(e) = 4
        PROVE  PathOf(e) = Append(Append(p1, SlotOf(e[2])), SlotOf(e[3]))
    <2> DEFINE p2 == Append(p1, SlotOf(e[2]))
               p3 == Append(p2, SlotOf(e[3]))
    <2>0. SlotOf(e[2]) \in Slot /\ SlotOf(e[3]) \in Slot
      BY <1>1, <1>2, <1>6
    <2>1. p2 \in Path /\ Len(p2) = 2 /\ p2[1] = SlotOf(e[1]) /\ p2[2] = SlotOf(e[2])
      BY <1>2, <2>0, AppendedToOne
    <2> HIDE DEF p2
    <2>2. /\ p3 \in Path /\ Len(p3) = 3 
          /\ p3[1] = SlotOf(e[1]) /\ p3[2] = SlotOf(e[2]) /\ p3[3] = SlotOf(e[3])
      BY <2>0, <2>1, AppendedToTwo
    <2> HIDE DEF p3
    <2>3. Len(PathOf(e)) = Len(p3) /\ \A k \in 1 .. Len(PathOf(e)) : PathOf(e)[k] = p3[k]
      BY <1>3, <1>6, <2>2
    <2>4. PathOf(e) = p3
      BY <2>2, <2>3, <1>3, SeqEqual DEF Path
    <2>. QED BY <2>4 DEF p3, p2
  <1>. QED BY <1>2, <1>4, <1>5, <1>6 DEF p1

\* The lookup over the arrays finds what the nodes hold.
LEMMA LookupReadsNodes ==
  ASSUME TrieTypeOK, LeavesOfRunes, BlocksTypeOK, BlocksHold, DOMAIN index = Nodes,
         NEW e \in Encodings
  PROVE  lookupEncoding(e) = InNodes(e)
  <1>1. CASE Len(e) = 1 /\ e[1] \in 0 .. RuneSelf - 1
    <2>1. CASE e[1] \in Slot
      <3>1. e[1] = 0 * blockSize + e[1]
        BY <2>1, BlockSize DEF Slot
      <3>2. e[1] \div blockSize = 0 /\ e[1] % blockSize = e[1]
        BY <2>1, <3>1, Divided
      <3>. QED BY <1>1, <2>1, <3>2 DEF lookupEncoding, Values, InNodes, BlocksHold, FixedBlocks
    <2>2. CASE e[1] \notin Slot
      <3>1. e[1] - blockSize \in Slot /\ e[1] = 1 * blockSize + (e[1] - blockSize)
        BY <1>1, <2>2, BlockSize DEF Slot, RuneSelf
      <3>2. e[1] \div blockSize = 1 /\ e[1] % blockSize = e[1] - blockSize
        BY <3>1, Divided
      <3>3. blockSize + (e[1] - blockSize) = e[1]
        BY <3>1, BlockSize DEF Slot
      <3>. QED BY <1>1, <3>1, <3>2, <3>3 DEF lookupEncoding, Values, InNodes, BlocksHold, FixedBlocks
    <2>. QED BY <2>1, <2>2
  <1>2. CASE Regular(e)
    <2> DEFINE p1 == <<SlotOf(e[1])>>
               p2 == Append(p1, SlotOf(e[2]))
               p3 == Append(p2, SlotOf(e[3]))
    <2>1. /\ Len(e) \in 2 .. 4 /\ e[1] \in Starter
          /\ \A k \in 2 .. Len(e) : e[k] \in Cont /\ SlotOf(e[k]) \in Slot
      BY <1>2, SlotOfCont DEF Regular, Long
    <2>2. p1 \in Path /\ Len(p1) = 1 /\ p1[1] = SlotOf(e[1]) /\ p1 # <<>>
      BY <1>2, WayOfLong DEF Regular
    <2>3. Stands(Index(e[1]), p1)
      BY <2>1, RootStands
    <2>4. CASE Len(e) = 2
      <3>1. PathOf(e) = p1 /\ e[2] \in Cont
        <4>1. 2 \in 2 .. Len(e) /\ Long(e)
          BY <1>2, <2>4 DEF Regular
        <4>. QED BY <2>1, <2>4, <4>1, WayOfLong
      <3>2. p1 \in Nodes => p1 \in DOMAIN leaves
        <4>1. Len(p1) = Len(e) - 1
          BY <2>2, <2>4
        <4>. QED BY <1>2, <2>2, <4>1, NodesOnTheWay
      <3> HIDE DEF p1
      <3>3. lookupValue(Index(e[1]), e[2])
              = IF p1 \in DOMAIN leaves THEN leaves[p1][SlotOf(e[2])] ELSE {}
        BY <2>2, <2>3, <3>1, <3>2, ValueFound
      <3>. QED BY <2>4, <3>1, <3>3 DEF lookupEncoding, InNodes, LastOf
    <2>5. CASE Len(e) \in 3 .. 4
      <3> HIDE DEF p1
      <3>1. e[2] \in Cont /\ e[3] \in Cont /\ SlotOf(e[2]) \in Slot
        BY <2>1, <2>5
      <3>2. p1 \notin DOMAIN leaves
        <4>1. Len(p1) # Len(e) - 1
          BY <2>2, <2>5
        <4>. QED BY <1>2, <2>2, <4>1, NodesOnTheWay
      <3>3. Stands(Step(Index(e[1]), e[2]), p2)
        BY <2>2, <2>3, <3>1, <3>2, StepStands
      <3>4. p2 \in Path /\ Len(p2) = 2 /\ p2[1] = SlotOf(e[1]) /\ p2 # <<>>
        BY <2>2, <3>1, AppendedToOne
      <3> HIDE DEF p2
      <3>5. CASE Len(e) = 3
        <4>1. PathOf(e) = p2
          BY <1>2, <3>5, WayOfLong DEF Regular, p2, p1
        <4>2. p2 \in Nodes => p2 \in DOMAIN leaves
          <5>1. Len(p2) = Len(e) - 1
            BY <3>4, <3>5
          <5>. QED BY <1>2, <3>4, <5>1, NodesOnTheWay
        <4>3. lookupValue(Step(Index(e[1]), e[2]), e[3])
                = IF p2 \in DOMAIN leaves THEN leaves[p2][SlotOf(e[3])] ELSE {}
          BY <3>1, <3>3, <3>4, <4>2, ValueFound
        <4>. QED BY <3>5, <4>1, <4>3 DEF lookupEncoding, InNodes, LastOf
      <3>6. CASE Len(e) = 4
        <4>1. e[4] \in Cont /\ SlotOf(e[3]) \in Slot
          BY <2>1, <3>6
        <4>2. p2 \notin DOMAIN leaves
          <5>1. Len(p2) # Len(e) - 1
            BY <3>4, <3>6
          <5>. QED BY <1>2, <3>4, <5>1, NodesOnTheWay
        <4>3. Stands(Step(Step(Index(e[1]), e[2]), e[3]), p3)
          BY <3>1, <3>3, <3>4, <4>2, StepStands
        <4>4. p3 \in Path /\ Len(p3) = 3 /\ p3[1] = SlotOf(e[1]) /\ p3 # <<>>
          BY <3>4, <4>1, AppendedToTwo
        <4> HIDE DEF p3
        <4>5. PathOf(e) = p3
          BY <1>2, <3>6, WayOfLong DEF Regular, p3, p2, p1
        <4>6. p3 \in Nodes => p3 \in DOMAIN leaves
          <5>1. Len(p3) = Len(e) - 1
            BY <3>6, <4>4
          <5>. QED BY <1>2, <4>4, <5>1, NodesOnTheWay
        <4>7. lookupValue(Step(Step(Index(e[1]), e[2]), e[3]), e[4])
                = IF p3 \in DOMAIN leaves THEN leaves[p3][SlotOf(e[4])] ELSE {}
          BY <4>1, <4>3, <4>4, <4>6, ValueFound
        <4>. QED BY <3>6, <4>5, <4>7 DEF lookupEncoding, InNodes, LastOf
      <3>. QED BY <2>5, <3>5, <3>6
    <2>. QED BY <2>1, <2>4, <2>5
  <1>. QED BY <1>1, <1>2, EncodingsMeans

-----------------------------------------------------------------------------
(* Insert.                                                                 *)

\* A node shares the first slot of the nodes that it is above.
LEMMA SharesFirst ==
  ASSUME NEW S, NEW p \in Seq(S), NEW u \in Seq(S), u # <<>>, Extends(p, u)
  PROVE  Len(u) < Len(p) /\ u[1] = p[1]
  <1>1. Len(u) < Len(p) /\ SubSeq(p, 1, Len(u)) = u
    BY DEF Extends
  <1>2. Len(u) \in 1 .. Len(p)
    BY <1>1
  <1>3. SubSeq(p, 1, Len(u))[1] = p[1]
    BY <1>2
  <1>. QED BY <1>1, <1>3

\* The way to the leaf of a rune: not empty, and its first slot tells its length.
LEMMA PathOfRune ==
  ASSUME NEW r \in LongRune
  PROVE  /\ PathOf(Encode[r]) \in Seq(Slot) \ {<<>>}
         /\ Len(PathOf(Encode[r])) = Len(Encode[r]) - 1
         /\ PathOf(Encode[r])[1] = SlotOf(Encode[r][1])
         /\ Encode[r][1] \in Starter
  <1>1. Long(Encode[r])
    BY LongEncoding
  <1>2. PICK n \in 2 .. 4 : n = Len(Encode[r])
    BY <1>1 DEF Long
  <1>3. 1 \in 1 .. n - 1 /\ n - 1 # 0
    OBVIOUS
  <1>4. /\ PathOf(Encode[r]) \in Path
        /\ Len(PathOf(Encode[r])) = n - 1
        /\ PathOf(Encode[r])[1] = SlotOf(Encode[r][1])
    BY <1>1, <1>2, <1>3, PathMeans
  <1>5. PathOf(Encode[r]) # <<>>
    BY <1>3, <1>4, EmptySeq DEF Path
  <1>. QED BY <1>1, <1>2, <1>4, <1>5 DEF Long, Path

\* The first byte tells the length: no way to a leaf leads through another leaf.
LEMMA PrefixFree ==
  ASSUME NEW r \in LongRune, NEW q \in LongRune
  PROVE  ~Extends(PathOf(Encode[r]), PathOf(Encode[q]))
  <1>. SUFFICES ASSUME Extends(PathOf(Encode[r]), PathOf(Encode[q]))
                PROVE  FALSE
    OBVIOUS
  <1>1. /\ Len(PathOf(Encode[q])) < Len(PathOf(Encode[r]))
        /\ PathOf(Encode[q])[1] = PathOf(Encode[r])[1]
    BY PathOfRune, SharesFirst
  <1>2. Encode[r][1] = Encode[q][1]
    BY <1>1, PathOfRune, SlotOfStarter
  <1>3. Len(Encode[r]) = Len(Encode[q])
    BY <1>2, EncodeAssumption DEF LongRune
  <1>. QED BY <1>1, <1>3, PathOfRune

\* So Insert does what it should: it adds or changes the leaf of the rune or the
\* value of the ASCII character.
LEMMA InsertSucceedsOnce ==
  ASSUME LeavesOfRunes, fault = "none", NEW r \in Rune, NEW v, v # {}, Insert(r, v)
  PROVE  /\ fault' = "none"
         /\ LeavesOfRunes'
         /\ IF r \in LongRune
            THEN ascii' = ascii /\ InsertEncoded(Encode[r], v)
            ELSE leaves' = leaves /\ ascii' = [ascii EXCEPT ![Encode[r][1]] = v]
  <1>1. CASE r \in LongRune
    <2>1. ~Conflict(PathOf(Encode[r]))
      BY <1>1, PrefixFree DEF Conflict, LeavesOfRunes
    <2>2. UNCHANGED <<ascii, fault>> /\ InsertEncoded(Encode[r], v)
      BY <1>1, <2>1 DEF Insert, LongRune
    <2>3. DOMAIN leaves' = DOMAIN leaves \cup {PathOf(Encode[r])}
      BY <2>2 DEF InsertEncoded, With
    <2>. QED BY <1>1, <2>2, <2>3 DEF LeavesOfRunes
  <1>2. CASE r \notin LongRune
    BY <1>2 DEF Insert, LongRune, LeavesOfRunes
  <1>. QED BY <1>1, <1>2

\* It keeps the types.
LEMMA InsertKeepsType ==
  ASSUME TrieTypeOK, LeavesOfRunes, fault = "none", NEW r \in Rune,
         NEW v \in Property, Insert(r, v)
  PROVE  TrieTypeOK' /\ LeavesOfRunes' /\ fault' = "none"
  <1>1. CASE v = {}
    BY <1>1 DEF Insert, trieVars, TrieTypeOK, LeavesOfRunes
  <1>2. CASE v # {} /\ r \in LongRune
    <2> DEFINE e == Encode[r]
               path == PathOf(e)
               old == IF path \in DOMAIN leaves THEN leaves[path] ELSE ZeroBlock
    <2>1. /\ fault' = "none" /\ LeavesOfRunes' /\ ascii' = ascii
          /\ leaves' = With(leaves, path, [old EXCEPT ![LastOf(e)] = v])
      BY <1>2, InsertSucceedsOnce DEF InsertEncoded
    <2>2. path \in Path /\ LastOf(e) \in Slot
      BY <1>2, LongEncoding, PathMeans
    <2>3. old \in Block
      BY DEF TrieTypeOK, Block, ZeroBlock, Property
    <2>4. [old EXCEPT ![LastOf(e)] = v] \in Block
      BY <2>2, <2>3 DEF Block
    <2> HIDE DEF old, path, e
    <2>5. \A p \in DOMAIN leaves' : p \in Path /\ leaves'[p] \in Block
      BY <2>1, <2>2, <2>4 DEF With, TrieTypeOK
    <2>6. leaves' = [p \in DOMAIN leaves' |-> leaves'[p]]
      BY <2>1 DEF With
    <2>. QED BY <2>1, <2>5, <2>6 DEF TrieTypeOK
  <1>3. CASE v # {} /\ r \notin LongRune
    <2>1. /\ fault' = "none" /\ LeavesOfRunes' /\ leaves' = leaves
          /\ ascii' = [ascii EXCEPT ![Encode[r][1]] = v]
      BY <1>3, InsertSucceedsOnce
    <2>. QED BY <2>1 DEF TrieTypeOK
  <1>. QED BY <1>1, <1>2, <1>3

\* And it gives its rune the value, and leaves all other places alone.
LEMMA InsertPlaces ==
  ASSUME TrieTypeOK, LeavesOfRunes, fault = "none", NEW r \in Rune,
         NEW v \in Property, v # {}, Insert(r, v),
         \A p \in DOMAIN leaves : leaves[p] # ZeroBlock
  PROVE  /\ \A q \in Rune :
              InNodes(Encode[q])' = IF q = r THEN v ELSE InNodes(Encode[q])
         /\ \A a \in 0 .. RuneSelf - 1 : ascii'[a] = ascii[a] \/ Encode[r] = <<a>>
         /\ \A p \in DOMAIN leaves', s \in Slot :
              \/ p \in DOMAIN leaves /\ leaves'[p][s] = leaves[p][s]
              \/ leaves'[p][s] = {}
              \/ /\ Len(Encode[r]) # 1
                 /\ PathOf(Encode[r]) = p
                 /\ LastOf(Encode[r]) = s
         /\ \A p \in DOMAIN leaves' : leaves'[p] # ZeroBlock
  <1>1. CASE r \in LongRune
    <2> DEFINE e == Encode[r]
               path == PathOf(e)
               old == IF path \in DOMAIN leaves THEN leaves[path] ELSE ZeroBlock
    <2>1. /\ ascii' = ascii
          /\ leaves' = With(leaves, path, [old EXCEPT ![LastOf(e)] = v])
      BY <1>1, InsertSucceedsOnce DEF InsertEncoded
    <2>2. path \in Path /\ LastOf(e) \in Slot /\ Len(e) # 1 /\ Long(e) /\ e \in Seq(Nat)
      BY <1>1, LongEncoding, PathMeans DEF LongRune
    <2>3. old \in Block
      BY DEF TrieTypeOK, Block, ZeroBlock, Property
    <2>4. /\ DOMAIN leaves' = DOMAIN leaves \cup {path}
          /\ \A p \in DOMAIN leaves \ {path} : leaves'[p] = leaves[p]
          /\ leaves'[path][LastOf(e)] = v
          /\ \A s \in Slot \ {LastOf(e)} : leaves'[path][s] = old[s]
      <3> HIDE DEF old, path, e
      <3>. QED BY <2>1, <2>2, <2>3 DEF With, Block
    <2>5. ASSUME NEW q \in Rune
          PROVE  InNodes(Encode[q])' = IF q = r THEN v ELSE InNodes(Encode[q])
      <3>1. CASE q \notin LongRune
        BY <1>1, <2>1, <3>1, ShortEncoding DEF InNodes
      <3>2. CASE q = r
        BY <2>2, <2>4, <3>2 DEF InNodes
      <3>3. CASE q \in LongRune /\ q # r
        <4> DEFINE d == Encode[q]
        <4>1. d # e /\ Len(d) # 1 /\ Long(d) /\ d \in Seq(Nat)
          BY <3>3, LongEncoding, EncodeAssumption DEF LongRune
        <4>2. PathOf(d) # path \/ LastOf(d) # LastOf(e)
          BY <2>2, <4>1, PathTells
        <4>3. LastOf(d) \in Slot
          BY <4>1, PathMeans
        <4>4. InNodes(d)' = IF PathOf(d) \in DOMAIN leaves'
                            THEN leaves'[PathOf(d)][LastOf(d)] ELSE {}
          BY <4>1 DEF InNodes
        <4>5. InNodes(d) = IF PathOf(d) \in DOMAIN leaves
                           THEN leaves[PathOf(d)][LastOf(d)] ELSE {}
          BY <4>1 DEF InNodes
        <4>6. CASE PathOf(d) # path
          BY <2>4, <4>4, <4>5, <4>6
        <4>7. CASE PathOf(d) = path
          <5>1. leaves'[path][LastOf(d)] = old[LastOf(d)]
            BY <2>4, <4>2, <4>3, <4>7
          <5>. QED BY <2>4, <4>3, <4>4, <4>5, <4>7, <5>1 DEF ZeroBlock
        <4>. QED BY <3>3, <4>6, <4>7
      <3>. QED BY <3>1, <3>2, <3>3
    <2>6. ASSUME NEW p \in DOMAIN leaves', NEW s \in Slot
          PROVE  \/ p \in DOMAIN leaves /\ leaves'[p][s] = leaves[p][s]
                 \/ leaves'[p][s] = {}
                 \/ p = path /\ LastOf(e) = s
      <3>1. CASE p # path
        BY <2>4, <2>6, <3>1
      <3>2. CASE p = path /\ s # LastOf(e)
        BY <2>4, <3>2 DEF ZeroBlock
      <3>. QED BY <3>1, <3>2
    <2>7. ASSUME NEW p \in DOMAIN leaves' PROVE leaves'[p] # ZeroBlock
      <3>1. ZeroBlock[LastOf(e)] = {} /\ leaves'[path] # ZeroBlock
        BY <2>2, <2>4 DEF ZeroBlock
      <3>. QED BY <2>4, <2>7, <3>1
    <2>. QED BY <2>1, <2>2, <2>5, <2>6, <2>7
  <1>2. CASE r \notin LongRune
    <2>1. leaves' = leaves /\ ascii' = [ascii EXCEPT ![Encode[r][1]] = v]
      BY <1>2, InsertSucceedsOnce
    <2>2. Len(Encode[r]) = 1 /\ Encode[r] = <<Encode[r][1]>>
          /\ Encode[r][1] \in 0 .. RuneSelf - 1
      BY <1>2, ShortEncoding
    <2>3. ASSUME NEW q \in Rune
          PROVE  InNodes(Encode[q])' = IF q = r THEN v ELSE InNodes(Encode[q])
      <3>1. CASE q \in LongRune
        BY <1>2, <2>1, <3>1 DEF InNodes, LongRune
      <3>2. CASE q = r
        BY <2>1, <2>2, <3>2 DEF InNodes, TrieTypeOK
      <3>3. CASE q \notin LongRune /\ q # r
        <4>1. Len(Encode[q]) = 1 /\ Encode[q] = <<Encode[q][1]>>
          BY <3>3, ShortEncoding
        <4>2. Encode[q][1] # Encode[r][1]
          BY <2>2, <3>3, <4>1, EncodeAssumption
        <4>. QED BY <2>1, <3>3, <4>1, <4>2 DEF InNodes, TrieTypeOK
      <3>. QED BY <3>1, <3>2, <3>3
    <2>4. \A a \in 0 .. RuneSelf - 1 : ascii'[a] = ascii[a] \/ Encode[r] = <<a>>
      BY <2>1, <2>2 DEF TrieTypeOK
    <2>. QED BY <2>1, <2>3, <2>4
  <1>. QED BY <1>1, <1>2

-----------------------------------------------------------------------------
(* build and computeOffsets.                                               *)

\* A block is appended at a place of its own, and moves no other.
LEMMA AppendedBlock ==
  ASSUME NEW S, NEW blocks \in Seq(S), NEW b \in S
  PROVE  /\ Append(blocks, b) \in Seq(S)
         /\ Len(Append(blocks, b)) = Len(blocks) + 1
         /\ Len(blocks) \in Nat
         /\ \A i \in 1 .. Len(blocks) : Append(blocks, b)[i] = blocks[i]
         /\ Append(blocks, b)[Len(blocks) + 1] = b
  BY AppendProperties, LenProperties

\* A fourth block after three equal ones.
LEMMA FourthBlock ==
  ASSUME NEW S, NEW x \in S, NEW y \in S
  PROVE  LET t == Append(<<x, x, x>>, y)
         IN  t \in Seq(S) /\ Len(t) = 4 /\ (\A i \in 1 .. 3 : t[i] = x) /\ t[4] = y
  OBVIOUS

\* StartBuild puts the fixed blocks in their places.
LEMMA BuildStarts ==
  ASSUME TrieTypeOK, BlocksInit, StartBuild, UNCHANGED trieVars
  PROVE  BlocksTypeOK' /\ BlocksHold' /\ ~Built'
  <1>1. /\ [s \in Slot |-> ascii[s]] \in Block
        /\ [s \in Slot |-> ascii[blockSize + s]] \in Block
        /\ ZeroBlock \in Block
    <2>1. ASSUME NEW s \in Slot
          PROVE  s \in 0 .. RuneSelf - 1 /\ blockSize + s \in 0 .. RuneSelf - 1
      BY BlockSize DEF Slot, RuneSelf
    <2>. QED BY <2>1 DEF TrieTypeOK, Block, ZeroBlock, Property
  <1>2. /\ ValueBlocks' \in Seq(Block) /\ Len(ValueBlocks') = 3
        /\ ValueBlocks'[1] = [s \in Slot |-> ascii[s]]
        /\ ValueBlocks'[2] = [s \in Slot |-> ascii[blockSize + s]]
        /\ ValueBlocks'[3] = ZeroBlock
    <2> DEFINE b1 == [s \in Slot |-> ascii[s]]
               b2 == [s \in Slot |-> ascii[blockSize + s]]
    <2>1. ValueBlocks' = <<b1, b2, ZeroBlock>>
      BY DEF StartBuild
    <2> HIDE DEF b1, b2
    <2>2. b1 \in Block /\ b2 \in Block /\ ZeroBlock \in Block
      BY <1>1 DEF b1, b2
    <2>3. /\ ValueBlocks' \in Seq(Block) /\ Len(ValueBlocks') = 3
          /\ ValueBlocks'[1] = b1 /\ ValueBlocks'[2] = b2
          /\ ValueBlocks'[3] = ZeroBlock
      BY <2>1, <2>2
    <2>. QED BY <2>3 DEF b1, b2
  <1>3. /\ IndexBlocks' \in Seq(Nodes \cup {Dummy}) /\ Len(IndexBlocks') = 4
        /\ \A i \in 1 .. 3 : IndexBlocks'[i] = Dummy
        /\ IndexBlocks'[4] = <<>>
    <2>1. IndexBlocks' = Append(<<Dummy, Dummy, Dummy>>, <<>>)
      BY DEF StartBuild, BlocksInit
    <2>2. Dummy \in Nodes \cup {Dummy} /\ <<>> \in Nodes \cup {Dummy}
      BY DEF Nodes
    <2>. QED BY <2>1, <2>2, FourthBlock
  <1>4. index' = <<>> /\ indexBlockIdx' = <<>> /\ valueBlockIdx' = <<>>
    BY DEF StartBuild, BlocksInit
  <1>5. DOMAIN index' = {} /\ DOMAIN indexBlockIdx' = {} /\ DOMAIN valueBlockIdx' = {}
    BY <1>4
  <1>6. leaves' = leaves /\ ascii' = ascii /\ Nodes' = Nodes
    BY DEF trieVars, Nodes
  <1>7. BlocksTypeOK'
    BY <1>2, <1>3, <1>5, <1>6 DEF BlocksTypeOK
  <1>8. BlocksHold'
    BY <1>2, <1>3, <1>5, <1>6 DEF BlocksHold, FixedBlocks
  <1>. QED BY <1>5, <1>7, <1>8 DEF Built

\* The root is no leaf.
LEMMA RootIsInner ==
  ASSUME LeavesOfRunes
  PROVE  <<>> \in Nodes \ DOMAIN leaves
  BY PathOfRune DEF LeavesOfRunes, Nodes

\* The work on a node leaves its contents in a block, and what is remembered true.
LEMMA OffsetsKeepBlocks ==
  ASSUME TrieTypeOK, LeavesOfRunes, BlocksTypeOK, BlocksHold, ComputeOffsets,
         UNCHANGED trieVars
  PROVE  BlocksTypeOK' /\ BlocksHold'
  <1>1. PICK n \in Nodes :
          /\ Turn(n)
          /\ \/ StoreLeaf(n) \/ ShareLeaf(n)
             \/ AddIndexBlock(n) \/ ShareIndexBlock(n)
             \/ FinishRoot(n)
    BY DEF ComputeOffsets
  <1>2. /\ leaves' = leaves /\ ascii' = ascii /\ Nodes' = Nodes
        /\ \A m : Content(m)' = Content(m)
    BY DEF trieVars, Nodes, Content
  <1>3. /\ ValueBlocks \in Seq(Block) /\ Len(ValueBlocks) \in Nat /\ Len(ValueBlocks) >= 3
        /\ IndexBlocks \in Seq(Nodes \cup {Dummy}) /\ Len(IndexBlocks) \in Nat /\ Len(IndexBlocks) >= 4
    BY LenProperties DEF BlocksTypeOK, BlocksHold, FixedBlocks
  <1>4. /\ ValueBlocks' \in Seq(Block)
        /\ Len(ValueBlocks') \in Nat /\ Len(ValueBlocks) <= Len(ValueBlocks')
        /\ \A i \in 1 .. Len(ValueBlocks) : ValueBlocks'[i] = ValueBlocks[i]
    <2>1. CASE StoreLeaf(n)
      <3>1. leaves[n] \in Block
        BY <2>1 DEF StoreLeaf, TrieTypeOK
      <3>2. ValueBlocks' = Append(ValueBlocks, leaves[n])
        BY <2>1 DEF StoreLeaf, Store
      <3>. QED BY <1>3, <3>1, <3>2, AppendedBlock
    <2>2. CASE UNCHANGED ValueBlocks
      BY <1>3, <2>2
    <2>. QED BY <1>1, <2>1, <2>2 DEF ShareLeaf, AddIndexBlock, ShareIndexBlock, FinishRoot
  <1>5. /\ IndexBlocks' \in Seq(Nodes \cup {Dummy})
        /\ Len(IndexBlocks') \in Nat /\ Len(IndexBlocks) <= Len(IndexBlocks')
        /\ \A i \in 1 .. Len(IndexBlocks) : IndexBlocks'[i] = IndexBlocks[i]
    <2>1. CASE AddIndexBlock(n)
      <3>1. IndexBlocks' = Append(IndexBlocks, n)
        BY <2>1 DEF AddIndexBlock
      <3>. QED BY <1>3, <3>1, AppendedBlock
    <2>2. CASE UNCHANGED IndexBlocks
      BY <1>3, <2>2
    <2>. QED BY <1>1, <2>1, <2>2 DEF StoreLeaf, ShareLeaf, ShareIndexBlock, FinishRoot
  <1>6. \A v, b : LeadsToValues(v, b) => LeadsToValues(v, b)'
    <2> SUFFICES ASSUME NEW v, NEW b, LeadsToValues(v, b)
                 PROVE  LeadsToValues(v, b)'
      OBVIOUS
    <2>1. v \in 1 .. Len(ValueBlocks) - 3 /\ ValueBlocks[v + 3] = b
      BY DEF LeadsToValues
    <2>2. v + 3 \in 1 .. Len(ValueBlocks) /\ v \in 1 .. Len(ValueBlocks') - 3
      BY <1>3, <1>4, <2>1
    <2>. QED BY <1>4, <2>1, <2>2 DEF LeadsToValues
  <1>7. \A v, c : LeadsToNode(v, c) => LeadsToNode(v, c)'
    <2> SUFFICES ASSUME NEW v, NEW c, LeadsToNode(v, c)
                 PROVE  LeadsToNode(v, c)'
      OBVIOUS
    <2>1. /\ v \in 1 .. Len(IndexBlocks) - 3
          /\ IndexBlocks[v + 3] \in Nodes \ DOMAIN leaves
          /\ Content(IndexBlocks[v + 3]) = c
      BY DEF LeadsToNode
    <2>2. v + 3 \in 1 .. Len(IndexBlocks) /\ v \in 1 .. Len(IndexBlocks') - 3
      BY <1>3, <1>5, <2>1
    <2>3. IndexBlocks'[v + 3] = IndexBlocks[v + 3]
      BY <1>5, <2>2
    <2>. QED BY <1>2, <2>1, <2>2, <2>3 DEF LeadsToNode
  <1>8. /\ \A b \in DOMAIN valueBlockIdx : \A v :
             v = valueBlockIdx[b] => LeadsToValues(v, b)'
        /\ \A c \in DOMAIN indexBlockIdx : \A v :
             v = indexBlockIdx[c] => LeadsToNode(v, c)'
        /\ \A m \in DOMAIN index : \A v :
             v = index[m] => IF m \in DOMAIN leaves
                             THEN LeadsToValues(v, leaves[m])'
                             ELSE LeadsToNode(v, Content(m))'
    <2>1. ASSUME NEW b \in DOMAIN valueBlockIdx, NEW v, v = valueBlockIdx[b]
          PROVE  LeadsToValues(v, b)'
      <3>1. LeadsToValues(v, b)
        BY <2>1 DEF BlocksHold, FixedBlocks
      <3>. QED BY <1>6, <3>1
    <2>2. ASSUME NEW c \in DOMAIN indexBlockIdx, NEW v, v = indexBlockIdx[c]
          PROVE  LeadsToNode(v, c)'
      <3>1. LeadsToNode(v, c)
        BY <2>2 DEF BlocksHold, FixedBlocks
      <3>. QED BY <1>7, <3>1
    <2>3. ASSUME NEW m \in DOMAIN index, NEW v, v = index[m]
          PROVE  IF m \in DOMAIN leaves
                 THEN LeadsToValues(v, leaves[m])'
                 ELSE LeadsToNode(v, Content(m))'
      <3>1. CASE m \in DOMAIN leaves
        <4>1. PICK b : b = leaves[m]
          OBVIOUS
        <4>2. LeadsToValues(v, b)
          BY <2>3, <3>1, <4>1 DEF BlocksHold, FixedBlocks
        <4>. QED BY <1>2, <1>6, <3>1, <4>1, <4>2
      <3>2. CASE m \notin DOMAIN leaves
        <4>1. PICK c : c = Content(m)
          OBVIOUS
        <4>2. LeadsToNode(v, c)
          BY <2>3, <3>2, <4>1 DEF BlocksHold, FixedBlocks
        <4>3. LeadsToNode(v, c)' /\ c = Content(m)'
          BY <1>2, <1>7, <4>1, <4>2
        <4>. QED BY <3>2, <4>3
      <3>. QED BY <3>1, <3>2
    <2>. QED BY <2>1, <2>2, <2>3
  <1>9. PICK v :
          /\ index' = With(index, n, v)
          /\ IF n \in DOMAIN leaves THEN LeadsToValues(v, leaves[n])'
                                    ELSE LeadsToNode(v, Content(n))'
          /\ \/ valueBlockIdx' = valueBlockIdx
             \/ /\ n \in DOMAIN leaves
                /\ valueBlockIdx' = With(valueBlockIdx, leaves[n], v)
          /\ \/ indexBlockIdx' = indexBlockIdx
             \/ /\ n \notin DOMAIN leaves
                /\ indexBlockIdx' = With(indexBlockIdx, Content(n), v)
    <2>1. CASE StoreLeaf(n)
      <3>1. /\ n \in DOMAIN leaves /\ leaves[n] \in Block
            /\ ValueBlocks' = Append(ValueBlocks, leaves[n])
            /\ valueBlockIdx' = With(valueBlockIdx, leaves[n], Len(ValueBlocks) - 2)
            /\ index' = With(index, n, Len(ValueBlocks) - 2)
            /\ indexBlockIdx' = indexBlockIdx
        BY <2>1 DEF StoreLeaf, Store, Handle, blockOffset, TrieTypeOK
      <3>2. /\ Len(ValueBlocks') = Len(ValueBlocks) + 1
            /\ ValueBlocks'[Len(ValueBlocks) + 1] = leaves[n]
        BY <1>3, <3>1, AppendedBlock
      <3>3. PICK v : v = Len(ValueBlocks) - 2
        OBVIOUS
      <3>4. v \in 1 .. Len(ValueBlocks') - 3 /\ v + 3 = Len(ValueBlocks) + 1
        BY <1>3, <3>2, <3>3
      <3>5. LeadsToValues(v, leaves[n])'
        BY <1>2, <3>2, <3>4 DEF LeadsToValues
      <3>. QED BY <3>1, <3>3, <3>5
    <2>2. CASE ShareLeaf(n)
      <3>1. /\ n \in DOMAIN leaves
            /\ leaves[n] \in DOMAIN valueBlockIdx
            /\ index' = With(index, n, valueBlockIdx[leaves[n]])
            /\ indexBlockIdx' = indexBlockIdx /\ valueBlockIdx' = valueBlockIdx
        BY <2>2 DEF ShareLeaf
      <3>2. PICK b, v : b = leaves[n] /\ v = valueBlockIdx[b]
        OBVIOUS
      <3>3. LeadsToValues(v, b)' /\ b = leaves'[n]
        BY <1>2, <1>8, <3>1, <3>2
      <3>. QED BY <3>1, <3>2, <3>3
    <2>3. CASE AddIndexBlock(n)
      <3>1. /\ n \notin DOMAIN leaves
            /\ IndexBlocks' = Append(IndexBlocks, n)
            /\ indexBlockIdx' = With(indexBlockIdx, Content(n), Len(IndexBlocks) - 2)
            /\ index' = With(index, n, Len(IndexBlocks) - 2)
            /\ valueBlockIdx' = valueBlockIdx
        BY <2>3 DEF AddIndexBlock, blockOffset
      <3>2. /\ Len(IndexBlocks') = Len(IndexBlocks) + 1
            /\ IndexBlocks'[Len(IndexBlocks) + 1] = n
        BY <1>3, <3>1, AppendedBlock
      <3>3. PICK v : v = Len(IndexBlocks) - 2
        OBVIOUS
      <3>4. v \in 1 .. Len(IndexBlocks') - 3 /\ v + 3 = Len(IndexBlocks) + 1
        BY <1>3, <3>2, <3>3
      <3>5. LeadsToNode(v, Content(n))'
        BY <1>2, <3>1, <3>2, <3>4 DEF LeadsToNode
      <3>. QED BY <3>1, <3>3, <3>5
    <2>4. CASE ShareIndexBlock(n)
      <3>1. /\ n \notin DOMAIN leaves
            /\ Content(n) \in DOMAIN indexBlockIdx
            /\ index' = With(index, n, indexBlockIdx[Content(n)])
            /\ indexBlockIdx' = indexBlockIdx /\ valueBlockIdx' = valueBlockIdx
        BY <2>4 DEF ShareIndexBlock
      <3>2. PICK c, v : c = Content(n) /\ v = indexBlockIdx[c]
        OBVIOUS
      <3>3. LeadsToNode(v, c)' /\ c = Content(n)'
        BY <1>2, <1>8, <3>1, <3>2
      <3>. QED BY <3>1, <3>2, <3>3
    <2>5. CASE FinishRoot(n)
      <3>1. /\ n = <<>>
            /\ indexBlockIdx' = With(indexBlockIdx, Content(n), 1)
            /\ index' = With(index, n, 1)
            /\ valueBlockIdx' = valueBlockIdx
        BY <2>5 DEF FinishRoot, blockOffset, rootBlockOffset
      <3>2. n \notin DOMAIN leaves
        BY <3>1, RootIsInner
      <3>3. 1 \in 1 .. Len(IndexBlocks') - 3 /\ 4 \in 1 .. Len(IndexBlocks)
        BY <1>3, <1>5
      <3>4. IndexBlocks'[1 + 3] = n
        BY <1>5, <3>1, <3>3 DEF BlocksHold, FixedBlocks
      <3>5. LeadsToNode(1, Content(n))'
        BY <1>2, <3>2, <3>3, <3>4 DEF LeadsToNode
      <3>. QED BY <3>1, <3>2, <3>5
    <2>. QED BY <1>1, <2>1, <2>2, <2>3, <2>4, <2>5
  <1>10. DOMAIN index' = DOMAIN index \cup {n} /\ index'[n] = v
    BY <1>9 DEF With
  <1>11. ASSUME NEW m \in DOMAIN index'
         PROVE  (IF m \in DOMAIN leaves THEN LeadsToValues(index[m], leaves[m])
                                        ELSE LeadsToNode(index[m], Content(m)))'
    <2>1. CASE m = n
      BY <1>2, <1>9, <1>10, <2>1
    <2>2. CASE m # n
      <3>1. m \in DOMAIN index /\ index'[m] = index[m]
        BY <1>9, <1>10, <1>11, <2>2 DEF With
      <3>. QED BY <1>2, <1>8, <3>1
    <2>. QED BY <2>1, <2>2
  <1>12. ASSUME NEW b \in DOMAIN valueBlockIdx'
         PROVE  LeadsToValues(valueBlockIdx[b], b)'
    <2>1. CASE b \in DOMAIN valueBlockIdx /\ valueBlockIdx'[b] = valueBlockIdx[b]
      BY <1>8, <2>1
    <2>2. CASE n \in DOMAIN leaves /\ b = leaves[n] /\ valueBlockIdx'[b] = v
      BY <1>2, <1>9, <2>2
    <2>. QED BY <1>9, <1>12, <2>1, <2>2 DEF With
  <1>13. ASSUME NEW c \in DOMAIN indexBlockIdx'
         PROVE  LeadsToNode(indexBlockIdx[c], c)'
    <2>1. CASE c \in DOMAIN indexBlockIdx /\ indexBlockIdx'[c] = indexBlockIdx[c]
      BY <1>8, <2>1
    <2>2. CASE n \notin DOMAIN leaves /\ c = Content(n) /\ indexBlockIdx'[c] = v
      BY <1>2, <1>9, <2>2
    <2>. QED BY <1>9, <1>13, <2>1, <2>2 DEF With
  <1>14. \A m \in DOMAIN index', k \in Nodes' \ DOMAIN index' : Before(m, k)
    BY <1>1, <1>2, <1>10 DEF Turn, BlocksHold, FixedBlocks
  <1>15. /\ ValueBlocks'[1] = [s \in Slot |-> ascii'[s]]
         /\ ValueBlocks'[2] = [s \in Slot |-> ascii'[blockSize + s]]
         /\ ValueBlocks'[3] = ZeroBlock
         /\ \A i \in 1 .. 3 : IndexBlocks'[i] = Dummy
         /\ IndexBlocks'[4] = <<>>
    <2>1. /\ 1 \in 1 .. Len(ValueBlocks) /\ 2 \in 1 .. Len(ValueBlocks)
          /\ 3 \in 1 .. Len(ValueBlocks)
          /\ 1 .. 3 \subseteq 1 .. Len(IndexBlocks) /\ 4 \in 1 .. Len(IndexBlocks)
      BY <1>3
    <2>. QED BY <1>2, <1>4, <1>5, <2>1 DEF BlocksHold, FixedBlocks
  <1>16. DOMAIN index' \subseteq Nodes' /\ Len(ValueBlocks') >= 3 /\ Len(IndexBlocks') >= 4
    BY <1>2, <1>3, <1>4, <1>5, <1>10 DEF BlocksHold, FixedBlocks
  <1>17. BlocksHold'
    BY <1>11, <1>12, <1>13, <1>14, <1>15, <1>16 DEF BlocksHold, FixedBlocks, Before, Extends
  <1>18. BlocksTypeOK'
    <2>1. \A m \in DOMAIN index' : index'[m] \in Nat
      BY <1>4, <1>5, <1>11 DEF LeadsToValues, LeadsToNode
    <2>. QED BY <1>2, <1>4, <1>5, <1>16, <2>1 DEF BlocksTypeOK
  <1>. QED BY <1>17, <1>18

\* When the root is done, all nodes are: it comes last.
LEMMA RootComesLast ==
  ASSUME TrieTypeOK, BlocksHold, Built
  PROVE  DOMAIN index = Nodes
  <1>1. ASSUME NEW n \in Nodes PROVE ~Before(<<>>, n)
    <2>1. Len(n) \in Nat /\ Len(<<>>) = 0
      BY NodePath, LenProperties DEF Path
    <2>. QED BY <2>1 DEF Before, Extends
  <1>2. <<>> \in DOMAIN index
    BY DEF Built
  <1>. QED BY <1>1, <1>2 DEF BlocksHold, FixedBlocks

-----------------------------------------------------------------------------
(* The order of the blocks.                                                *)

\* A path of which a longer one is an extension agrees with it as far as it goes.
LEMMA SamePrefix ==
  ASSUME NEW m \in Path, NEW n \in Path, NEW k \in Nat, k - 1 <= Len(m), k - 1 <= Len(n),
         SubSeq(m, 1, k - 1) = SubSeq(n, 1, k - 1), NEW i \in 1 .. k - 1
  PROVE  m[i] = n[i]
  <1>1. k - 1 \in Nat /\ i \in 1 .. k - 1
    OBVIOUS
  <1>2. SubSeq(m, 1, k - 1)[i] = m[i] /\ SubSeq(n, 1, k - 1)[i] = n[i]
    BY <1>1 DEF Path
  <1>. QED BY <1>2

\* A node agrees with the nodes above it as far as they go.
LEMMA Above ==
  ASSUME NEW m \in Path, NEW n \in Path, Extends(m, n), NEW i \in 1 .. Len(n)
  PROVE  Len(n) < Len(m) /\ m[i] = n[i]
  <1>1. Len(n) < Len(m) /\ SubSeq(m, 1, Len(n)) = n
    BY DEF Extends
  <1>2. Len(m) \in Nat /\ Len(n) \in Nat
    BY LenProperties DEF Path
  <1>3. SubSeq(m, 1, Len(n))[i] = m[i]
    BY <1>1, <1>2 DEF Path
  <1>. QED BY <1>1, <1>3

\* Of two nodes only one comes before the other.
LEMMA BeforeOneWay ==
  ASSUME NEW m \in Path, NEW n \in Path, Before(m, n)
  PROVE  ~Before(n, m)
  <1>. SUFFICES ASSUME Before(n, m) PROVE FALSE
    OBVIOUS
  <1>1. Len(m) \in Nat /\ Len(n) \in Nat
    BY LenProperties DEF Path
  <1>2. ~(Extends(m, n) /\ Extends(n, m))
    BY <1>1 DEF Extends
  <1> DEFINE Lower(x, y, k) == /\ k \in 1 .. Len(x) /\ k <= Len(y)
                               /\ SubSeq(x, 1, k - 1) = SubSeq(y, 1, k - 1)
                               /\ x[k] < y[k]
  <1>3. ASSUME NEW x \in Path, NEW y \in Path, NEW k, Lower(x, y, k)
        PROVE  /\ k \in 1 .. Len(x) /\ k \in 1 .. Len(y)
               /\ x[k] \in Nat /\ y[k] \in Nat /\ x[k] < y[k]
               /\ ~Extends(x, y) /\ ~Extends(y, x)
               /\ \A i \in 1 .. k - 1 : x[i] = y[i]
    <2>1. k \in 1 .. Len(x) /\ k \in 1 .. Len(y) /\ Len(x) \in Nat /\ Len(y) \in Nat
      BY <1>3, LenProperties DEF Path
    <2>2. x[k] \in Slot /\ y[k] \in Slot
      BY <2>1 DEF Path
    <2>3. x[k] \in Nat /\ y[k] \in Nat /\ x[k] < y[k]
      BY <1>3, <2>2 DEF Slot
    <2>4. \A i \in 1 .. k - 1 : x[i] = y[i]
      <3>1. k \in Nat /\ k - 1 <= Len(x) /\ k - 1 <= Len(y)
        BY <2>1
      <3>. QED BY <1>3, <3>1, SamePrefix
    <2>5. ~Extends(x, y) /\ ~Extends(y, x)
      <3>1. Extends(x, y) => x[k] = y[k]
        BY <2>1, Above
      <3>2. Extends(y, x) => x[k] = y[k]
        BY <2>1, Above
      <3>. QED BY <2>3, <3>1, <3>2
    <2>. QED BY <2>1, <2>3, <2>4, <2>5
  <1>4. Extends(m, n) \/ \E k \in 1 .. Len(m) : Lower(m, n, k)
    BY DEF Before
  <1>5. Extends(n, m) \/ \E k \in 1 .. Len(n) : Lower(n, m, k)
    BY DEF Before
  <1> HIDE DEF Lower
  <1>6. /\ \E k \in 1 .. Len(m) : Lower(m, n, k)
        /\ \E k \in 1 .. Len(n) : Lower(n, m, k)
    BY <1>2, <1>3, <1>4, <1>5
  <1>7. PICK k \in 1 .. Len(m), j \in 1 .. Len(n) : Lower(m, n, k) /\ Lower(n, m, j)
    BY <1>6
  <1>8. /\ m[k] < n[k] /\ n[j] < m[j]
        /\ m[k] \in Nat /\ n[k] \in Nat /\ m[j] \in Nat /\ n[j] \in Nat
        /\ \A i \in 1 .. k - 1 : m[i] = n[i]
        /\ \A i \in 1 .. j - 1 : n[i] = m[i]
    BY <1>3, <1>7
  <1>9. CASE j < k
    <2>1. j \in 1 .. k - 1
      BY <1>1, <1>9
    <2>. QED BY <1>8, <2>1
  <1>10. CASE k < j
    <2>1. k \in 1 .. j - 1
      BY <1>1, <1>10
    <2>. QED BY <1>8, <2>1
  <1>11. CASE j = k
    BY <1>8, <1>11
  <1>. QED BY <1>1, <1>9, <1>10, <1>11

\* The work comes to n, a node of f, as the order of the nodes wants it.
AtTurn(f, done, n) ==
  /\ DOMAIN f \subseteq Path
  /\ IsFiniteSet(done)
  /\ n \in DOMAIN f \ done
  /\ \A m \in DOMAIN f \cap done, k \in DOMAIN f \ done : Before(m, k)
  /\ \A m \in DOMAIN f \ done : m = n \/ Before(n, m)

\* No node that is done has the contents of n.
Fresh(f, done, n) == \A m \in DOMAIN f \cap done : f[m] # f[n]

\* There is one first node with some contents.
LEMMA FirstIsOne ==
  ASSUME NEW f, DOMAIN f \subseteq Path, NEW m \in First(f), NEW n \in First(f), f[m] = f[n]
  PROVE  m = n
  <1>1. m \in DOMAIN f /\ n \in DOMAIN f
    BY DEF First
  <1>2. (m = n \/ Before(m, n)) /\ (n = m \/ Before(n, m))
    BY <1>1 DEF First
  <1>. QED BY <1>1, <1>2, BeforeOneWay

\* The node n is a first one, after some before it.
NextOf(f, done, n, before) ==
  /\ n \in First(f)
  /\ First(f) \cap (done \cup {n}) = before \cup {n}
  /\ Cardinality(before) \in Nat
  /\ Cardinality(before \cup {n}) = Cardinality(before) + 1
  /\ Rank(f, n) = Cardinality(before) + 1

\* With contents that no node had before, n is a first node, and its rank is how many
\* there are now.
LEMMA NextFirst ==
  ASSUME NEW f, NEW done, NEW n, AtTurn(f, done, n), Fresh(f, done, n)
  PROVE  NextOf(f, done, n, First(f) \cap done)
  <1> DEFINE before == First(f) \cap done
  <1>1. n \in First(f)
    BY DEF First, AtTurn, Fresh
  <1>2. First(f) \cap (done \cup {n}) = before \cup {n}
    BY <1>1
  <1>3. IsFiniteSet(before) /\ n \notin before
    BY FS_Subset DEF AtTurn
  <1>4. Cardinality(before) \in Nat /\ Cardinality(before \cup {n}) = Cardinality(before) + 1
    BY <1>3, FS_CardinalityType, FS_AddElement
  <1>5. {m \in First(f) : m = n \/ Before(m, n)} = before \cup {n}
    <2>1. ASSUME NEW m \in First(f), m \notin done, m # n PROVE ~Before(m, n)
      <3>1. m \in DOMAIN f /\ m \in Path /\ n \in Path /\ Before(n, m)
        BY <2>1 DEF AtTurn, First
      <3>. QED BY <3>1, BeforeOneWay
    <2>2. ASSUME NEW m \in before PROVE Before(m, n)
      BY <2>2 DEF AtTurn, First
    <2>. QED BY <1>1, <2>1, <2>2
  <1>6. Rank(f, n) = Cardinality(before \cup {n})
    BY <1>5 DEF Rank
  <1>. QED BY <1>1, <1>2, <1>4, <1>6 DEF NextOf

\* With contents that a node had before, n is none.
LEMMA NotFirst ==
  ASSUME NEW f, NEW done, NEW n, AtTurn(f, done, n),
         NEW m \in DOMAIN f \cap done, f[m] = f[n]
  PROVE  First(f) \cap (done \cup {n}) = First(f) \cap done
  <1>1. m \in Path /\ n \in Path /\ m # n /\ Before(m, n)
    BY DEF AtTurn
  <1>2. ~Before(n, m)
    BY <1>1, BeforeOneWay
  <1>3. n \notin First(f)
    BY <1>1, <1>2 DEF First
  <1>. QED BY <1>3

\* New contents: a block is appended, its index told and remembered.
LEMMA NewKeepsOrder ==
  ASSUME NEW f, NEW done, NEW n, AtTurn(f, done, n),
         NEW S, NEW blocks \in Seq(S), NEW block, block[n] \in S,
         NEW fixed \in Nat, NEW base \in Nat,
         NEW idx, DOMAIN idx = done, NEW byContent, f[n] \notin DOMAIN byContent,
         Placed(blocks, fixed, f, block, done), Shared(idx, f, base, done),
         Known(byContent, idx, f, done),
         NEW v, v = base + Len(blocks) - fixed + 1
  PROVE  /\ Placed(Append(blocks, block[n]), fixed, f, block, done \cup {n})
         /\ Shared(With(idx, n, v), f, base, done \cup {n})
         /\ Known(With(byContent, f[n], v), With(idx, n, v), f, done \cup {n})
  <1>0. PICK before : before = First(f) \cap done
    OBVIOUS
  <1> DEFINE more == Append(blocks, block[n])
             idx2 == With(idx, n, v)
             by2 == With(byContent, f[n], v)
  <1>1. Fresh(f, done, n)
    BY DEF Shared, Known, Fresh
  <1>2. /\ n \in First(f) /\ First(f) \cap (done \cup {n}) = before \cup {n}
        /\ Cardinality(before) \in Nat
        /\ Cardinality(before \cup {n}) = Cardinality(before) + 1
        /\ Rank(f, n) = Cardinality(before) + 1
    <2>1. NextOf(f, done, n, First(f) \cap done)
      BY <1>1, NextFirst
    <2>. QED BY <1>0, <2>1 DEF NextOf
  <1>3. Len(blocks) = fixed + Cardinality(before)
    BY <1>0 DEF Placed
  <1>4. /\ Len(more) = Len(blocks) + 1
        /\ \A i \in 1 .. Len(blocks) : more[i] = blocks[i]
        /\ more[Len(blocks) + 1] = block[n]
    BY AppendedBlock
  <1>5. n \in DOMAIN f /\ n \notin done /\ First(f) \subseteq DOMAIN f
    BY DEF AtTurn, First
  <1>6. /\ v = base + Rank(f, n)
        /\ fixed + Rank(f, n) = Len(blocks) + 1
        /\ Len(more) = fixed + Cardinality(before \cup {n})
    BY <1>2, <1>3, <1>4
  <1>7. /\ idx2[n] = v /\ \A m \in done : idx2[m] = idx[m]
        /\ DOMAIN by2 = DOMAIN byContent \cup {f[n]} /\ by2[f[n]] = v
        /\ \A c \in DOMAIN byContent : by2[c] = byContent[c]
    BY <1>5 DEF With
  <1>8. Placed(more, fixed, f, block, done \cup {n})
    <2>1. ASSUME NEW m \in before
          PROVE  fixed + Rank(f, m) \in 1 .. Len(blocks)
      <3> DEFINE low == {k \in First(f) : k = m \/ Before(k, m)}
      <3>1. low \subseteq before
        <4>. SUFFICES ASSUME NEW k \in low, k \notin done PROVE FALSE
          BY <1>0
        <4>1. k \in DOMAIN f \ done /\ m \in DOMAIN f \cap done /\ (k = m \/ Before(k, m))
          BY <1>0, <1>5
        <4>2. k \in Path /\ m \in Path /\ Before(m, k) /\ Before(k, m)
          BY <4>1 DEF AtTurn
        <4>. QED BY <4>2, BeforeOneWay
      <3>2. IsFiniteSet(before) /\ m \in low
        BY <1>0, FS_Subset DEF AtTurn
      <3>3. Cardinality(low) \in 1 .. Cardinality(before)
        <4>1. IsFiniteSet(low) /\ Cardinality(low) <= Cardinality(before)
          BY <3>1, <3>2, FS_Subset
        <4>2. Cardinality(low) \in Nat /\ Cardinality(low) # 0
          BY <3>2, <4>1, FS_CardinalityType, FS_EmptySet
        <4>. QED BY <1>2, <4>1, <4>2
      <3>4. Rank(f, m) = Cardinality(low)
        BY DEF Rank
      <3>. QED BY <1>2, <1>3, <3>3, <3>4
    <2>2. ASSUME NEW m \in before \cup {n}
          PROVE  more[fixed + Rank(f, m)] = block[m]
      <3>1. CASE m \in before
        <4>1. blocks[fixed + Rank(f, m)] = block[m]
          BY <1>0, <3>1 DEF Placed
        <4>. QED BY <1>4, <2>1, <3>1, <4>1
      <3>2. CASE m = n
        BY <1>4, <1>6, <3>2
      <3>. QED BY <3>1, <3>2
    <2>3. ASSUME NEW i \in fixed + 1 .. Len(more)
          PROVE  \E m \in before \cup {n} : i = fixed + Rank(f, m)
      <3>1. CASE i \in fixed + 1 .. Len(blocks)
        BY <1>0, <3>1 DEF Placed
      <3>2. CASE i = Len(blocks) + 1
        BY <1>6, <3>2
      <3>3. Len(blocks) \in Nat
        BY LenProperties
      <3>. QED BY <1>4, <3>1, <3>2, <3>3
    <2> HIDE DEF more
    <2>. QED BY <1>2, <1>6, <2>2, <2>3 DEF Placed
  <1>9. Shared(idx2, f, base, done \cup {n})
    <2>. SUFFICES ASSUME NEW m \in DOMAIN f \cap (done \cup {n})
                  PROVE  \E k \in before \cup {n} :
                           f[k] = f[m] /\ idx2[m] = base + Rank(f, k)
      BY <1>0, <1>2 DEF Shared
    <2>1. CASE m = n
      BY <1>6, <1>7, <2>1
    <2>2. CASE m \in DOMAIN f \cap done
      <3>1. PICK k \in before : f[k] = f[m] /\ idx[m] = base + Rank(f, k)
        BY <1>0, <2>2 DEF Shared
      <3>. QED BY <1>0, <1>7, <2>2, <3>1
    <2>. QED BY <2>1, <2>2
  <1>10. Known(by2, idx2, f, done \cup {n})
    <2>1. ASSUME NEW m \in before \cup {n}
          PROVE  f[m] \in DOMAIN by2 /\ by2[f[m]] = idx2[m]
      <3>1. CASE m = n
        BY <1>7, <3>1
      <3>2. CASE m \in before
        <4>1. f[m] \in DOMAIN byContent /\ byContent[f[m]] = idx[m]
          BY <1>0, <3>2 DEF Known
        <4>. QED BY <1>0, <1>7, <3>2, <4>1
      <3>. QED BY <3>1, <3>2
    <2>2. ASSUME NEW c \in DOMAIN by2 PROVE \E m \in before \cup {n} : f[m] = c
      <3>1. CASE c = f[n]
        BY <3>1
      <3>2. CASE c \in DOMAIN byContent
        BY <1>0, <3>2 DEF Known
      <3>. QED BY <1>7, <3>1, <3>2
    <2> HIDE DEF by2, idx2
    <2>. QED BY <1>2, <2>1, <2>2 DEF Known
  <1>. QED BY <1>8, <1>9, <1>10

\* Known contents: the index is that of the first node that has them.
LEMMA OldKeepsOrder ==
  ASSUME NEW f, NEW done, NEW n, AtTurn(f, done, n),
         NEW blocks, NEW block, NEW fixed, NEW base,
         NEW idx, DOMAIN idx = done, NEW byContent, f[n] \in DOMAIN byContent,
         Placed(blocks, fixed, f, block, done), Shared(idx, f, base, done),
         Known(byContent, idx, f, done),
         NEW v, v = byContent[f[n]]
  PROVE  /\ Placed(blocks, fixed, f, block, done \cup {n})
         /\ Shared(With(idx, n, v), f, base, done \cup {n})
         /\ Known(byContent, With(idx, n, v), f, done \cup {n})
  <1>1. PICK m \in First(f) \cap done : f[m] = f[n]
    BY DEF Known
  <1>2. m \in DOMAIN f \cap done /\ n \in DOMAIN f /\ n \notin done
    BY DEF First, AtTurn
  <1>3. First(f) \cap (done \cup {n}) = First(f) \cap done
    BY <1>1, <1>2, NotFirst
  <1>4. v = idx[m]
    BY <1>1 DEF Known
  <1>5. PICK k \in First(f) \cap done : f[k] = f[m] /\ idx[m] = base + Rank(f, k)
    BY <1>2 DEF Shared
  <1>6. /\ With(idx, n, v)[n] = v
        /\ \A j \in done : With(idx, n, v)[j] = idx[j]
    BY <1>2 DEF With
  <1>7. Shared(With(idx, n, v), f, base, done \cup {n})
    <2>. SUFFICES ASSUME NEW j \in DOMAIN f \cap (done \cup {n})
                  PROVE  \E i \in First(f) \cap done :
                           f[i] = f[j] /\ With(idx, n, v)[j] = base + Rank(f, i)
      BY <1>3 DEF Shared
    <2>1. CASE j = n
      BY <1>1, <1>4, <1>5, <1>6, <2>1
    <2>2. CASE j \in DOMAIN f \cap done
      BY <1>6, <2>2 DEF Shared
    <2>. QED BY <2>1, <2>2
  <1>. QED BY <1>3, <1>6, <1>7 DEF Placed, Known

\* Nothing changes for the nodes that n is not one of.
LEMMA OtherKeepsOrder ==
  ASSUME NEW f, NEW done, NEW n, n \notin DOMAIN f, n \notin done,
         NEW blocks, NEW block, NEW fixed, NEW base,
         NEW idx, DOMAIN idx = done,
         Placed(blocks, fixed, f, block, done), Shared(idx, f, base, done),
         NEW v
  PROVE  /\ Placed(blocks, fixed, f, block, done \cup {n})
         /\ Shared(With(idx, n, v), f, base, done \cup {n})
         /\ \A byContent : Known(byContent, idx, f, done)
                             => Known(byContent, With(idx, n, v), f, done \cup {n})
  <1>1. /\ First(f) \cap (done \cup {n}) = First(f) \cap done
        /\ DOMAIN f \cap (done \cup {n}) = DOMAIN f \cap done
    BY DEF First
  <1>2. \A j \in done : With(idx, n, v)[j] = idx[j]
    BY DEF With
  <1>. QED BY <1>1, <1>2 DEF Placed, Shared, Known

\* StartBuild: nothing is done or remembered yet.
LEMMA OrderStarts ==
  ASSUME BlocksInit, StartBuild, UNCHANGED trieVars
  PROVE  BlocksInOrder'
  <1>1. /\ DOMAIN index' = {} /\ DOMAIN valueBlockIdx' = {} /\ DOMAIN indexBlockIdx' = {}
        /\ IsFiniteSet({}) /\ Cardinality({}) = 0
    BY FS_EmptySet DEF BlocksInit, StartBuild
  <1>2. Len(ValueBlocks') = 3
    BY DEF StartBuild
  <1>3. Len(IndexBlocks') = 4
    <2>1. IndexBlocks' = Append(<<Dummy, Dummy, Dummy>>, <<>>)
      BY DEF StartBuild, BlocksInit
    <2>. QED BY <2>1, FourthBlock
  <1>4. \A f, block, blocks, fixed : fixed \in Nat /\ Len(blocks) = fixed =>
          Placed(blocks, fixed, f, block, {})
    BY <1>1 DEF Placed
  <1>5. /\ \A idx, f, base : Shared(idx, f, base, {})
        /\ \A by, idx, f : DOMAIN by = {} => Known(by, idx, f, {})
    BY DEF Shared, Known
  <1>. QED BY <1>1, <1>2, <1>3, <1>4, <1>5 DEF BlocksInOrder

\* Blocks are appended and shared in the order of the nodes.
LEMMA OffsetsKeepOrder ==
  ASSUME TrieTypeOK, LeavesOfRunes, BlocksTypeOK, BlocksHold, BlocksInOrder, ~Built,
         ComputeOffsets, UNCHANGED trieVars
  PROVE  BlocksInOrder'
  <1> DEFINE done == DOMAIN index
  <1>1. PICK n \in Nodes :
          /\ Turn(n)
          /\ \/ StoreLeaf(n) \/ ShareLeaf(n)
             \/ AddIndexBlock(n) \/ ShareIndexBlock(n)
             \/ FinishRoot(n)
    BY DEF ComputeOffsets
  <1>2. /\ leaves' = leaves /\ Nodes' = Nodes
        /\ Contents' = Contents /\ Itself' = Itself
    BY DEF trieVars, Nodes, Inner, Contents, Content, Itself
  <1>3. /\ n \notin done
        /\ \A m \in Nodes \ done : m = n \/ Before(n, m)
        /\ \A m \in done, k \in Nodes \ done : Before(m, k)
    BY <1>1 DEF Turn, BlocksHold, FixedBlocks
  <1>4. /\ IsFiniteSet(done)
        /\ Placed(ValueBlocks, 3, leaves, leaves, done)
        /\ Placed(IndexBlocks, 4, Contents, Itself, done)
        /\ Shared(index, leaves, 0, done)
        /\ Shared(index, Contents, 1, done)
        /\ Known(valueBlockIdx, index, leaves, done)
        /\ Known(indexBlockIdx, index, Contents, done)
    BY DEF BlocksInOrder
  <1>5. /\ DOMAIN leaves \subseteq Nodes /\ DOMAIN Contents = Inner
        /\ Inner = Nodes \ (DOMAIN leaves \cup {<<>>})
        /\ Nodes \subseteq Path
    BY LeafIsNode, NodePath DEF Contents, Inner
  <1>6. /\ n \in DOMAIN leaves => AtTurn(leaves, done, n) /\ n \notin DOMAIN Contents
        /\ n \in Inner => AtTurn(Contents, done, n) /\ n \notin DOMAIN leaves
    BY <1>3, <1>4, <1>5 DEF AtTurn
  <1>7. <<>> \notin DOMAIN leaves /\ <<>> \notin DOMAIN Contents
    BY <1>5, RootIsInner
  <1>8. IsFiniteSet(done \cup {n})
    BY <1>4, FS_AddElement
  <1>9. /\ ValueBlocks \in Seq(Block) /\ Len(ValueBlocks) \in Nat
        /\ IndexBlocks \in Seq(Nodes \cup {Dummy}) /\ Len(IndexBlocks) \in Nat
    BY LenProperties DEF BlocksTypeOK
  <1> HIDE DEF done
  <1>10. ASSUME NEW v, index' = With(index, n, v),
                Placed(ValueBlocks', 3, leaves, leaves, done \cup {n}),
                Placed(IndexBlocks', 4, Contents, Itself, done \cup {n}),
                Shared(With(index, n, v), leaves, 0, done \cup {n}),
                Shared(With(index, n, v), Contents, 1, done \cup {n}),
                n = <<>> \/
                  /\ Known(valueBlockIdx', With(index, n, v), leaves, done \cup {n})
                  /\ Known(indexBlockIdx', With(index, n, v), Contents, done \cup {n})
         PROVE  BlocksInOrder'
    <2>1. DOMAIN index' = done \cup {n} /\ (n = <<>> => Built')
      BY <1>10 DEF With, done, Built
    <2>. QED BY <1>2, <1>8, <1>10, <2>1 DEF BlocksInOrder
  <1>11. CASE StoreLeaf(n)
    <2> DEFINE v == Len(ValueBlocks) - 2
    <2>1. /\ n \in DOMAIN leaves /\ leaves[n] \in Block /\ leaves[n] \notin DOMAIN valueBlockIdx
          /\ ValueBlocks' = Append(ValueBlocks, leaves[n])
          /\ valueBlockIdx' = With(valueBlockIdx, leaves[n], v)
          /\ index' = With(index, n, v)
          /\ IndexBlocks' = IndexBlocks /\ indexBlockIdx' = indexBlockIdx
      BY <1>11 DEF StoreLeaf, Store, Handle, blockOffset, TrieTypeOK
    <2>2. v = 0 + Len(ValueBlocks) - 3 + 1
      BY <1>9
    <2> HIDE DEF v
    <2>3. /\ Placed(ValueBlocks', 3, leaves, leaves, done \cup {n})
          /\ Shared(With(index, n, v), leaves, 0, done \cup {n})
          /\ Known(valueBlockIdx', With(index, n, v), leaves, done \cup {n})
      BY <1>4, <1>6, <1>9, <2>1, <2>2, NewKeepsOrder DEF done
    <2>4. /\ Placed(IndexBlocks', 4, Contents, Itself, done \cup {n})
          /\ Shared(With(index, n, v), Contents, 1, done \cup {n})
          /\ Known(indexBlockIdx', With(index, n, v), Contents, done \cup {n})
      BY <1>3, <1>4, <1>6, <2>1, OtherKeepsOrder DEF done
    <2>. QED BY <1>10, <2>1, <2>3, <2>4
  <1>12. CASE ShareLeaf(n)
    <2> DEFINE v == valueBlockIdx[leaves[n]]
    <2>1. /\ n \in DOMAIN leaves /\ leaves[n] \in DOMAIN valueBlockIdx
          /\ index' = With(index, n, v)
          /\ ValueBlocks' = ValueBlocks /\ valueBlockIdx' = valueBlockIdx
          /\ IndexBlocks' = IndexBlocks /\ indexBlockIdx' = indexBlockIdx
      BY <1>12 DEF ShareLeaf
    <2>2. v = valueBlockIdx[leaves[n]]
      OBVIOUS
    <2> HIDE DEF v
    <2>3. /\ Placed(ValueBlocks', 3, leaves, leaves, done \cup {n})
          /\ Shared(With(index, n, v), leaves, 0, done \cup {n})
          /\ Known(valueBlockIdx', With(index, n, v), leaves, done \cup {n})
      BY <1>4, <1>6, <2>1, <2>2, OldKeepsOrder DEF done
    <2>4. /\ Placed(IndexBlocks', 4, Contents, Itself, done \cup {n})
          /\ Shared(With(index, n, v), Contents, 1, done \cup {n})
          /\ Known(indexBlockIdx', With(index, n, v), Contents, done \cup {n})
      BY <1>3, <1>4, <1>6, <2>1, OtherKeepsOrder DEF done
    <2>. QED BY <1>10, <2>1, <2>3, <2>4
  <1>13. CASE AddIndexBlock(n)
    <2> DEFINE v == Len(IndexBlocks) - 2
    <2>1. /\ n \in Inner /\ Contents[n] = Content(n) /\ Itself[n] = n
          /\ Contents[n] \notin DOMAIN indexBlockIdx
          /\ IndexBlocks' = Append(IndexBlocks, Itself[n])
          /\ indexBlockIdx' = With(indexBlockIdx, Contents[n], v)
          /\ index' = With(index, n, v)
          /\ ValueBlocks' = ValueBlocks /\ valueBlockIdx' = valueBlockIdx
      BY <1>1, <1>13 DEF AddIndexBlock, blockOffset, Inner, Contents, Itself
    <2>2. v = 1 + Len(IndexBlocks) - 4 + 1 /\ Itself[n] \in Nodes \cup {Dummy}
      BY <1>9, <2>1
    <2> HIDE DEF v
    <2>3. /\ Placed(IndexBlocks', 4, Contents, Itself, done \cup {n})
          /\ Shared(With(index, n, v), Contents, 1, done \cup {n})
          /\ Known(indexBlockIdx', With(index, n, v), Contents, done \cup {n})
      BY <1>4, <1>6, <1>9, <2>1, <2>2, NewKeepsOrder DEF done
    <2>4. /\ Placed(ValueBlocks', 3, leaves, leaves, done \cup {n})
          /\ Shared(With(index, n, v), leaves, 0, done \cup {n})
          /\ Known(valueBlockIdx', With(index, n, v), leaves, done \cup {n})
      BY <1>3, <1>4, <1>6, <2>1, OtherKeepsOrder DEF done
    <2>. QED BY <1>10, <2>1, <2>3, <2>4
  <1>14. CASE ShareIndexBlock(n)
    <2> DEFINE v == indexBlockIdx[Contents[n]]
    <2>1. /\ n \in Inner /\ Contents[n] = Content(n)
          /\ Contents[n] \in DOMAIN indexBlockIdx
          /\ index' = With(index, n, v)
          /\ ValueBlocks' = ValueBlocks /\ valueBlockIdx' = valueBlockIdx
          /\ IndexBlocks' = IndexBlocks /\ indexBlockIdx' = indexBlockIdx
      BY <1>1, <1>14 DEF ShareIndexBlock, Inner, Contents
    <2>2. v = indexBlockIdx[Contents[n]]
      OBVIOUS
    <2> HIDE DEF v
    <2>3. /\ Placed(IndexBlocks', 4, Contents, Itself, done \cup {n})
          /\ Shared(With(index, n, v), Contents, 1, done \cup {n})
          /\ Known(indexBlockIdx', With(index, n, v), Contents, done \cup {n})
      BY <1>4, <1>6, <2>1, <2>2, OldKeepsOrder DEF done
    <2>4. /\ Placed(ValueBlocks', 3, leaves, leaves, done \cup {n})
          /\ Shared(With(index, n, v), leaves, 0, done \cup {n})
          /\ Known(valueBlockIdx', With(index, n, v), leaves, done \cup {n})
      BY <1>3, <1>4, <1>6, <2>1, OtherKeepsOrder DEF done
    <2>. QED BY <1>10, <2>1, <2>3, <2>4
  <1>15. CASE FinishRoot(n)
    <2>1. /\ n = <<>> /\ index' = With(index, n, 1)
          /\ ValueBlocks' = ValueBlocks /\ IndexBlocks' = IndexBlocks
      BY <1>15 DEF FinishRoot, blockOffset, rootBlockOffset
    <2>2. /\ Placed(ValueBlocks', 3, leaves, leaves, done \cup {n})
          /\ Shared(With(index, n, 1), leaves, 0, done \cup {n})
      BY <1>3, <1>4, <1>7, <2>1, OtherKeepsOrder DEF done
    <2>3. /\ Placed(IndexBlocks', 4, Contents, Itself, done \cup {n})
          /\ Shared(With(index, n, 1), Contents, 1, done \cup {n})
      BY <1>3, <1>4, <1>7, <2>1, OtherKeepsOrder DEF done
    <2>. QED BY <1>10, <2>1, <2>2, <2>3
  <1>. QED BY <1>1, <1>11, <1>12, <1>13, <1>14, <1>15
\* The order leaves one array of blocks.
LEMMA PlacedOnce ==
  ASSUME NEW f, NEW done, NEW block, NEW fixed \in Nat,
         NEW S, NEW a \in Seq(S), NEW b \in Seq(S), \A i \in 1 .. fixed : a[i] = b[i],
         Placed(a, fixed, f, block, done), Placed(b, fixed, f, block, done)
  PROVE  a = b
  <1>1. Len(a) = Len(b) /\ Len(a) \in Nat
    BY LenProperties DEF Placed
  <1>2. ASSUME NEW i \in 1 .. Len(a) PROVE a[i] = b[i]
    <2>1. CASE i \in 1 .. fixed
      BY <2>1
    <2>2. CASE i \in fixed + 1 .. Len(a)
      <3>1. PICK n \in First(f) \cap done : i = fixed + Rank(f, n)
        BY <2>2 DEF Placed
      <3>. QED BY <3>1 DEF Placed
    <2>. QED BY <1>1, <2>1, <2>2
  <1>. QED BY <1>1, <1>2

\* And one place for the contents of each node.
LEMMA SharedOnce ==
  ASSUME NEW f, DOMAIN f \subseteq Path, NEW done, NEW base, NEW x, NEW y,
         Shared(x, f, base, done), Shared(y, f, base, done), NEW n \in DOMAIN f \cap done
  PROVE  x[n] = y[n]
  <1>1. PICK m \in First(f) : f[m] = f[n] /\ x[n] = base + Rank(f, m)
    BY DEF Shared
  <1>2. PICK k \in First(f) : f[k] = f[n] /\ y[n] = base + Rank(f, k)
    BY DEF Shared
  <1>. QED BY <1>1, <1>2, FirstIsOne
=============================================================================
