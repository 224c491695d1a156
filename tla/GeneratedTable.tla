--------------------------- MODULE GeneratedTable ---------------------------
(***************************************************************************)
(* lookup and lookupValue over the arrays of trie.go, for sequences of     *)
(* bytes that are numbers.                                                 *)
(***************************************************************************)
EXTENDS LineBreakData, FiniteSetsExt

Cont == 128 .. 191

\* How many bytes the encoding has that a byte starts; 0 if it starts none.
Width(c0) ==
  CASE c0 < 128 -> 1
    [] c0 \in 194 .. 223 -> 2
    [] c0 \in 224 .. 239 -> 3
    [] c0 \in 240 .. 247 -> 4
    [] OTHER -> 0

\* Mutant: value blocks are numbered from the second one.
Mutant_lookupValue(n, b) == lineBreakValues[(n + 1) * 64 + b]

lookupValue(n, b) == lineBreakValues[n * 64 + b]

\* Mutant: blocks are numbered from the first one of continuation bytes.
Mutant_Child(i, c) == lineBreakIndex[i * 64 + c - 128]

\* o := uint32(i)<<6 + uint32(c); i = lineBreakIndex[o]
Child(i, c) == lineBreakIndex[i * 64 + c]

\* The block under the bytes before the last one.
Block(prefix) ==
  FoldLeft(Child, lineBreakIndex[prefix[1]], Tail(prefix))

\* Mutant: a byte that does not continue is taken for part of the encoding.
Mutant_Broken(s) == {k \in 2 .. Width(s[1]) - 1 : s[k] \notin Cont}

\* The places that hold no continuation byte.
Broken(s) == {k \in 2 .. Width(s[1]) : s[k] \notin Cont}

lookup(s) ==
  LET n == Width(s[1])
  IN  CASE n = 0 -> [v |-> {}, sz |-> 1]
        [] n = 1 -> [v |-> lineBreakValues[s[1]], sz |-> 1]
        [] n > Len(s) -> [v |-> {}, sz |-> 0]
        [] OTHER -> IF Broken(s) # {}
                    THEN [v |-> {}, sz |-> Min(Broken(s)) - 1]
                    ELSE [v |-> lookupValue(Block(SubSeq(s, 1, n - 1)), s[n]),
                          sz |-> n]
=============================================================================
