----------------------------- MODULE TrieLookup -----------------------------
(***************************************************************************)
(* lookup (trie.go) and lookupProperty (lookup.go): what the scanner sees  *)
(* of the bytes of a text.                                                 *)
(***************************************************************************)
EXTENDS EncodedText, FiniteSetsExt

\* Whether T, in lookup[T ~string | ~[]byte], is a defined type (such as
\* json.RawMessage) and not string or []byte itself.
CONSTANT DefinedType
ASSUME DefinedTypeAssumption == DefinedType \in BOOLEAN

\* The continuation places of the encoding at offset i that hold no
\* continuation byte.
Broken(text, i) == {k \in 1 .. text[i + 1].len - 1 : ~text[i + k + 1].cont}

\* The value and the width of the encoding at offset i, with i < Len(text).
\* The width is 0 when the text ends too early, and stops short of the first
\* byte that should have continued the encoding and does not.
lookup(text, i) ==
  LET lead == text[i + 1]
  IN  IF lead.len = 0
      THEN [v |-> {}, sz |-> 1]
      ELSE IF i + lead.len > Len(text)
      THEN [v |-> {}, sz |-> 0]
      ELSE IF Broken(text, i) # {}
      THEN [v |-> {}, sz |-> Min(Broken(text, i))]
      ELSE [v |-> lead.prop, sz |-> lead.len]

\* Do the sz bytes at offset i decode to one scalar?  The type switch matches
\* the types string and []byte only.
isValidUTF8Prefix(text, i, sz) ==
  /\ ~DefinedType
  /\ text[i + 1].len = sz
  /\ text[i + 1].scalar

\* A scalar the table does not map defaults to XX, which resolves to AL.
lookupProperty(text, i) ==
  LET found == lookup(text, i)
  IN  IF found.v # {} \/ found.sz = 0
      THEN found
      ELSE IF isValidUTF8Prefix(text, i, found.sz)
      THEN [v |-> {"AL"}, sz |-> found.sz]
      ELSE [v |-> {}, sz |-> 0]
=============================================================================
