----------------------------- MODULE EncodedText -----------------------------
(***************************************************************************)
(* Texts as NextBreak receives them: bytes, which may or may not be UTF-8. *)
(*                                                                         *)
(* A byte keeps what the code tests of it:                                 *)
(*   len     bytes of the UTF-8 encoding it starts, 0 if it starts none;   *)
(*   cont    whether it is a continuation byte (0x80..0xBF);               *)
(*   prop    the trie's value for the encoding it starts, {} if unmapped;  *)
(*   scalar  whether that encoding, when complete, is a Unicode scalar     *)
(*           (FALSE for overlong forms, surrogates, beyond U+10FFFF).      *)
(* Offsets count from 0, as in the code: the byte at offset i of a text is *)
(* text[i + 1], and the slice text[i:] is the pair of the text and i.      *)
(***************************************************************************)
EXTENDS LineBreakClasses, Integers, Sequences

\* The values that the generated table holds: one class of LineBreak.txt, beside
\* which there may be annotations.  None comes with the classes of hard breaks
\* and spaces; PI is an annotation of QU, without PF, and DC one of AL.
TableValue ==
  { p \in Property :
      /\ \A a, b \in p \ annotationMask : a = b
      /\ \A h \in Hard \cup {"SP", "ZW"} : h \in p => p = {h}
      /\ "PI" \in p => "QU" \in p /\ "PF" \notin p
      /\ "DC" \in p => "AL" \in p }

\* Every ASCII byte has a value, an encoding that is no scalar has none.
Byte ==
  { b \in [len: 0..4, cont: BOOLEAN, prop: TableValue, scalar: BOOLEAN] :
      /\ b.cont => b.len = 0
      /\ b.len = 0 => ~b.scalar
      /\ b.len = 1 => b.scalar /\ b.prop # {}
      /\ ~b.scalar => b.prop = {} }

\* A whole encoding starts at offset i.
Complete(text, i) ==
  /\ i \in 0 .. Len(text) - 1
  /\ text[i + 1].len > 0
  /\ i + text[i + 1].len <= Len(text)
  /\ \A k \in 1 .. text[i + 1].len - 1 : text[i + k + 1].cont

\* Offset c falls within a whole encoding, not at either end of it.
Inside(text, c) ==
  \E i \in 0 .. c - 1 : Complete(text, i) /\ c < i + text[i + 1].len

\* A whole encoding of a character with the property p ends at offset c.
EndsWith(text, c, p) ==
  \E i \in 0 .. c - 1 : /\ Complete(text, i)
                        /\ i + text[i + 1].len = c
                        /\ text[i + 1].prop = p

\* A whole encoding of a character with one of the classes starts at c.
StartsWith(text, c, classes) ==
  Complete(text, c) /\ Is(text[c + 1].prop, classes)

WithinCRLF(text, c) ==
  EndsWith(text, c, {"CR"}) /\ StartsWith(text, c, {"LF"})

\* A line must end at offset c.
HardBreak(text, c) ==
  /\ \E h \in Hard : EndsWith(text, c, {h})
  /\ ~WithinCRLF(text, c)

\* A whole encoding of a scalar starts at offset i.
Decodable(text, i) == Complete(text, i) /\ text[i + 1].scalar

\* The text ends before an encoding does that starts from offset a to offset c.
CutShort(text, a, c) == \E i \in a .. c : i + text[i + 1].len > Len(text)

\* Valid UTF-8: every byte belongs to the whole encoding of a scalar.
WellFormed(text) ==
  \A b \in 0 .. Len(text) - 1 :
    \E i \in 0 .. b : Decodable(text, i) /\ b < i + text[i + 1].len
=============================================================================
