----------------------------- MODULE ByteTexts -----------------------------
(***************************************************************************)
(* The texts that the checks of NextBreak and breaks use: characters of    *)
(* one to four bytes, bytes that start no encoding, and encodings cut      *)
(* short, in every order, UTF-8 or not.                                    *)
(***************************************************************************)
EXTENDS EncodedText, SequencesExt

Ascii(class) == [len |-> 1, cont |-> FALSE, prop |-> {class}, scalar |-> TRUE]
Lead(n, prop) == [len |-> n, cont |-> FALSE, prop |-> prop, scalar |-> TRUE]

Continuation == [len |-> 0, cont |-> TRUE, prop |-> {}, scalar |-> FALSE]
Invalid      == [len |-> 0, cont |-> FALSE, prop |-> {}, scalar |-> FALSE]
Surrogate    == [len |-> 3, cont |-> FALSE, prop |-> {}, scalar |-> FALSE]

Unassigned == Lead(2, {})
NEL        == Lead(2, {"NL"})
LineSep    == Lead(3, {"BK"})
Emoji      == Lead(4, {"EB"})

\* Up to four bytes of any sort, and up to six of those that make the longest
\* character meet the hard breaks.
Bytes ==
  { Ascii("AL"), Ascii("SP"), Ascii("CR"), Ascii("LF"), NEL, Unassigned,
    LineSep, Emoji, Continuation, Invalid, Surrogate }

FewBytes == { Ascii("CR"), Ascii("LF"), NEL, Emoji, Continuation }

AllTexts == SeqOf(Bytes, 4) \cup SeqOf(FewBytes, 6)
=============================================================================
