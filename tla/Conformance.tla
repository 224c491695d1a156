---------------------------- MODULE Conformance ----------------------------
(***************************************************************************)
(* NextBreak, driven over whole texts, against the rules of UAX #14.       *)
(* The texts are valid UTF-8: the classes that ASCII has take one byte,    *)
(* the others two.                                                         *)
(***************************************************************************)
EXTENDS Breaks, ScanContext, UAX14, TableValues, SequencesExt

AsciiValues ==
  { {c} : c \in {"AL", "BA", "BK", "CL", "CM", "CP", "CR", "EX", "HY", "IS",
                 "LF", "NU", "OP", "PO", "PR", "QU", "SP", "SY"} }

Continuation == [len |-> 0, cont |-> TRUE, prop |-> {}, scalar |-> FALSE]

Encode(p) ==
  IF p \in AsciiValues
  THEN <<[len |-> 1, cont |-> FALSE, prop |-> p, scalar |-> TRUE]>>
  ELSE <<[len |-> 2, cont |-> FALSE, prop |-> p, scalar |-> TRUE],
         Continuation>>

Encoded(ps) == FlattenSeq([j \in DOMAIN ps |-> Encode(ps[j])])

\* The texts of up to n characters of these values.
TextsOf(values, n) == {Encoded(ps) : ps \in SeqOf(values, n)}

StartsWithMark(ps) == ps # <<>> /\ Is(ps[1], Marks)

-----------------------------------------------------------------------------

\* The values of the characters, by the offsets where they start; XX is AL (LB1).
Characters(t) == {o \in 0 .. Len(t) - 1 : Complete(t, o)}
Values(t) ==
  [o \in Characters(t) |-> IF t[o + 1].prop = {} THEN {"AL"} ELSE t[o + 1].prop]

\* The rules' comments in break.go, and the conformance test: the lines that
\* NextBreak finds one call after the other end where the rules, read over the
\* whole text, let a line end.
ConformsToUAX14 ==
  (outcome = "done" /\ text # <<>>) =>
    ToSet(offsets) = LineEnds(Values(text)) \cup {Len(text)}

\* A text without marks (LB8a, LB9, LB10).
Unmarked(t) == \A o \in Characters(t) : ~Is(Values(t)[o], Marks)

\* A text without two sequences that the code and the comments judge differently:
\* an aksara, VI and AS (LB28a), and a prefix or postfix, OP, and IS of another
\* width than the OP (LB25).
Undisputed(t) ==
  LET q == Values(t)
  IN  \A l, r \in DOMAIN q :
        Adjacent(q, l, r) =>
          /\ Pair(q, l, r, {"VI"}, {"AS"}) => ~Is(Prior(q, l), {"AK", "DC", "AS"})
          /\ Pair(q, l, r, {"OP"}, {"IS"}) /\ Is(Prior(q, l), {"PO", "PR"}) =>
               t[l + 1].len = t[r + 1].len

-----------------------------------------------------------------------------
(* On texts that these leave, the driver keeps to the rules all along.     *)

Covered(t) == WellFormed(t) /\ Unmarked(t) /\ Undisputed(t)

\* Where a line of the text may end.
Ends == LineEnds(Values(text))

\* Of these places, none is between the start of the slice and the place e.
NoneBefore(ends, e) == \A r \in ends : ~(start < r /\ r < e)

\* The driver has cut the text at these places, as far as it has come: at all of
\* them, and nowhere else.
CutHere(ends) ==
  /\ start \in {0} \cup ToSet(offsets)
  /\ ToSet(offsets) = {r \in ends : r <= start} \cup ({start} \cap {Len(text)})

\* The slice starts where a line does, a call scans past no line end, and it
\* returns the next.  With TypeOK, LinesInv and ContextInv, the inductive
\* invariant of ConformsToUAX14.
CutsInv ==
  (Covered(text) /\ text # <<>>) =>
    LET ends == Ends
    IN  /\ CutHere(ends)
        /\ pc = "scan" => NoneBefore(ends, start + pos)
        /\ outcome = "running" /\ pc = "ret" =>
             /\ start + advance \in {Len(text)} \cup ends
             /\ NoneBefore(ends, start + advance)
=============================================================================
