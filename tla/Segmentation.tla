---------------------------- MODULE Segmentation ----------------------------
(***************************************************************************)
(* What cutting a text into lines promises, whatever the pair table of     *)
(* UAX #14 says of the characters: the cuts move forward, fall between     *)
(* characters and never within CR LF, the last one is at the end of the    *)
(* text, and lines end where they must.                                    *)
(***************************************************************************)
EXTENDS EncodedText

CONSTANT Texts

VARIABLES text, offsets, kinds, outcome

segVars == <<text, offsets, kinds, outcome>>

Frontier == IF offsets = <<>> THEN 0 ELSE offsets[Len(offsets)]

SegInit ==
  /\ text \in Texts
  /\ offsets = <<>>
  /\ kinds = <<>>
  /\ outcome = IF text = <<>> THEN "done" ELSE "running"

\* A line of t that starts at the offset `from` may end at `at`, with a break
\* of kind k.
LineEnd(t, from, at, k) ==
  /\ at \in from + 1 .. Len(t)
  /\ ~Inside(t, at)
  /\ ~WithinCRLF(t, at)
  /\ k = breakMandatory <=> (at = Len(t) \/ HardBreak(t, at))
  /\ k = breakOpportunity => ~StartsWith(t, at, Hard \cup {"SP", "ZW"})

\* There is no hard break within the line; but in a text that is not UTF-8 one goes
\* unseen in a line that runs to the text's end, if it follows a first character
\* that cannot be decoded, or an encoding that the text cuts short starts there or
\* before it.
NoneMissed(t, from, at) ==
  \A c \in from + 1 .. at - 1 :
    HardBreak(t, c) => /\ at = Len(t)
                       /\ ~Decodable(t, from) \/ CutShort(t, from, c)

Cut ==
  /\ outcome = "running"
  /\ \E at \in 1 .. Len(text), k \in BreakKind :
       /\ LineEnd(text, Frontier, at, k)
       /\ NoneMissed(text, Frontier, at)
       /\ offsets' = Append(offsets, at)
       /\ kinds' = Append(kinds, k)
       /\ outcome' = IF at = Len(text) THEN "done" ELSE "running"
  /\ text' = text

SegSafety == SegInit /\ [][Cut]_segVars

SegSpec == SegSafety /\ WF_segVars(Cut)
=============================================================================
