------------------------------- MODULE Breaks -------------------------------
(***************************************************************************)
(* breaks (unicode_test.go): the loop around NextBreak that cuts a whole   *)
(* text into lines, each call on what the previous ones left.              *)
(***************************************************************************)
EXTENDS NextBreak

VARIABLES
  offsets,  \* where the text has been cut, in bytes
  kinds,    \* the kind of each cut
  outcome   \* "running", "done", or "error": an invalid advance

vars == <<text, start, pc, pos, current, seen, advance, kind,
          offsets, kinds, outcome>>

\* The loop is not entered on an empty text.
BreaksInit ==
  /\ Init
  /\ offsets = <<>>
  /\ kinds = <<>>
  /\ outcome = IF text = <<>> THEN "done" ELSE "running"

\* A step of the call to NextBreak on text[start:].
Scan ==
  /\ outcome = "running"
  /\ Step
  /\ UNCHANGED <<offsets, kinds, outcome>>

\* The call has returned: check the advance and move the slice by it.
Collect ==
  /\ outcome = "running"
  /\ pc = "ret"
  /\ IF advance \in 1 .. Size
     THEN /\ offsets' = Append(offsets, start + advance)
          /\ kinds' = Append(kinds, kind)
          /\ start' = start + advance
          /\ outcome' = IF advance = Size THEN "done" ELSE "running"
     ELSE /\ offsets' = <<>>
          /\ kinds' = <<>>
          /\ start' = start
          /\ outcome' = "error"
  /\ pc' = "call"
  /\ UNCHANGED <<text, pos, current, seen, advance, kind>>

Finished == outcome # "running" /\ UNCHANGED vars

BreaksNext == Scan \/ Collect \/ Finished

\* The loop and the calls run on one goroutine, which keeps running.
BreaksSpec == BreaksInit /\ [][BreaksNext]_vars /\ WF_vars(Scan \/ Collect)
-----------------------------------------------------------------------------
(* Properties.                                                             *)

TypeOK ==
  /\ text \in Seq(Byte)
  /\ start \in 0 .. Len(text)
  /\ pc \in {"call", "scan", "ret"}
  /\ pos \in Nat
  /\ current \in Property
  /\ seen \in Remembered
  /\ advance \in Nat
  /\ kind \in BreakKind
  /\ offsets \in Seq(Nat)
  /\ kinds \in Seq(BreakKind)
  /\ outcome \in {"running", "done", "error"}

S == INSTANCE Segmentation

\* The driver's slice starts at the last cut, between characters, and is empty
\* only when the driver is done.
SliceInv ==
  /\ start = S!Frontier
  /\ ~Inside(text, start)
  /\ outcome = "running" => start < Len(text)
  /\ outcome = "done" => start = Len(text)

\* The scan is within the slice, between characters; it has passed no place
\* where the line must end; and `current` tells whether it has come to one.
ScanInv ==
  pc = "scan" =>
    /\ pos \in 1 .. Size
    /\ ~Inside(text, start + pos)
    /\ \A c \in start + 1 .. start + pos - 1 : ~HardBreak(text, c)
    /\ \A h \in Hard : /\ h \in current <=> EndsWith(text, start + pos, {h})
                       /\ h \in current => current = {h}

\* What a call returns is a cut that Segmentation allows.
ReturnInv ==
  (outcome = "running" /\ pc = "ret") =>
    /\ S!LineEnd(text, start, start + advance, kind)
    /\ DefinedType \/ S!NoneMissed(text, start, start + advance)

\* The hard breaks of valid UTF-8 are among the cuts, as far as these go.
HonouredSoFar ==
  (WellFormed(text) /\ ~DefinedType) =>
    \A c \in 1 .. start :
      HardBreak(text, c) => \E n \in DOMAIN offsets : offsets[n] = c

\* The driver never meets its "invalid advance", so NextBreak always makes
\* progress and never passes the end of the slice.
NoInvalidAdvance == outcome # "error"

\* With TypeOK, the inductive invariant.
LinesInv ==
  SliceInv /\ ScanInv /\ ReturnInv /\ HonouredSoFar /\ NoInvalidAdvance

\* breaks implements Segmentation: every cut is between two characters and not
\* within CR LF, is mandatory just where a line must end, and passes no hard
\* break; and the text is cut to its end.
ImplementsSegmentation == S!SegSpec

\* LB4, LB5: a text that is valid UTF-8 is cut at every hard break.
HardBreaksHonoured ==
  (outcome = "done" /\ WellFormed(text)) =>
    \A c \in 1 .. Len(text) :
      HardBreak(text, c) => \E n \in DOMAIN offsets : offsets[n] = c

\* The driver always comes to the end of the text.
Terminates == <>(outcome = "done")
=============================================================================
