------------------------------ MODULE NextBreak ------------------------------
(***************************************************************************)
(* NextBreak (break.go): one call scans the slice text[start:] from its    *)
(* first character and returns the bytes to advance over and the kind of   *)
(* the break found there.                                                  *)
(*                                                                         *)
(* pc is "call" before the first lookup, "scan" at the head of the loop    *)
(* and "ret" once the call has returned.  One action is one path through   *)
(* the code before the loop or through one iteration of it.                *)
(***************************************************************************)
EXTENDS LineBreakRules, TrieLookup

CONSTANT Texts          \* the texts a caller may pass

ASSUME TextsAssumption == Texts \subseteq Seq(Byte)

VARIABLES
  text,     \* the bytes behind the slice `data`
  start,    \* where the slice starts in them
  pc,
  pos,      \* bytes of the slice scanned so far
  current,  \* property of the last character scanned
  seen,     \* the variables "stateful across loop iterations"
  advance,  \* the results of the call
  kind

scanVars == <<text, start, pc, pos, current, seen, advance, kind>>

\* len(data)
Size == Len(text) - start

\* lookupProperty(data[i:]) where the code looks ahead: 0 beyond the end.
Peek(i) == IF i < Size THEN lookupProperty(text, start + i).v ELSE {}

Return(a, k) ==
  /\ pc' = "ret"
  /\ advance' = a
  /\ kind' = k
  /\ UNCHANGED <<text, start, pos, current, seen>>

-----------------------------------------------------------------------------

\* if len(data) == 0
CallEmpty ==
  /\ pc = "call"
  /\ Size = 0
  /\ Return(0, breakMandatory)

\* Mutant: -1 for an error.
Mutant_CallUndecodable ==
  /\ pc = "call"
  /\ Size > 0
  /\ lookupProperty(text, start).sz = 0
  /\ Return(-1, breakMandatory)

\* The first character cannot be decoded: everything is one segment.
CallUndecodable ==
  /\ pc = "call"
  /\ Size > 0
  /\ lookupProperty(text, start).sz = 0
  /\ Return(Size, breakMandatory)

\* LB2: the start of the text always advances.
CallFirst ==
  /\ pc = "call"
  /\ Size > 0
  /\ lookupProperty(text, start).sz > 0
  /\ pc' = "scan"
  /\ pos' = lookupProperty(text, start).sz
  /\ current' = lookupProperty(text, start).v
  /\ seen' = Nothing
  /\ UNCHANGED <<text, start, advance, kind>>

-----------------------------------------------------------------------------
(* One iteration.                                                          *)

remembered == Remember(seen, current)

\* The width and the property of the character after the boundary.
width == lookup(text, start + pos).sz
following == LET v == lookup(text, start + pos).v
             IN  IF v = {} THEN {"AL"} ELSE v

\* Both lookaheads step by the width of that character.
verdict == Verdict(remembered, following, Peek(pos + width),
                   Peek(pos + width + width))

\* LB3
EndOfText ==
  /\ pc = "scan"
  /\ pos = Size
  /\ Return(pos, breakMandatory)

\* The text ends within an encoding.
Truncated ==
  /\ pc = "scan"
  /\ pos < Size
  /\ width = 0
  /\ Return(Size, breakMandatory)

\* Mutant: `continue` without `pos += w`.
Mutant_Continue ==
  /\ pc = "scan"
  /\ pos < Size
  /\ width > 0
  /\ verdict = join
  /\ current' = Settled(remembered, following)
  /\ seen' = remembered
  /\ UNCHANGED <<text, start, pc, pos, advance, kind>>

\* A rule forbids the break: take the character into the segment.
Continue ==
  /\ pc = "scan"
  /\ pos < Size
  /\ width > 0
  /\ verdict = join
  /\ pos' = pos + width
  /\ current' = Settled(remembered, following)
  /\ seen' = remembered
  /\ UNCHANGED <<text, start, pc, advance, kind>>

\* Mutant: the break is reported after the character that follows it.
Mutant_Break ==
  /\ pc = "scan"
  /\ pos < Size
  /\ width > 0
  /\ verdict \in BreakKind
  /\ Return(pos + width, verdict)

\* A rule asks for a break, or none forbids it (LB31).
Break ==
  /\ pc = "scan"
  /\ pos < Size
  /\ width > 0
  /\ verdict \in BreakKind
  /\ Return(pos, verdict)

-----------------------------------------------------------------------------

\* A call on the whole of a text.
Init ==
  /\ text \in Texts
  /\ start = 0
  /\ pc = "call"
  /\ pos = 0
  /\ current = {}
  /\ seen = Nothing
  /\ advance = 0
  /\ kind = breakMandatory

Step == CallEmpty \/ CallUndecodable \/ CallFirst
        \/ EndOfText \/ Truncated \/ Continue \/ Break

Returned == pc = "ret" /\ UNCHANGED scanVars

Next == Step \/ Returned

\* The call runs on its caller's goroutine, which the scheduler keeps running.
Spec == Init /\ [][Next]_scanVars /\ WF_scanVars(Step)
-----------------------------------------------------------------------------
(* Properties of one call.                                                 *)

\* Only an empty text advances by nothing; any other by whole characters, up
\* to its end at most, and the end of the text is a mandatory break.
ReturnContract ==
  pc = "ret" =>
    /\ advance \in 0 .. Size
    /\ advance = 0 <=> Size = 0
    /\ ~Inside(text, start + advance)
    /\ advance = Size => kind = breakMandatory

\* Every call returns.
Returns == <>(pc = "ret")
=============================================================================
