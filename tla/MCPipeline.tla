----------------------------- MODULE MCPipeline -----------------------------
(***************************************************************************)
(* The generator on caches of small files, good and bad.                   *)
(***************************************************************************)
EXTENDS GeneratorPipeline, TLC

RealSurrogates == 55296 .. 57343
RealRanges == {[lo |-> 126976, hi |-> 129791], [lo |-> 130048, hi |-> 131069]}

File(version, lines) == [version |-> version, lines |-> lines]
Skip == [kind |-> "skip", left |-> <<>>, right |-> ""]
Bare == [kind |-> "bare", left |-> <<>>, right |-> ""]
Entry(left, right) == [kind |-> "entry", left |-> left, right |-> right]

LineBreakFiles ==
  { File("17.0.0", <<Skip, Entry(<<10>>, "LF"), Entry(<<65, 67>>, "AL")>>),
    File("unknown", <<Entry(<<66, 68>>, "SA"), Entry(<<55295, 55296>>, "SG")>>),
    File("16.0.0", <<Entry(<<65>>, "ID")>>),
    File("17.0.0", <<Entry(<<65>>, "AL"), Bare>>),
    File("17.0.0", <<Entry(<<67, 65>>, "AL")>>),
    File("17.0.0", <<Entry(<<65>>, "A-L")>>) }

CategoryFiles ==
  { File("unknown", <<Entry(<<67>>, "Mn"), Entry(<<126974, 126977>>, "Cn")>>),
    File("unknown", <<Entry(<<>>, "Mn")>>) }

WidthFiles ==
  { File("unknown", <<Entry(<<65>>, "W"), Skip, Entry(<<66>>, "N")>>),
    File("unknown", <<Entry(<<65, NotHex>>, "W")>>) }

Div == [is |-> "break", value |-> 0]
Mul == [is |-> "join", value |-> 0]
Hex(r) == [is |-> "hex", value |-> r]

TestFiles ==
  { File("unknown", <<<<>>, <<Mul, Hex(65), Div, Hex(769), Mul, Hex(128512), Div>>>>),
    File("unknown", <<<<Div, Hex(12354), Mul>>, <<Mul, Hex(13), Mul, Hex(10), Div>>>>),
    File("unknown", <<<<Mul, Hex(65), Mul, Hex(55296), Div>>>>) }

SmallContents ==
  LineBreak :> LineBreakFiles @@ GeneralCategory :> CategoryFiles
  @@ EastAsianWidth :> WidthFiles @@ LineBreakTest :> TestFiles

SmallOldTable == 65 :> {"AL"}
SmallOldTests == <<[input |-> <<65>>, size |-> 1, breakOffsets |-> <<1>>]>>

\* The network has one file that a run can use.
SmallRemote ==
  LineBreak :> File("17.0.0", <<Skip, Entry(<<10>>, "LF"), Entry(<<65, 67>>, "AL")>>)
=============================================================================
