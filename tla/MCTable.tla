------------------------------ MODULE MCTable ------------------------------
(***************************************************************************)
(* The generator of the table on small files: eleven code points with      *)
(* encodings of one to four bytes, blocks of four entries.                 *)
(***************************************************************************)
EXTENDS TableGenerator, TLC

\* U+0, U+1, ... by first byte: 12 and 13 start two bytes, 14 three, 15 four.
\* The nodes under 14 and under 15 may turn out equal, level by level.
SmallEncode ==
  0 :> <<0>> @@ 1 :> <<7>> @@ 2 :> <<12, 8>> @@ 3 :> <<12, 11>> @@ 4 :> <<13, 8>>
  @@ 5 :> <<14, 8, 8>> @@ 6 :> <<14, 9, 8>>
  @@ 9 :> <<15, 8, 8, 8>> @@ 10 :> <<15, 9, 8, 8>>

SmallSurrogates == {7, 8}
SmallRanges == {[lo |-> 4, hi |-> 4], [lo |-> 9, hi |-> 20]}

\* The header of LineBreak.txt has the default ID where unassigned code points are
\* Extended_Pictographic, and there is a range with the default PR.
SmallDefaults ==
  {[lo |-> 1, hi |-> 1, class |-> "PR"], [lo |-> 4, hi |-> 4, class |-> "ID"],
   [lo |-> 9, hi |-> 20, class |-> "ID"]}

Rec(lo, hi, class) == [lo |-> lo, hi |-> hi, class |-> class]

LineBreakFiles ==
  { {},
    {Rec(0, 10, "AL")},
    {Rec(0, 6, "ID"), Rec(7, 8, "SG"), Rec(9, 10, "ID")},
    {Rec(0, 0, "LF"), Rec(1, 2, "AL"), Rec(3, 6, "SA"), Rec(7, 8, "SG"),
     Rec(9, 10, "CJ")},
    {Rec(1, 1, "AI"), Rec(4, 4, "QU"), Rec(5, 5, "ID"), Rec(9, 9, "ID")},
    {Rec(2, 2, "ID"), Rec(5, 6, "XX"), Rec(9, 10, "SA")} }

CategoryFiles ==
  { {Rec(2, 3, "Mn"), Rec(4, 4, "Pi"), Rec(9, 10, "Mc")},
    {Rec(4, 4, "Pf"), Rec(5, 6, "Mn"), Rec(8, 9, "Cn")},
    {Rec(0, 6, "Cn"), Rec(9, 10, "Cn")} }

WidthFiles == { {}, {Rec(2, 2, "F"), Rec(5, 9, "W")}, {Rec(6, 10, "H")} }

SmallFiles == [lb: LineBreakFiles, gc: CategoryFiles, ea: WidthFiles]

\* All but the code point 10 is listed: like U+1F80C, it is unassigned, and ID by
\* the header.
GappyFiles ==
  [lb: {{Rec(0, 4, "AL"), Rec(5, 9, "ID")}}, gc: {{Rec(9, 10, "Cn")}}, ea: {{}}]
=============================================================================
