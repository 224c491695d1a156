--------------------------- MODULE LineBreakData ---------------------------
(***************************************************************************)
(* The two arrays of trie.go, block by block.                              *)
(*                                                                         *)
(* ValuesFromNNN are the value blocks from that hexadecimal number on: a   *)
(* block alternates the length of a run of entries and their value.        *)
(* IndexFromNN are the index blocks from that number on: three numbers     *)
(* n, i, step in a block are n entries that count from i by step, 0 or 1.  *)
(* Entries that the composite literals leave out are 0.                    *)
(***************************************************************************)
EXTENDS LineBreakClasses, Integers, SequencesExt

\* The values of more than one bit.
CombinedBits ==
  [ AL_DC |-> {"AL","DC"}, AL_EA |-> {"AL","EA"}, AL_EPU |-> {"AL","EPU"},
    BA_EA |-> {"BA","EA"}, CL_EA |-> {"CL","EA"}, CM_EA |-> {"CM","EA"},
    EA_EB |-> {"EA","EB"}, EA_EM |-> {"EA","EM"}, EA_EX |-> {"EA","EX"},
    EA_GL |-> {"EA","GL"}, EA_H2 |-> {"EA","H2"}, EA_H3 |-> {"EA","H3"},
    EA_ID |-> {"EA","ID"}, EA_IN |-> {"EA","IN"}, EA_JL |-> {"EA","JL"},
    EA_NS |-> {"EA","NS"}, EA_OP |-> {"EA","OP"}, EA_PO |-> {"EA","PO"},
    EA_PR |-> {"EA","PR"}, EPU_ID |-> {"EPU","ID"}, PF_QU |-> {"PF","QU"},
    PI_QU |-> {"PI","QU"} ]

\* The entries of blocks one after the other, from 0 on.
Flat(blocks) ==
  [ o \in 0 .. 64 * Len(blocks) - 1 |->
      blocks[(o \div 64) + 1][(o % 64) + 1] ]

Bits(value) ==
  IF value = "0" THEN {}
  ELSE IF value \in DOMAIN CombinedBits THEN CombinedBits[value] ELSE {value}

-----------------------------------------------------------------------------
(* lineBreakValues.                                                        *)

ValuesFrom000 ==
  << <<9,"CM", 1,"BA", 1,"LF", 2,"BK", 1,"CR", 18,"CM", 1,"SP", 1,"EX", 1,"QU",
     1,"AL", 1,"PR", 1,"PO", 1,"AL", 1,"QU", 1,"OP", 1,"CP", 1,"AL", 1,"PR",
     1,"IS", 1,"HY", 1,"IS", 1,"SY", 10,"NU", 2,"IS", 3,"AL", 1,"EX">>,
     <<27,"AL", 1,"OP", 1,"PR", 1,"CP", 29,"AL", 1,"OP", 1,"BA", 1,"CL",
     1,"AL", 1,"CM">>, <<64,"0">>, <<5,"CM", 1,"NL", 26,"CM", 1,"GL", 1,"OP",
     1,"PO", 3,"PR", 5,"AL", 1,"PI_QU", 1,"AL", 1,"BA", 2,"AL", 1,"PO", 1,"PR",
     2,"AL", 1,"BB", 6,"AL", 1,"PF_QU", 3,"AL", 1,"OP">>, <<64,"AL">>,
     <<8,"AL", 1,"BB", 3,"AL", 1,"BB", 18,"AL", 1,"BB", 32,"AL">>, <<64,"CM">>,
     <<28,"CM", 7,"GL", 13,"CM", 8,"AL", 2,"0", 4,"AL", 1,"IS", 1,"AL">>,
     <<4,"0", 7,"AL", 1,"0", 1,"AL", 1,"0", 20,"AL", 1,"0", 29,"AL">>,
     <<3,"AL", 7,"CM", 54,"AL">>, <<48,"AL", 1,"0", 15,"AL">>, <<23,"AL",
     2,"0", 39,"AL">>, <<9,"AL", 1,"IS", 1,"HH", 2,"0", 2,"AL", 1,"PR", 1,"0",
     45,"CM", 1,"HH", 1,"CM">> >>

ValuesFrom00d ==
  << <<1,"AL", 2,"CM", 1,"AL", 2,"CM", 1,"EX", 1,"CM", 8,"0", 27,"HL", 4,"0",
     4,"HL", 2,"AL", 11,"0">>, <<6,"NU", 3,"AL", 3,"PO", 2,"IS", 2,"AL",
     11,"CM", 1,"EX", 1,"CM", 3,"EX", 32,"AL">>, <<11,"AL", 21,"CM", 10,"NU",
     1,"PO", 2,"NU", 3,"AL", 1,"CM", 15,"AL">>, <<20,"AL", 1,"EX", 1,"AL",
     7,"CM", 1,"NU", 1,"AL", 6,"CM", 2,"AL", 2,"CM", 1,"AL", 4,"CM", 2,"AL",
     10,"NU", 6,"AL">>, <<14,"AL", 1,"0", 2,"AL", 1,"CM", 30,"AL", 16,"CM">>,
     <<11,"CM", 2,"0", 51,"AL">>, <<38,"AL", 11,"CM", 1,"AL", 14,"0">>,
     <<10,"NU", 33,"AL", 9,"CM", 4,"AL", 1,"IS", 1,"EX", 1,"AL", 2,"0", 1,"CM",
     2,"PR">>, <<22,"AL", 4,"CM", 1,"AL", 9,"CM", 1,"AL", 3,"CM", 1,"AL",
     5,"CM", 2,"0", 15,"AL", 1,"0">>, <<25,"AL", 3,"CM", 2,"0", 1,"AL", 1,"0",
     11,"AL", 5,"0", 16,"AL">>, <<16,"AL", 2,"NU", 5,"0", 9,"CM", 32,"AL">>,
     <<10,"AL", 24,"CM", 1,"NU", 29,"CM">> >>

ValuesFrom019 ==
  << <<4,"CM", 54,"AL", 3,"CM", 1,"AL", 2,"CM">>, <<16,"CM", 1,"AL", 7,"CM",
     10,"AL", 2,"CM", 2,"BA", 10,"NU", 16,"AL">>, <<1,"AL", 3,"CM", 1,"0",
     8,"AL", 2,"0", 2,"AL", 2,"0", 22,"AL", 1,"0", 7,"AL", 1,"0", 1,"AL",
     3,"0", 4,"AL", 2,"0", 1,"CM", 1,"AL", 2,"CM">>, <<5,"CM", 2,"0", 2,"CM",
     2,"0", 3,"CM", 1,"AL", 8,"0", 1,"CM", 4,"0", 2,"AL", 1,"0", 3,"AL",
     2,"CM", 2,"0", 10,"NU", 2,"AL", 2,"PO", 5,"AL", 1,"PO", 1,"AL", 1,"PR",
     2,"AL", 1,"CM", 1,"0">>, <<1,"0", 3,"CM", 1,"0", 6,"AL", 4,"0", 2,"AL",
     2,"0", 22,"AL", 1,"0", 7,"AL", 1,"0", 2,"AL", 1,"0", 2,"AL", 1,"0",
     2,"AL", 2,"0", 1,"CM", 1,"0", 2,"CM">>, <<3,"CM", 4,"0", 2,"CM", 2,"0",
     3,"CM", 3,"0", 1,"CM", 7,"0", 4,"AL", 1,"0", 1,"AL", 7,"0", 10,"NU",
     2,"CM", 3,"AL", 1,"CM", 1,"AL", 9,"0">>, <<1,"0", 3,"CM", 1,"0", 9,"AL",
     1,"0", 3,"AL", 1,"0", 22,"AL", 1,"0", 7,"AL", 1,"0", 2,"AL", 1,"0",
     5,"AL", 2,"0", 1,"CM", 1,"AL", 2,"CM">>, <<6,"CM", 1,"0", 3,"CM", 1,"0",
     3,"CM", 2,"0", 1,"AL", 15,"0", 2,"AL", 2,"CM", 2,"0", 10,"NU", 1,"AL",
     1,"PR", 7,"0", 1,"AL", 6,"CM">>, <<1,"0", 3,"CM", 1,"0", 8,"AL", 2,"0",
     2,"AL", 2,"0", 22,"AL", 1,"0", 7,"AL", 1,"0", 2,"AL", 1,"0", 5,"AL",
     2,"0", 1,"CM", 1,"AL", 2,"CM">>, <<5,"CM", 2,"0", 2,"CM", 2,"0", 3,"CM",
     7,"0", 3,"CM", 4,"0", 2,"AL", 1,"0", 3,"AL", 2,"CM", 2,"0", 10,"NU",
     8,"AL", 8,"0">>, <<2,"0", 1,"CM", 1,"AL", 1,"0", 6,"AL", 3,"0", 3,"AL",
     1,"0", 4,"AL", 3,"0", 2,"AL", 1,"0", 1,"AL", 1,"0", 2,"AL", 3,"0", 2,"AL",
     3,"0", 3,"AL", 3,"0", 12,"AL", 4,"0", 2,"CM">>, <<3,"CM", 3,"0", 3,"CM",
     1,"0", 4,"CM", 2,"0", 1,"AL", 6,"0", 1,"CM", 14,"0", 10,"NU", 9,"AL",
     1,"PR", 1,"AL", 5,"0">>, <<5,"CM", 8,"AL", 1,"0", 3,"AL", 1,"0", 23,"AL",
     1,"0", 16,"AL", 2,"0", 1,"CM", 1,"AL", 2,"CM">> >>

ValuesFrom026 ==
  << <<5,"CM", 1,"0", 3,"CM", 1,"0", 4,"CM", 7,"0", 2,"CM", 1,"0", 3,"AL",
     1,"0", 2,"AL", 2,"0", 2,"AL", 2,"CM", 2,"0", 10,"NU", 7,"0", 1,"BB",
     8,"AL">>, <<1,"AL", 3,"CM", 1,"BB", 8,"AL", 1,"0", 3,"AL", 1,"0", 23,"AL",
     1,"0", 10,"AL", 1,"0", 5,"AL", 2,"0", 1,"CM", 1,"AL", 2,"CM">>, <<5,"CM",
     1,"0", 3,"CM", 1,"0", 4,"CM", 7,"0", 2,"CM", 5,"0", 3,"AL", 1,"0", 2,"AL",
     2,"CM", 2,"0", 10,"NU", 1,"0", 2,"AL", 1,"CM", 12,"0">>, <<4,"CM", 9,"AL",
     1,"0", 3,"AL", 1,"0", 41,"AL", 2,"CM", 1,"AL", 2,"CM">>, <<5,"CM", 1,"0",
     3,"CM", 1,"0", 4,"CM", 2,"AL", 4,"0", 3,"AL", 1,"CM", 10,"AL", 2,"CM",
     2,"0", 10,"NU", 9,"AL", 1,"PO", 6,"AL">>, <<1,"0", 3,"CM", 1,"0", 18,"AL",
     3,"0", 24,"AL", 1,"0", 9,"AL", 1,"0", 1,"AL", 2,"0">>, <<7,"AL", 3,"0",
     1,"CM", 4,"0", 6,"CM", 1,"0", 1,"CM", 1,"0", 8,"CM", 6,"0", 10,"NU",
     2,"0", 2,"CM", 1,"AL", 11,"0">>, <<1,"0", 48,"AL", 1,"CM", 2,"AL", 7,"CM",
     4,"0", 1,"PR">>, <<7,"AL", 8,"CM", 1,"AL", 10,"NU", 2,"BA", 36,"0">>,
     <<1,"0", 2,"AL", 1,"0", 1,"AL", 1,"0", 5,"AL", 1,"0", 24,"AL", 1,"0",
     1,"AL", 1,"0", 10,"AL", 1,"CM", 2,"AL", 9,"CM", 1,"AL", 2,"0">>, <<5,"AL",
     1,"0", 1,"AL", 1,"0", 7,"CM", 1,"0", 10,"NU", 2,"0", 4,"AL", 32,"0">>,
     <<1,"AL", 4,"BB", 1,"AL", 2,"BB", 1,"GL", 2,"BB", 1,"BA", 1,"GL", 5,"EX",
     1,"GL", 1,"AL", 1,"EX", 3,"AL", 2,"CM", 6,"AL", 10,"NU", 10,"AL", 1,"BA",
     1,"CM", 1,"AL", 1,"CM", 1,"AL", 1,"CM", 1,"OP", 1,"CL", 1,"OP", 1,"CL",
     2,"CM">>, <<8,"AL", 1,"0", 36,"AL", 4,"0", 14,"CM", 1,"BA">> >>

ValuesFrom033 ==
  << <<5,"CM", 1,"BA", 2,"CM", 5,"AL", 11,"CM", 1,"0", 36,"CM", 1,"0",
     2,"BA">>, <<6,"AL", 1,"CM", 6,"AL", 1,"0", 2,"AL", 2,"BB", 1,"BA", 1,"BB",
     5,"AL", 2,"GL", 37,"0">>, <<43,"AL", 20,"CM", 1,"AL">>, <<10,"NU", 2,"BA",
     10,"AL", 4,"CM", 4,"AL", 3,"CM", 1,"AL", 3,"CM", 2,"AL", 7,"CM", 3,"AL",
     4,"CM", 11,"AL">>, <<2,"AL", 12,"CM", 1,"AL", 1,"CM", 10,"NU", 4,"CM",
     34,"AL">>, <<6,"AL", 1,"0", 1,"AL", 5,"0", 1,"AL", 2,"0", 48,"AL">>,
     <<64,"EA_JL">>, <<32,"EA_JL", 32,"JV">>, <<40,"JV", 24,"JT">>,
     <<64,"JT">>, <<9,"AL", 1,"0", 4,"AL", 2,"0", 7,"AL", 1,"0", 1,"AL", 1,"0",
     4,"AL", 2,"0", 32,"AL">>, <<9,"AL", 1,"0", 4,"AL", 2,"0", 33,"AL", 1,"0",
     4,"AL", 2,"0", 7,"AL", 1,"0">>, <<1,"AL", 1,"0", 4,"AL", 2,"0", 15,"AL",
     1,"0", 40,"AL">> >>

ValuesFrom040 ==
  << <<17,"AL", 1,"0", 4,"AL", 2,"0", 40,"AL">>, <<27,"AL", 2,"0", 3,"CM",
     1,"AL", 1,"BA", 27,"AL", 3,"0">>, <<26,"AL", 6,"0", 32,"AL">>, <<54,"AL",
     2,"0", 6,"AL", 2,"0">>, <<1,"HH", 63,"AL">>, <<1,"BA", 26,"AL", 1,"OP",
     1,"CL", 3,"0", 32,"AL">>, <<43,"AL", 3,"BA", 11,"AL", 7,"0">>, <<18,"AL",
     4,"CM", 9,"0", 19,"AL", 3,"CM", 2,"BA", 9,"0">>, <<18,"AL", 2,"CM",
     12,"0", 13,"AL", 1,"0", 3,"AL", 1,"0", 2,"CM", 12,"0">>, <<52,"AL",
     12,"CM">>, <<20,"CM", 2,"BA", 1,"NS", 1,"AL", 1,"BA", 1,"AL", 1,"BA",
     1,"PR", 1,"AL", 1,"CM", 2,"0", 10,"NU", 6,"0", 10,"AL", 6,"0">>, <<2,"AL",
     2,"EX", 2,"BA", 1,"BB", 1,"AL", 2,"EX", 1,"AL", 3,"CM", 1,"GL", 1,"CM",
     10,"NU", 6,"0", 32,"AL">>, <<57,"AL", 7,"0">> >>

ValuesFrom04d ==
  << <<5,"AL", 2,"CM", 34,"AL", 1,"CM", 1,"AL", 5,"0", 16,"AL">>, <<54,"AL",
     10,"0">>, <<31,"AL", 1,"0", 12,"CM", 4,"0", 12,"CM", 4,"0">>, <<1,"AL",
     3,"0", 2,"EX", 10,"NU", 30,"AL", 2,"0", 5,"AL", 11,"0">>, <<44,"AL",
     4,"0", 16,"AL">>, <<10,"AL", 6,"0", 11,"NU", 3,"0", 34,"AL">>, <<23,"AL",
     5,"CM", 2,"0", 34,"AL">>, <<21,"AL", 10,"CM", 1,"0", 29,"CM", 2,"0",
     1,"CM">>, <<10,"NU", 6,"0", 10,"NU", 6,"0", 14,"AL", 2,"0", 16,"CM">>,
     <<30,"CM", 2,"0", 11,"CM", 1,"GL", 20,"0">>, <<5,"CM", 47,"AK", 12,"CM">>,
     <<4,"CM", 1,"VI", 8,"AK", 1,"0", 2,"BA", 10,"AS", 2,"BA", 1,"ID", 4,"BA",
     10,"ID", 9,"CM", 9,"ID", 3,"BA">>, <<3,"CM", 30,"AL", 13,"CM", 2,"AL",
     10,"NU", 6,"AL">> >>

ValuesFrom05a ==
  << <<38,"AS", 12,"CM", 2,"VF", 8,"0", 4,"AL">>, <<36,"AL", 20,"CM", 3,"0",
     5,"BA">>, <<10,"NU", 3,"0", 3,"AL", 10,"NU", 36,"AL", 2,"BA">>, <<11,"AL",
     5,"0", 43,"AL", 2,"0", 3,"AL">>, <<8,"AL", 8,"0", 3,"CM", 1,"AL", 21,"CM",
     4,"AL", 1,"CM", 6,"AL", 1,"CM", 2,"AL", 3,"CM", 1,"AL", 5,"0">>,
     <<13,"CM", 1,"GL", 46,"CM", 1,"GL", 3,"CM">>, <<22,"AL", 2,"0", 6,"AL",
     2,"0", 32,"AL">>, <<6,"AL", 2,"0", 6,"AL", 2,"0", 8,"AL", 1,"0", 1,"AL",
     1,"0", 1,"AL", 1,"0", 1,"AL", 1,"0", 31,"AL", 2,"0">>, <<53,"AL", 1,"0",
     10,"AL">>, <<5,"AL", 1,"0", 14,"AL", 2,"0", 6,"AL", 1,"0", 19,"AL", 2,"0",
     3,"AL", 1,"0", 7,"AL", 1,"BB", 1,"AL", 1,"0">>, <<7,"BA", 1,"GL", 3,"BA",
     1,"ZW", 1,"CM", 1,"ZWJ", 2,"CM", 1,"HH", 1,"GL", 2,"HH", 1,"B2", 3,"AL",
     1,"PI_QU", 1,"PF_QU", 1,"OP", 2,"PI_QU", 1,"PF_QU", 1,"OP", 1,"PI_QU",
     4,"AL", 3,"IN", 1,"BA", 2,"BK", 5,"CM", 1,"GL", 8,"PO", 1,"AL", 1,"PI_QU",
     1,"PF_QU", 1,"AL", 2,"NS", 2,"AL">>, <<4,"AL", 1,"IS", 1,"OP", 1,"CL",
     3,"NS", 12,"AL", 1,"BA", 1,"PO", 4,"BA", 1,"AL", 3,"BA", 1,"WJ", 4,"AL",
     1,"0", 10,"CM", 2,"AL", 2,"0", 9,"AL", 1,"OP", 1,"CL", 1,"AL">> >>

ValuesFrom066 ==
  << <<13,"AL", 1,"OP", 1,"CL", 1,"0", 13,"AL", 3,"0", 7,"PR", 1,"PO", 1,"PR",
     1,"EA_PR", 12,"PR", 1,"PO", 4,"PR", 1,"PO", 2,"PR", 1,"PO", 1,"PR">>,
     <<1,"PO", 15,"PR", 33,"CM", 15,"0">>, <<3,"AL", 1,"PO", 5,"AL", 1,"PO",
     12,"AL", 1,"PR", 41,"AL">>, <<12,"AL", 4,"0", 48,"AL">>, <<18,"AL",
     2,"PR", 44,"AL">>, <<47,"AL", 1,"IN", 16,"AL">>, <<8,"AL", 1,"OP", 1,"CL",
     1,"OP", 1,"CL", 14,"AL", 2,"EA_ID", 13,"AL", 1,"EA_OP", 1,"CL_EA",
     21,"AL">>, <<41,"AL", 4,"AL_EA", 3,"AL", 1,"EA_ID", 2,"ID", 1,"EA_ID",
     12,"AL">>, <<42,"AL", 22,"0">>, <<11,"AL", 21,"0", 32,"AL">>, <<12,"AL",
     1,"AL_DC", 48,"AL", 2,"AL_EA", 1,"AL">>, <<4,"ID", 16,"AL", 2,"EA_ID",
     2,"AL", 1,"ID", 1,"AL", 3,"ID", 1,"EB", 2,"ID", 16,"AL", 8,"AL_EA",
     1,"AL", 3,"ID", 4,"AL">>, <<8,"AL", 12,"AL_EA", 20,"AL", 1,"ID", 22,"AL",
     1,"EA_ID">> >>

ValuesFrom073 ==
  << <<10,"AL", 6,"AL_EA", 3,"AL", 1,"AL_EA", 13,"AL", 1,"AL_EA", 8,"AL",
     2,"AL_EA", 17,"AL", 2,"EA_ID", 1,"ID">>, <<4,"ID", 2,"EA_ID", 3,"ID",
     4,"AL", 1,"ID", 1,"AL_EA", 3,"ID", 1,"AL", 1,"ID", 1,"EA_ID", 3,"AL",
     2,"ID", 2,"AL", 1,"ID", 2,"AL", 3,"ID", 8,"AL", 1,"EA_ID", 6,"AL", 1,"ID",
     2,"EA_ID", 1,"ID", 1,"EA_ID", 1,"AL", 2,"ID", 1,"EB", 1,"EA_ID", 2,"AL",
     1,"EA_ID", 2,"ID">>, <<5,"ID", 1,"AL_EA", 2,"AL", 2,"ID", 2,"EA_EB",
     2,"EB", 26,"AL", 1,"AL_EA", 23,"AL">>, <<12,"AL", 1,"AL_EA", 1,"AL",
     1,"AL_EA", 4,"AL", 3,"AL_EA", 1,"AL", 1,"AL_EA", 3,"AL", 6,"QU", 1,"AL",
     2,"EX", 1,"ID", 3,"AL", 1,"OP", 1,"CL", 1,"OP", 1,"CL", 1,"OP", 1,"CL",
     1,"OP", 1,"CL", 1,"OP", 1,"CL", 1,"OP", 1,"CL", 1,"OP", 1,"CL", 10,"AL">>,
     <<21,"AL", 3,"AL_EA", 24,"AL", 1,"AL_EA", 14,"AL", 1,"AL_EA">>, <<5,"AL",
     1,"OP", 1,"CL", 31,"AL", 1,"OP", 1,"CL", 1,"OP", 1,"CL", 1,"OP", 1,"CL",
     1,"OP", 1,"CL", 1,"OP", 1,"CL", 16,"AL">>, <<1,"BA", 63,"AL">>, <<3,"AL",
     1,"OP", 1,"CL", 1,"OP", 1,"CL", 1,"OP", 1,"CL", 1,"OP", 1,"CL", 1,"OP",
     1,"CL", 1,"OP", 1,"CL", 1,"OP", 1,"CL", 1,"OP", 1,"CL", 1,"OP", 1,"CL",
     1,"OP", 1,"CL", 1,"OP", 1,"CL", 39,"AL">>, <<24,"AL", 1,"OP", 1,"CL",
     1,"OP", 1,"CL", 32,"AL", 1,"OP", 1,"CL", 2,"AL">>, <<27,"AL", 2,"AL_EA",
     35,"AL">>, <<16,"AL", 1,"AL_EA", 4,"AL", 1,"AL_EA", 30,"AL", 2,"0",
     10,"AL">>, <<47,"AL", 3,"CM", 2,"AL", 5,"0", 1,"EX", 3,"BA", 1,"AL",
     1,"EX", 1,"BA">> >>

ValuesFrom07f ==
  << <<38,"AL", 1,"0", 1,"AL", 5,"0", 1,"AL", 2,"0", 16,"AL">>, <<40,"AL",
     7,"0", 1,"AL", 1,"BA", 14,"0", 1,"CM">>, <<23,"AL", 9,"0", 7,"AL", 1,"0",
     7,"AL", 1,"0", 7,"AL", 1,"0", 7,"AL", 1,"0">>, <<7,"AL", 1,"0", 7,"AL",
     1,"0", 7,"AL", 1,"0", 7,"AL", 1,"0", 32,"CM">>, <<2,"QU", 1,"PI_QU",
     1,"PF_QU", 1,"PI_QU", 1,"PF_QU", 3,"QU", 1,"PI_QU", 1,"PF_QU", 1,"QU",
     1,"PI_QU", 1,"PF_QU", 8,"BA", 1,"AL", 1,"HH", 1,"OP", 1,"BA", 2,"AL",
     1,"PI_QU", 1,"PF_QU", 2,"AL", 1,"PI_QU", 1,"PF_QU", 1,"OP", 1,"CL",
     1,"OP", 1,"CL", 1,"OP", 1,"CL", 1,"OP", 1,"CL", 4,"BA", 1,"EX", 1,"AL",
     2,"BA", 1,"AL", 2,"BA", 5,"AL", 2,"B2", 3,"BA", 1,"AL">>, <<1,"HH",
     1,"BA", 1,"OP", 8,"BA", 1,"AL", 1,"BA", 1,"AL", 2,"BA", 3,"AL", 2,"EX",
     1,"OP", 1,"CP", 1,"OP", 1,"CP", 1,"OP", 1,"CP", 1,"OP", 1,"CP", 1,"HH",
     34,"0">>, <<26,"EA_ID", 1,"0", 37,"EA_ID">>, <<52,"EA_ID", 12,"0">>,
     <<64,"EA_ID">>, <<22,"EA_ID", 26,"0", 16,"EA_ID">>, <<1,"BA_EA",
     2,"CL_EA", 2,"EA_ID", 1,"EA_NS", 2,"EA_ID", 1,"EA_OP", 1,"CL_EA",
     1,"EA_OP", 1,"CL_EA", 1,"EA_OP", 1,"CL_EA", 1,"EA_OP", 1,"CL_EA",
     1,"EA_OP", 1,"CL_EA", 2,"EA_ID", 1,"EA_OP", 1,"CL_EA", 1,"EA_OP",
     1,"CL_EA", 1,"EA_OP", 1,"CL_EA", 1,"EA_OP", 1,"CL_EA", 1,"EA_NS",
     1,"EA_OP", 2,"CL_EA", 10,"EA_ID", 6,"CM_EA", 5,"EA_ID", 1,"CM_EA",
     5,"EA_ID", 2,"EA_NS", 2,"EA_ID", 1,"ID">>, <<1,"0", 1,"EA_NS", 1,"EA_ID",
     1,"EA_NS", 1,"EA_ID", 1,"EA_NS", 1,"EA_ID", 1,"EA_NS", 1,"EA_ID",
     1,"EA_NS", 25,"EA_ID", 1,"EA_NS", 28,"EA_ID">>, <<3,"EA_ID", 1,"EA_NS",
     1,"EA_ID", 1,"EA_NS", 1,"EA_ID", 1,"EA_NS", 6,"EA_ID", 1,"EA_NS",
     6,"EA_ID", 2,"EA_NS", 2,"0", 2,"CM_EA", 4,"EA_NS", 1,"EA_ID", 2,"EA_NS",
     1,"EA_ID", 1,"EA_NS", 1,"EA_ID", 1,"EA_NS", 1,"EA_ID", 1,"EA_NS",
     1,"EA_ID", 1,"EA_NS", 22,"EA_ID">> >>

ValuesFrom08c ==
  << <<3,"EA_ID", 1,"EA_NS", 31,"EA_ID", 1,"EA_NS", 1,"EA_ID", 1,"EA_NS",
     1,"EA_ID", 1,"EA_NS", 6,"EA_ID", 1,"EA_NS", 6,"EA_ID", 2,"EA_NS",
     4,"EA_ID", 4,"EA_NS", 1,"EA_ID">>, <<5,"0", 43,"EA_ID", 1,"0",
     15,"EA_ID">>, <<15,"EA_ID", 1,"0", 48,"EA_ID">>, <<38,"EA_ID", 9,"0",
     1,"EA_ID", 16,"EA_NS">>, <<31,"EA_ID", 1,"0", 32,"EA_ID">>, <<8,"EA_ID",
     8,"AL", 48,"EA_ID">>, <<64,"AL_EA">>, <<21,"EA_ID", 1,"EA_NS",
     42,"EA_ID">>, <<13,"EA_ID", 3,"0", 48,"EA_ID">>, <<7,"EA_ID", 9,"0",
     46,"AL", 2,"BA">>, <<13,"AL", 1,"BA", 1,"EX", 1,"BA", 16,"AL", 10,"NU",
     2,"AL", 20,"0">>, <<47,"AL", 4,"CM", 1,"AL", 10,"CM", 2,"AL">> >>

ValuesFrom098 ==
  << <<30,"AL", 2,"CM", 32,"AL">>, <<48,"AL", 2,"CM", 1,"AL", 5,"BA", 8,"0">>,
     <<29,"AL", 20,"0", 15,"AL">>, <<2,"AL", 1,"CM", 3,"AL", 1,"CM", 4,"AL",
     1,"CM", 23,"AL", 5,"CM", 4,"AL", 1,"CM", 3,"0", 8,"AL", 1,"PO", 1,"AL",
     6,"0">>, <<52,"AL", 2,"BB", 2,"EX", 8,"0">>, <<2,"CM", 50,"AL", 12,"CM">>,
     <<6,"CM", 8,"0", 2,"BA", 10,"NU", 6,"0", 18,"CM", 10,"AL", 1,"BB", 2,"AL",
     1,"CM">>, <<10,"NU", 28,"AL", 8,"CM", 2,"BA", 16,"AL">>, <<7,"AL",
     13,"CM", 11,"0", 1,"AL", 29,"EA_JL", 3,"0">>, <<4,"CM", 47,"AK",
     13,"CM">>, <<1,"VI", 6,"ID", 3,"BA", 4,"ID", 1,"0", 1,"BA", 10,"AS",
     4,"0", 2,"ID", 5,"AL", 1,"CM", 10,"AL", 10,"NU", 5,"AL", 1,"0">>,
     <<41,"AS", 14,"CM", 9,"0">>, <<3,"BA", 1,"CM", 8,"BA", 2,"CM", 2,"0",
     10,"AS", 2,"0", 1,"ID", 3,"BA", 27,"AL", 3,"CM", 2,"AL">> >>

ValuesFrom0a5 ==
  << <<48,"AL", 1,"CM", 1,"AL", 3,"CM", 2,"AL", 2,"CM", 5,"AL", 2,"CM">>,
     <<1,"AL", 1,"CM", 1,"AL", 24,"0", 16,"AL", 5,"CM", 2,"BA", 3,"AL", 2,"CM",
     9,"0">>, <<1,"0", 6,"AL", 2,"0", 6,"AL", 2,"0", 6,"AL", 9,"0", 7,"AL",
     1,"0", 7,"AL", 1,"0", 16,"AL">>, <<35,"AL", 8,"CM", 1,"BA", 2,"CM", 2,"0",
     10,"NU", 6,"0">>, <<1,"EA_H2", 27,"EA_H3", 1,"EA_H2", 27,"EA_H3",
     1,"EA_H2", 7,"EA_H3">>, <<20,"EA_H3", 1,"EA_H2", 27,"EA_H3", 1,"EA_H2",
     15,"EA_H3">>, <<12,"EA_H3", 1,"EA_H2", 27,"EA_H3", 1,"EA_H2",
     23,"EA_H3">>, <<4,"EA_H3", 1,"EA_H2", 27,"EA_H3", 1,"EA_H2", 27,"EA_H3",
     1,"EA_H2", 3,"EA_H3">>, <<24,"EA_H3", 1,"EA_H2", 27,"EA_H3", 1,"EA_H2",
     11,"EA_H3">>, <<16,"EA_H3", 1,"EA_H2", 27,"EA_H3", 1,"EA_H2",
     19,"EA_H3">>, <<8,"EA_H3", 1,"EA_H2", 27,"EA_H3", 1,"EA_H2", 27,"EA_H3">>,
     <<8,"EA_H3", 1,"EA_H2", 27,"EA_H3", 12,"0", 16,"JV">>, <<7,"JV", 4,"0",
     49,"JT", 4,"0">> >>

ValuesFrom0b2 ==
  << <<7,"AL", 12,"0", 5,"AL", 5,"0", 1,"HL", 1,"CM", 10,"HL", 1,"AL", 13,"HL",
     1,"0", 5,"HL", 1,"0", 1,"HL", 1,"0">>, <<2,"HL", 1,"0", 2,"HL", 1,"0",
     10,"HL", 48,"AL">>, <<62,"AL", 1,"CL", 1,"OP">>, <<16,"AL", 32,"0",
     12,"AL", 1,"PO", 3,"AL">>, <<16,"CM", 3,"CL_EA", 2,"EA_NS", 2,"EA_EX",
     1,"EA_OP", 1,"CL_EA", 1,"EA_IN", 6,"0", 1,"GL", 1,"CM", 1,"GL", 1,"CM",
     1,"GL", 1,"CM", 2,"GL", 1,"CM", 1,"GL", 1,"CM", 1,"GL", 1,"CM", 2,"GL",
     1,"CM", 5,"EA_ID", 1,"EA_OP", 1,"CL_EA", 1,"EA_OP", 1,"CL_EA", 1,"EA_OP",
     1,"CL_EA", 1,"EA_OP", 1,"CL_EA", 1,"EA_OP", 1,"CL_EA", 1,"EA_OP">>,
     <<1,"CL_EA", 1,"EA_OP", 1,"CL_EA", 1,"EA_OP", 1,"CL_EA", 2,"EA_ID",
     1,"EA_OP", 1,"CL_EA", 7,"EA_ID", 1,"CL_EA", 1,"EA_ID", 1,"CL_EA", 1,"0",
     2,"EA_NS", 2,"EA_EX", 1,"EA_ID", 1,"EA_OP", 1,"CL_EA", 1,"EA_OP",
     1,"CL_EA", 1,"EA_OP", 1,"CL_EA", 8,"EA_ID", 1,"0", 1,"EA_ID", 1,"EA_PR",
     1,"EA_PO", 1,"EA_ID", 4,"0", 5,"AL", 1,"0", 10,"AL">>, <<61,"AL", 2,"0",
     1,"WJ">>, <<1,"0", 1,"EA_EX", 2,"EA_ID", 1,"EA_PR", 1,"EA_PO", 2,"EA_ID",
     1,"EA_OP", 1,"CL_EA", 2,"EA_ID", 1,"CL_EA", 1,"EA_ID", 1,"CL_EA",
     11,"EA_ID", 2,"EA_NS", 3,"EA_ID", 1,"EA_EX", 27,"EA_ID", 1,"EA_OP",
     1,"EA_ID", 1,"CL_EA", 2,"EA_ID">>, <<27,"EA_ID", 1,"EA_OP", 1,"EA_ID",
     1,"CL_EA", 1,"EA_ID", 1,"EA_OP", 2,"CL_EA", 1,"EA_OP", 2,"CL_EA",
     1,"EA_NS", 1,"EA_ID", 10,"EA_NS", 15,"EA_ID">>, <<30,"EA_ID", 2,"EA_NS",
     31,"EA_ID", 1,"0">>, <<2,"0", 6,"EA_ID", 2,"0", 6,"EA_ID", 2,"0",
     6,"EA_ID", 2,"0", 3,"EA_ID", 3,"0", 1,"EA_PO", 1,"EA_PR", 3,"EA_ID",
     2,"EA_PR", 1,"0", 7,"AL_EA", 10,"0", 3,"CM", 1,"CB", 1,"AL", 2,"0">>,
     <<12,"AL", 1,"0", 26,"AL", 1,"0", 19,"AL", 1,"0", 2,"AL", 1,"0", 1,"AL">>,
     <<14,"AL", 2,"0", 14,"AL", 34,"0">> >>

ValuesFrom0bf ==
  << <<59,"AL", 5,"0">>, <<3,"BA", 4,"0", 45,"AL", 3,"0", 9,"AL">>, <<15,"AL",
     1,"0", 13,"AL", 3,"0", 1,"AL", 31,"0">>, <<16,"0", 45,"AL", 1,"CM",
     2,"0">>, <<29,"AL", 3,"0", 32,"AL">>, <<17,"AL", 15,"0", 1,"CM", 27,"AL",
     4,"0">>, <<36,"AL", 9,"0", 19,"AL">>, <<11,"AL", 5,"0", 38,"AL", 5,"CM",
     5,"0">>, <<30,"AL", 1,"0", 1,"BA", 32,"AL">>, <<4,"AL", 4,"0", 8,"AL",
     1,"BA", 5,"AL", 42,"0">>, <<30,"AL", 2,"0", 10,"NU", 6,"0", 16,"AL">>,
     <<20,"AL", 4,"0", 36,"AL", 4,"0">>, <<40,"AL", 8,"0", 16,"AL">>,
     <<36,"AL", 11,"0", 12,"AL", 1,"0", 4,"AL">> >>

ValuesFrom0cd ==
  << <<11,"AL", 1,"0", 7,"AL", 1,"0", 2,"AL", 1,"0", 11,"AL", 1,"0", 15,"AL",
     1,"0", 7,"AL", 1,"0", 2,"AL", 3,"0">>, <<52,"AL", 12,"0">>, <<55,"AL",
     9,"0">>, <<22,"AL", 10,"0", 8,"AL", 24,"0">>, <<6,"AL", 1,"0", 42,"AL",
     1,"0", 9,"AL", 5,"0">>, <<6,"AL", 2,"0", 1,"AL", 1,"0", 44,"AL", 1,"0",
     2,"AL", 3,"0", 1,"AL", 2,"0", 1,"AL">>, <<22,"AL", 1,"0", 1,"BA",
     40,"AL">>, <<31,"AL", 8,"0", 9,"AL", 16,"0">>, <<32,"0", 19,"AL", 1,"0",
     2,"AL", 5,"0", 5,"AL">>, <<28,"AL", 3,"0", 1,"BA", 26,"AL", 5,"0",
     1,"AL">>, <<26,"AL", 38,"0">>, <<56,"AL", 4,"0", 4,"AL">>, <<16,"AL",
     2,"0", 46,"AL">>, <<1,"AL", 3,"CM", 1,"0", 2,"CM", 5,"0", 4,"CM", 4,"AL",
     1,"0", 3,"AL", 1,"0", 29,"AL", 2,"0", 3,"CM", 4,"0", 1,"CM">> >>

ValuesFrom0db ==
  << <<9,"AL", 7,"0", 8,"BA", 1,"AL", 7,"0", 32,"AL">>, <<32,"AL", 32,"0">>,
     <<37,"AL", 2,"CM", 4,"0", 5,"AL", 6,"BA", 1,"IN", 9,"0">>, <<54,"AL",
     3,"0", 7,"BA">>, <<22,"AL", 2,"0", 27,"AL", 5,"0", 8,"AL">>, <<18,"AL",
     7,"0", 4,"AL", 12,"0", 7,"AL", 16,"0">>, <<9,"AL", 55,"0">>, <<51,"AL",
     13,"0">>, <<51,"AL", 7,"0", 6,"AL">>, <<36,"AL", 4,"CM", 8,"0", 10,"NU",
     6,"0">>, <<10,"NU", 28,"AL", 3,"0", 5,"CM", 1,"HH", 17,"AL">>, <<6,"AL",
     8,"0", 2,"AL", 48,"0">>, <<32,"0", 31,"AL", 1,"0">>, <<42,"AL", 1,"0",
     2,"CM", 1,"HH", 2,"0", 2,"AL", 14,"0">>, <<2,"0", 6,"AL", 8,"0", 1,"BA",
     8,"AL", 33,"0", 6,"CM">>, <<6,"AL", 11,"CM", 9,"AL", 22,"0", 16,"AL">> >>

ValuesFrom0eb ==
  << <<2,"AL", 4,"CM", 4,"AL", 38,"0", 16,"AL">>, <<12,"AL", 20,"0", 23,"AL",
     9,"0">>, <<3,"CM", 2,"AP", 51,"AK", 8,"CM">>, <<6,"CM", 1,"VI", 2,"BA",
     5,"ID", 4,"0", 20,"ID", 10,"AS", 1,"CM", 2,"AK", 2,"CM", 1,"AK", 9,"0",
     1,"GL">>, <<3,"CM", 45,"AL", 11,"CM", 2,"AL", 1,"NU", 2,"BA">>, <<2,"BA",
     1,"CM", 10,"0", 1,"NU", 2,"0", 25,"AL", 7,"0", 10,"NU", 6,"0">>, <<3,"CM",
     36,"AL", 14,"CM", 1,"0", 10,"NU">>, <<4,"BA", 1,"AL", 2,"CM", 1,"AL",
     8,"0", 35,"AL", 1,"CM", 1,"AL", 1,"BB", 1,"AL", 9,"0">>, <<3,"CM",
     48,"AL", 13,"CM">>, <<1,"CM", 4,"AL", 2,"BA", 1,"AL", 1,"BA", 4,"CM",
     1,"AL", 2,"CM", 10,"NU", 1,"AL", 1,"BB", 1,"AL", 3,"BA", 1,"0", 20,"AL",
     11,"0">>, <<18,"AL", 1,"0", 25,"AL", 12,"CM", 2,"BA", 1,"AL", 2,"BA",
     1,"AL", 1,"CM", 1,"AL">>, <<1,"AL", 1,"CM", 62,"0">>, <<7,"AL", 1,"0",
     1,"AL", 1,"0", 4,"AL", 1,"0", 15,"AL", 1,"0", 10,"AL", 1,"BA", 6,"0",
     16,"AL">>, <<31,"AL", 12,"CM", 5,"0", 10,"NU", 6,"0">> >>

ValuesFrom0f9 ==
  << <<4,"CM", 1,"0", 8,"AK", 2,"0", 2,"AK", 2,"0", 22,"AK", 1,"0", 7,"AK",
     1,"0", 2,"AK", 1,"0", 5,"AK", 1,"0", 2,"CM", 1,"BA", 2,"CM">>, <<5,"CM",
     2,"0", 2,"CM", 2,"0", 2,"CM", 1,"VI", 2,"0", 1,"AS", 6,"0", 1,"CM", 5,"0",
     1,"BA", 2,"AS", 2,"AK", 2,"CM", 2,"0", 7,"CM", 3,"0", 5,"CM", 11,"0">>,
     <<10,"AS", 1,"0", 1,"AS", 2,"0", 1,"AS", 1,"0", 2,"AS", 36,"AK", 1,"0",
     1,"ID", 8,"CM">>, <<1,"CM", 1,"0", 1,"CM", 2,"0", 1,"CM", 1,"0", 4,"CM",
     1,"0", 4,"CM", 1,"VI", 1,"AP", 1,"CM", 3,"ID", 1,"0", 2,"ID", 8,"0",
     2,"CM", 29,"0">>, <<53,"AL", 11,"CM">>, <<7,"CM", 4,"AL", 4,"BA", 1,"AL",
     10,"NU", 2,"BA", 1,"0", 1,"AL", 1,"CM", 3,"AL", 30,"0">>, <<48,"AL",
     16,"CM">>, <<4,"CM", 4,"AL", 8,"0", 10,"NU", 38,"0">>, <<47,"AL", 7,"CM",
     2,"0", 8,"CM">>, <<1,"CM", 1,"BB", 2,"BA", 2,"EX", 3,"AL", 15,"BA",
     4,"AL", 2,"CM", 34,"0">>, <<1,"CM", 2,"BA", 2,"AL", 11,"0", 10,"NU",
     6,"0", 13,"BB", 19,"0">>, <<43,"AL", 13,"CM", 2,"AL", 6,"0">>, <<10,"NU",
     6,"0", 20,"NU", 28,"0">>, <<27,"AL", 2,"0", 15,"CM", 4,"0", 10,"NU",
     2,"AL", 3,"BA", 1,"AL">>, <<7,"AL", 57,"0">>, <<44,"AL", 15,"CM", 1,"AL",
     4,"0">> >>

ValuesFrom109 ==
  << <<32,"0", 32,"AL">>, <<32,"AL", 10,"NU", 9,"AL", 12,"0", 1,"AL">>,
     <<7,"AK", 2,"0", 1,"AK", 2,"0", 8,"AK", 1,"0", 2,"AK", 1,"0", 24,"AK",
     6,"CM", 1,"0", 2,"CM", 2,"0", 3,"CM", 1,"VI", 1,"AP">>, <<1,"CM", 1,"AP",
     2,"CM", 3,"BA", 9,"0", 10,"AS", 38,"0">>, <<32,"0", 8,"AL", 2,"0",
     22,"AL">>, <<17,"AL", 7,"CM", 2,"0", 7,"CM", 1,"AL", 1,"BB", 1,"AL",
     1,"CM", 27,"0">>, <<1,"AL", 10,"CM", 40,"AL", 7,"CM", 1,"AL", 4,"CM",
     1,"BB">>, <<1,"AL", 4,"BA", 1,"BB", 1,"AL", 1,"CM", 8,"0", 1,"AL",
     11,"CM", 36,"AL">>, <<10,"AL", 16,"CM", 3,"BA", 1,"AL", 3,"BB", 2,"BA",
     13,"0", 16,"AL">>, <<10,"BB", 54,"0">>, <<32,"0", 8,"CM", 24,"0">>,
     <<34,"AL", 14,"0", 10,"NU", 6,"0">>, <<9,"AL", 1,"0", 37,"AL", 8,"CM",
     1,"0", 8,"CM">>, <<1,"AL", 5,"BA", 10,"0", 10,"NU", 19,"AL", 3,"0",
     1,"BB", 1,"EX", 14,"AL">>, <<16,"AL", 2,"0", 22,"CM", 1,"0", 14,"CM",
     9,"0">>, <<7,"AL", 1,"0", 2,"AL", 1,"0", 38,"AL", 6,"CM", 3,"0", 1,"CM",
     1,"0", 2,"CM", 1,"0", 1,"CM">> >>

ValuesFrom119 ==
  << <<6,"CM", 1,"AL", 1,"CM", 8,"0", 10,"NU", 6,"0", 6,"AL", 1,"0", 2,"AL",
     1,"0", 22,"AL">>, <<10,"AL", 5,"CM", 1,"0", 2,"CM", 1,"0", 5,"CM", 1,"AL",
     7,"0", 10,"NU", 6,"0", 16,"AL">>, <<28,"AL", 4,"0", 10,"NU", 22,"0">>,
     <<32,"0", 18,"AS", 1,"BA", 4,"CM", 2,"BA", 7,"0">>, <<2,"CM", 1,"AP",
     1,"CM", 13,"AK", 1,"0", 34,"AK", 7,"CM", 3,"0", 2,"CM">>, <<2,"CM",
     1,"VI", 2,"BA", 11,"ID", 10,"AS", 1,"CM", 37,"0">>, <<48,"0", 1,"AL",
     15,"0">>, <<29,"AL", 4,"PO", 17,"AL", 13,"0", 1,"BA">>, <<47,"AL", 1,"0",
     5,"BA", 11,"0">>, <<4,"AL", 60,"0">>, <<16,"0", 48,"AL">>, <<24,"AL",
     3,"OP", 3,"CL", 34,"AL">>, <<2,"AL", 1,"CL", 3,"AL", 1,"OP", 1,"CL",
     1,"OP", 1,"CL", 54,"AL">>, <<57,"AL", 1,"OP", 2,"CL", 4,"AL">>, <<47,"AL",
     1,"OP", 7,"GL", 1,"OP", 1,"CL", 3,"GL", 1,"OP", 1,"CL", 1,"OP", 1,"CL">>,
     <<1,"CM", 6,"AL", 15,"CM", 10,"0", 32,"AL">> >>

ValuesFrom129 ==
  << <<14,"AL", 1,"OP", 1,"CL", 48,"AL">>, <<30,"AS", 18,"CM", 10,"AS",
     6,"0">>, <<31,"AL", 1,"0", 10,"NU", 4,"0", 2,"BA", 16,"AL">>, <<63,"AL",
     1,"0">>, <<10,"NU", 6,"0", 30,"AL", 2,"0", 5,"CM", 1,"BA", 10,"0">>,
     <<48,"AL", 7,"CM", 3,"BA", 6,"AL">>, <<4,"AL", 1,"BA", 1,"AL", 10,"0",
     10,"NU", 1,"0", 7,"AL", 1,"0", 21,"AL", 5,"0", 3,"AL">>, <<16,"AL",
     48,"0">>, <<46,"AL", 2,"BA", 10,"NU", 6,"0">>, <<23,"AL", 2,"BA", 2,"AL",
     5,"0", 25,"AL", 2,"0", 5,"AL">>, <<20,"AL", 44,"0">>, <<11,"AL", 4,"0",
     1,"CM", 1,"AL", 47,"CM">>, <<8,"CM", 7,"0", 4,"CM", 13,"AL", 32,"0">>,
     <<32,"0", 4,"EA_NS", 1,"EA_GL", 11,"0", 2,"CM_EA", 2,"EA_NS", 3,"EA_ID",
     9,"0">>, <<22,"AL_EA", 41,"0", 1,"AL_EA">>, <<31,"EA_ID", 33,"0">> >>

ValuesFrom139 ==
  << <<51,"EA_ID", 13,"0">>, <<48,"0", 4,"AL_EA", 1,"0", 7,"AL_EA", 1,"0",
     2,"AL_EA", 1,"0">>, <<35,"EA_ID", 15,"0", 1,"EA_NS", 13,"0">>, <<16,"0",
     3,"EA_NS", 2,"0", 1,"EA_NS", 14,"0", 4,"EA_NS", 8,"0", 16,"EA_ID">>,
     <<60,"EA_ID", 4,"0">>, <<43,"AL", 5,"0", 13,"AL", 3,"0">>, <<9,"AL",
     7,"0", 10,"AL", 2,"0", 1,"AL", 2,"CM", 1,"BA", 4,"CM", 28,"0">>,
     <<48,"AL", 10,"NU", 3,"AL", 3,"0">>, <<52,"AL", 6,"0", 6,"AL">>,
     <<17,"AL", 15,"0", 17,"AL", 15,"0">>, <<46,"CM", 2,"0", 16,"CM">>,
     <<7,"CM", 9,"0", 48,"AL">>, <<39,"AL", 2,"0", 23,"AL">>, <<37,"AL",
     5,"CM", 3,"AL", 19,"CM">> >>

ValuesFrom147 ==
  << <<3,"CM", 2,"AL", 7,"CM", 30,"AL", 4,"CM", 18,"AL">>, <<43,"AL", 21,"0">>,
     <<2,"AL", 3,"CM", 1,"AL", 58,"0">>, <<20,"AL", 12,"0", 20,"AL", 12,"0">>,
     <<23,"AL_EA", 9,"0", 23,"AL_EA", 2,"AL", 7,"0">>, <<21,"AL", 1,"0",
     42,"AL">>, <<29,"AL", 1,"0", 2,"AL", 2,"0", 1,"AL", 2,"0", 2,"AL", 2,"0",
     4,"AL", 1,"0", 12,"AL", 1,"0", 1,"AL", 1,"0", 3,"AL">>, <<4,"AL", 1,"0",
     59,"AL">>, <<6,"AL", 1,"0", 4,"AL", 2,"0", 8,"AL", 1,"0", 7,"AL", 1,"0",
     28,"AL", 1,"0", 4,"AL", 1,"0">>, <<5,"AL", 1,"0", 1,"AL", 3,"0", 7,"AL",
     1,"0", 46,"AL">>, <<38,"AL", 2,"0", 24,"AL">>, <<12,"AL", 2,"0",
     50,"NU">>, <<55,"CM", 4,"AL", 5,"CM">>, <<45,"CM", 8,"AL", 1,"CM",
     10,"AL">> >>

ValuesFrom155 ==
  << <<4,"AL", 1,"CM", 2,"AL", 4,"BA", 1,"AL", 15,"0", 5,"CM", 1,"0", 15,"CM",
     16,"0">>, <<31,"AL", 6,"0", 6,"AL", 21,"0">>, <<7,"CM", 1,"0", 17,"CM",
     2,"0", 7,"CM", 1,"0", 2,"CM", 1,"0", 5,"CM", 5,"0", 16,"AL">>, <<46,"AL",
     18,"0">>, <<15,"0", 1,"CM", 48,"0">>, <<45,"AL", 3,"0", 7,"CM", 7,"AL",
     2,"0">>, <<10,"NU", 4,"0", 2,"AL", 48,"0">>, <<16,"0", 30,"AL", 1,"CM",
     17,"0">>, <<44,"AL", 4,"CM", 10,"NU", 5,"0", 1,"PR">>, <<16,"0", 28,"AL",
     4,"CM", 10,"NU", 6,"0">>, <<16,"0", 30,"AL", 2,"CM", 1,"AL", 10,"NU",
     4,"0", 1,"AL">>, <<31,"AL", 1,"0", 3,"AL", 1,"CM", 2,"AL", 1,"CM", 7,"AL",
     2,"CM", 5,"AL", 1,"CM", 8,"0", 2,"AL">>, <<32,"0", 7,"AL", 1,"0", 4,"AL",
     1,"0", 2,"AL", 1,"0", 15,"AL", 1,"0">>, <<5,"AL", 2,"0", 9,"AL", 7,"CM",
     41,"0">>, <<4,"AL", 7,"CM", 1,"AL", 4,"0", 10,"NU", 4,"0", 2,"OP",
     32,"0">>, <<49,"0", 15,"AL">>, <<44,"AL", 1,"PO", 3,"AL", 1,"PO", 4,"AL",
     11,"0">>, <<1,"0", 61,"AL", 2,"0">> >>

ValuesFrom167 ==
  << <<4,"AL", 1,"0", 27,"AL", 1,"0", 2,"AL", 1,"0", 1,"AL", 2,"0", 1,"AL",
     1,"0", 10,"AL", 1,"0", 4,"AL", 1,"0", 1,"AL", 1,"0", 1,"AL", 4,"0">>,
     <<2,"0", 1,"AL", 4,"0", 1,"AL", 1,"0", 1,"AL", 1,"0", 1,"AL", 1,"0",
     3,"AL", 1,"0", 2,"AL", 1,"0", 1,"AL", 2,"0", 1,"AL", 1,"0", 1,"AL", 1,"0",
     1,"AL", 1,"0", 1,"AL", 1,"0", 1,"AL", 1,"0", 2,"AL", 1,"0", 1,"AL", 2,"0",
     4,"AL", 1,"0", 7,"AL", 1,"0", 4,"AL", 1,"0", 4,"AL", 1,"0", 1,"AL",
     1,"0">>, <<10,"AL", 1,"0", 17,"AL", 5,"0", 3,"AL", 1,"0", 5,"AL", 1,"0",
     17,"AL", 4,"0">>, <<48,"0", 2,"AL", 14,"0">>, <<4,"ID", 1,"EA_ID",
     39,"ID", 4,"EPU_ID", 16,"ID">>, <<64,"ID">>, <<20,"ID", 12,"EPU_ID",
     15,"ID", 2,"EPU_ID", 15,"ID">>, <<1,"EPU_ID", 14,"ID", 1,"EA_ID",
     1,"EPU_ID", 37,"ID", 10,"EPU_ID">>, <<14,"AL", 1,"AL_EA", 2,"AL",
     10,"AL_EA", 19,"AL", 18,"EPU_ID">>, <<38,"EPU_ID", 26,"RI">>, <<3,"EA_ID",
     13,"EPU_ID", 44,"EA_ID", 4,"EPU_ID">>, <<9,"EA_ID", 7,"EPU_ID", 2,"EA_ID",
     14,"EPU_ID", 6,"EA_ID", 26,"EPU_ID">>, <<64,"EPU_ID">> >>

ValuesFrom174 ==
  << <<33,"EA_ID", 12,"ID", 9,"EA_ID", 1,"ID", 9,"EA_ID">>, <<61,"EA_ID",
     1,"ID", 2,"EA_ID">>, <<5,"EA_ID", 1,"EA_EB", 14,"EA_ID", 8,"ID", 2,"AL",
     2,"ID", 21,"EA_ID", 2,"AL_EA", 5,"EA_ID", 1,"AL_EA", 3,"EA_ID">>,
     <<2,"EA_ID", 3,"EA_EB", 2,"EA_ID", 1,"EA_EB", 2,"EA_ID", 1,"EA_EB",
     2,"EB", 2,"ID", 5,"EA_ID", 12,"ID", 17,"EA_ID", 3,"ID", 1,"EA_ID", 3,"ID",
     3,"EA_ID", 5,"EA_EM">>, <<63,"EA_ID", 1,"ID">>, <<1,"EA_ID", 1,"ID",
     2,"EA_EB", 2,"EA_ID", 11,"EA_EB", 21,"EA_ID", 19,"EA_EB", 3,"EA_ID",
     1,"EA_EB", 3,"EA_ID">>, <<1,"EA_ID", 3,"EA_EB", 1,"EA_ID", 3,"EA_EB",
     7,"EA_ID", 1,"EA_EB", 1,"EA_ID", 1,"EA_EB", 14,"EA_ID", 1,"AL_EA",
     1,"EA_ID", 1,"AL_EA", 1,"EA_ID", 1,"AL_EA", 5,"EA_ID", 1,"EA_EB",
     4,"EA_ID", 1,"AL_EA", 1,"EA_ID", 2,"AL_EA", 13,"EA_ID">>, <<61,"EA_ID",
     2,"ID", 1,"EA_ID">>, <<7,"AL_EA", 16,"EA_ID", 14,"AL_EA", 13,"EA_ID",
     12,"AL_EA", 2,"AL">>, <<10,"AL", 1,"ID", 4,"EA_ID", 1,"ID", 24,"EA_ID",
     12,"ID", 2,"EB", 4,"ID", 1,"EA_EB", 5,"ID">>, <<16,"ID", 1,"EB", 4,"ID",
     2,"EA_EB", 13,"ID", 1,"EA_ID", 27,"ID">>, <<20,"ID", 8,"AL", 24,"ID",
     6,"AL", 1,"ID", 5,"EA_ID">> >>

ValuesFrom180 ==
  << <<5,"EA_ID", 3,"EA_EB", 3,"EA_ID", 5,"EA_EB", 38,"AL", 3,"QU", 3,"NS",
     4,"AL">>, <<35,"EA_ID", 1,"EA_EB", 16,"EA_ID", 3,"EA_EB", 9,"EA_ID">>,
     <<1,"EA_EB", 5,"EA_ID", 6,"ID", 1,"EA_EB", 3,"ID", 3,"EA_ID", 2,"ID",
     4,"EA_ID", 3,"EPU_ID", 4,"EA_ID", 11,"ID", 2,"EA_ID", 3,"EPU_ID", 4,"ID",
     9,"EA_ID", 3,"EPU_ID">>, <<52,"AL", 3,"ID", 4,"AL", 5,"ID">>, <<21,"AL",
     5,"ID", 6,"EPU_ID", 12,"EA_ID", 4,"EPU_ID", 1,"EA_ID", 15,"EPU_ID">>,
     <<12,"AL", 4,"AL_EPU", 48,"AL">>, <<8,"AL", 8,"AL_EPU", 10,"AL",
     6,"AL_EPU", 32,"AL">>, <<8,"AL", 8,"AL_EPU", 30,"AL", 2,"AL_EPU", 12,"AL",
     4,"AL_EPU">>, <<2,"AL", 14,"AL_EPU", 9,"AL", 39,"AL_EPU">>, <<12,"AL",
     1,"EA_EB", 2,"EA_ID", 1,"EA_EB", 8,"EA_ID", 8,"EA_EB", 6,"EA_ID",
     1,"EA_EB", 9,"EA_ID", 10,"EA_EB", 1,"EA_ID", 1,"ID", 3,"EA_EB",
     1,"EA_ID">>, <<6,"EA_ID", 1,"ID", 48,"EA_ID", 1,"EA_EB", 8,"EA_ID">>,
     <<53,"EA_ID", 2,"EA_EB", 1,"EA_ID", 2,"EA_EB", 1,"EA_ID", 1,"EA_EB",
     4,"EA_ID">> >>

ValuesFrom18c ==
  << <<13,"EA_ID", 3,"EA_EB", 1,"EA_ID", 13,"EA_EB", 34,"EA_ID">>, <<24,"AL",
     8,"EPU_ID", 14,"ID", 2,"EPU_ID", 13,"EA_ID", 3,"EPU_ID">>, <<11,"EA_ID",
     3,"EPU_ID", 50,"EA_ID">>, <<3,"EA_ID", 3,"EA_EB", 1,"EA_ID", 1,"EPU_ID",
     1,"EA_ID", 4,"EPU_ID", 16,"EA_ID", 2,"EPU_ID", 12,"EA_ID", 4,"EPU_ID",
     1,"EA_ID", 9,"EA_EB", 7,"EPU_ID">>, <<19,"AL", 1,"0", 44,"AL">>,
     <<48,"AL", 10,"NU", 1,"AL", 5,"0">>, <<62,"EPU_ID", 2,"0">>, <<62,"EA_ID",
     2,"0">>, <<1,"0", 1,"CM", 30,"0", 32,"CM">>, <<48,"CM", 16,"0">>,
     <<62,"AL", 2,"0">> >>

lineBreakValues ==
  LET run(b, k) == [j \in 1 .. b[2 * k - 1] |-> Bits(b[2 * k])]
      expand(b) == FlattenSeq([k \in 1 .. Len(b) \div 2 |-> run(b, k)])
      blocks ==
        ValuesFrom000 \o ValuesFrom00d \o ValuesFrom019 \o ValuesFrom026 \o
        ValuesFrom033 \o ValuesFrom040 \o ValuesFrom04d \o ValuesFrom05a \o
        ValuesFrom066 \o ValuesFrom073 \o ValuesFrom07f \o ValuesFrom08c \o
        ValuesFrom098 \o ValuesFrom0a5 \o ValuesFrom0b2 \o ValuesFrom0bf \o
        ValuesFrom0cd \o ValuesFrom0db \o ValuesFrom0eb \o ValuesFrom0f9 \o
        ValuesFrom109 \o ValuesFrom119 \o ValuesFrom129 \o ValuesFrom139 \o
        ValuesFrom147 \o ValuesFrom155 \o ValuesFrom167 \o ValuesFrom174 \o
        ValuesFrom180 \o ValuesFrom18c
  IN  Flat([n \in DOMAIN blocks |-> expand(blocks[n])])

-----------------------------------------------------------------------------
(* lineBreakIndex.                                                         *)

IndexFrom00 ==
  << <<64,0,0>>, <<64,0,0>>, <<64,0,0>>, <<2,0,0, 2,1,1, 7,2,0, 4,3,1, 3,2,0,
     1,7,0, 1,2,0, 6,8,1, 1,2,0, 5,14,1, 6,2,1, 4,7,0, 6,8,1, 1,28,0, 2,0,0,
     2,31,1, 11,0,0>>, <<32,0,0, 32,19,1>>, <<8,51,1, 1,2,0, 8,59,1, 9,2,0,
     26,67,1, 3,2,0, 1,93,0, 4,2,0, 4,94,1>>, <<5,98,1, 1,2,0, 1,103,0, 1,2,0,
     1,104,0, 2,2,0, 2,105,1, 2,2,0, 3,107,1, 5,2,0, 10,110,1, 5,2,0, 2,120,1,
     4,2,0, 2,122,1, 5,2,0, 10,124,1, 2,133,0, 1,134,0>>, <<5,135,1, 1,133,0,
     4,140,1, 54,133,0>>, <<55,133,0, 1,144,0, 8,133,0>>, <<64,133,0>>,
     <<1,145,0, 17,133,0, 2,146,1, 4,2,0, 4,148,1, 3,2,0, 14,152,1, 1,79,0,
     1,2,0, 8,166,1, 7,167,1, 2,167,1>>, <<5,169,1, 7,167,1, 7,167,1, 7,167,1,
     7,167,1, 7,167,1, 7,167,1, 7,167,1, 7,167,1, 3,167,1>>, <<4,170,1,
     7,167,1, 7,167,1, 7,167,1, 7,167,1, 7,167,1, 7,167,1, 7,167,1, 7,167,1,
     4,167,1>>, <<3,171,1, 7,167,1, 7,167,1, 7,167,1, 6,167,1, 2,174,1,
     32,0,0>>, <<64,2,0>>, <<36,2,0, 8,133,0, 2,176,1, 6,2,0, 1,178,0, 2,2,0,
     3,179,1, 1,2,0, 5,182,1>>, <<2,187,1, 1,2,0, 2,189,1, 1,2,0, 2,191,1,
     2,0,0, 6,193,1, 2,2,0, 6,199,1, 4,2,0, 3,205,1, 1,0,0, 15,208,1, 1,0,0,
     1,2,0, 6,223,1, 2,0,0, 3,229,1, 1,201,0, 3,232,1>>, <<20,235,1, 2,0,0,
     2,255,1, 1,253,0, 5,257,1, 2,0,0, 1,262,0, 1,0,0, 9,263,1, 1,74,0,
     2,272,1, 1,0,0, 4,274,1, 1,0,0, 4,278,1, 3,0,0, 5,282,1>>, <<14,2,0,
     1,213,0, 1,0,0, 1,2,0, 1,287,0, 3,2,0, 1,288,0, 40,0,0, 1,289,0,
     1,224,0>>, <<9,2,0, 2,290,1, 2,2,0, 1,292,0, 2,2,0, 2,293,1, 46,2,0>>,
     <<15,2,0, 1,189,0, 7,2,0, 1,295,0, 1,2,0, 1,261,0, 38,0,0>> >>

IndexFrom15 ==
  << <<4,0,0, 1,296,0, 27,0,0, 8,2,0, 1,74,0, 6,297,1, 6,0,0, 1,303,0, 3,0,0,
     1,2,0, 2,304,1, 1,2,0, 3,306,1>>, <<44,133,0, 7,144,0, 2,309,1, 1,0,0,
     1,133,0, 1,311,0, 8,0,0>>, <<63,0,0, 1,312,0>>, <<4,133,0, 2,313,1,
     5,133,0, 1,315,0, 36,0,0, 1,2,0, 2,316,1, 13,0,0>>, <<48,0,0, 3,2,0,
     1,318,0, 6,2,0, 4,319,1, 1,2,0, 1,288,0>>, <<3,2,0, 1,76,0, 4,323,1,
     1,2,0, 1,327,0, 1,0,0, 1,328,0, 1,144,0, 1,329,0, 2,0,0, 1,2,0, 5,330,1,
     4,2,0, 1,335,0, 4,2,0, 1,336,0, 8,2,0, 3,337,1, 17,0,0, 1,340,0, 3,0,0>>,
     <<3,341,1, 1,0,0, 2,344,1, 4,0,0, 2,346,1, 7,0,0, 1,348,0, 3,0,0, 1,349,0,
     3,0,0, 1,350,0, 3,0,0, 1,351,0, 3,2,0, 1,352,0, 1,2,0, 1,353,0, 11,0,0,
     2,354,1, 1,0,0, 1,356,0, 3,0,0, 4,357,1, 4,0,0>>, <<4,361,1, 2,2,0,
     5,365,1, 13,369,1, 1,133,0, 3,382,1, 1,2,0, 1,385,0, 1,2,0, 9,386,1,
     1,2,0, 3,395,1, 2,2,0, 2,398,1, 15,369,0, 1,400,0>>, <<63,133,0,
     1,401,0>>, <<16,0,0, 5,14,1, 1,0,0, 1,19,0, 1,7,0, 1,20,0, 1,0,0, 6,21,1,
     15,7,0, 1,27,0, 15,7,0, 1,27,0>>, <<1,402,0, 1,4,0, 2,0,0, 3,4,0, 1,403,0,
     56,0,0>>, <<63,2,0, 1,404,0>>, <<32,0,0, 1,29,0, 15,0,0, 15,12,0,
     1,30,0>>, <<15,12,0, 1,30,0, 48,0,0>> >>

lineBreakIndex ==
  LET run(b, k) == [j \in 1 .. b[3 * k - 2] |-> b[3 * k - 1] + b[3 * k] * (j - 1)]
      expand(b) == FlattenSeq([k \in 1 .. Len(b) \div 3 |-> run(b, k)])
      blocks == IndexFrom00 \o IndexFrom15
  IN  Flat([n \in DOMAIN blocks |-> expand(blocks[n])])
=============================================================================
