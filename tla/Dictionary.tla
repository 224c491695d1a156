----------------------------- MODULE Dictionary -----------------------------
(***************************************************************************)
(* What a trie is for: a property for each rune, none at first, each given *)
(* at most once.                                                           *)
(***************************************************************************)
EXTENDS LineBreakClasses

CONSTANT Key

VARIABLE dict

DictInit == dict = [k \in Key |-> {}]

Put(k) ==
  /\ dict[k] = {}
  /\ dict'[k] \in Property
  /\ dict' = [dict EXCEPT ![k] = dict'[k]]

DictNext == \E k \in Key : Put(k)

DictSpec == DictInit /\ [][DictNext]_dict
=============================================================================
