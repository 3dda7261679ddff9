---------------------------- MODULE MCTokenizer ----------------------------
(* Small model files for Tokenizer: code points 32 space, 9 tab, 10        *)
(* newline, 35 '#', 39 quote, 48 '0', 83 'S', 108 'l', 233 e acute (bytes  *)
(* 195 and 169).  In symbol space tab, newline and space are 265, 266 and  *)
(* 288.                                                                    *)
EXTENDS Tokenizer

Pair(a, b) == [kind |-> "pair", a |-> a, b |-> b]
Header == [kind |-> "header"]
Blank == [kind |-> "blank"]

MCMergeFiles ==
    {<<Header, Pair(<<108>>, <<108>>), Pair(<<35>>, <<35>>), Pair(<<108, 108>>, <<83>>),
       Blank, Pair(<<39>>, <<108, 108>>), Pair(<<288>>, <<35>>)>>,
     <<Header, Pair(<<83>>, <<108>>), Pair(<<108>>, <<83, 108>>), Pair(<<35>>, <<266>>),
       Pair(<<108>>, <<108>>), Pair(<<288>>, <<108>>), Pair(<<35>>, <<39>>),
       Pair(<<195>>, <<169>>)>>}

(* Ids in the order of a vocab.json: bytes, then products. *)
Symbols ==
    <<<<265>>, <<266>>, <<288>>, <<35>>, <<39>>, <<48>>, <<83>>, <<108>>,
      <<195>>, <<169>>,
      <<108, 108>>, <<35, 35>>, <<108, 108, 83>>, <<39, 108, 108>>, <<288, 35>>,
      <<83, 108>>, <<108, 83, 108>>, <<35, 266>>, <<288, 108>>, <<35, 39>>,
      <<195, 169>>>>
MCVocab == [s \in ToSet(Symbols) |-> CHOOSE k \in DOMAIN Symbols : Symbols[k] = s]

(* "#S", "#S#" and "l#": one is a prefix of another, two may overlap. *)
MCAddedTokens ==
    {[str |-> <<35, 83>>, id |-> 25], [str |-> <<35, 83, 35>>, id |-> 26],
     [str |-> <<108, 35>>, id |-> 27]}
=============================================================================
