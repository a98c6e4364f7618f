------------------------------- MODULE MCNode -------------------------------
(* Model-checking instance of Node: two shards, this node on shard Me,    *)
(* one exclusive and one inclusive block it mines, each may carry the one *)
(* Output tx, and three blocks of the other shard, the first of which     *)
(* originates that Output's input.                                        *)
EXTENDS Node

MCShards == {0, 1}
Other == CHOOSE s \in MCShards : s # Me
MCBlocks == 1..5
MCIncl == {5}
MCNoIncl == {}
MCBlocksOf == [s \in MCShards |-> IF s = Me THEN {1} ELSE {2, 3, 4}]
MCTwoForeign == [s \in MCShards |-> IF s = Me THEN {1} ELSE {2, 3}]
MCOri == [o \in Outputs |-> {<<2, Other>>}]
=============================================================================
