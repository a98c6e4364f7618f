----------------------------- MODULE MCMempool -----------------------------
(* Model-checking instance of Mempool: an Initial tx i1 creating coin c1; *)
(* an Input x1 spending c1 and a coin of another shard, which pays back   *)
(* to this shard with Output o2 creating c4; o2's testimony needs unit u3 *)
(* (made by this node's miner when it mines x1) and u5 (from the other   *)
(* shard), which arrive separately; mining o2 makes the testimony u4.    *)
(* Testimonies of other miners of this shard are left out (bound on the *)
(* state space), so after a foreign block with x1 o2 stays incomplete.   *)
EXTENDS Mempool, TLC

CONSTANTS i1, x1, o2, none, c1, c4, u3, u4, u5

MCTxs == {i1, x1, o2}
MCFlag == (i1 :> "Initial") @@ (x1 :> "Input")
          @@ (o2 :> "Output")
MCInputsOf == [t \in MCTxs |-> IF t = x1 THEN <<c1>> ELSE <<>>]
MCCreates == (i1 :> {c1}) @@ (x1 :> {}) @@ (o2 :> {c4})
MCUnits == [t \in MCTxs |-> IF t = o2 THEN {u3, u5} ELSE {}]
MCTmyParts == [t \in MCTxs |-> IF t = o2 THEN {{u5}} ELSE {}]
MCOwnTmy == (i1 :> {}) @@ (x1 :> {u3}) @@ (o2 :> {u4})
MCSelfOut == [t \in MCTxs |-> IF t = x1 THEN o2 ELSE none]

=============================================================================
