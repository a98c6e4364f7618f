----------------------------- MODULE Blockchain -----------------------------
(***************************************************************************)
(* One shard's Blockchain (src/manifoldchain/blockchain/mod.rs) driven by *)
(* its callers: block arrival from the network workers or the miner      *)
(* worker (insert_block_with_parent, once per parent, each call under its *)
(* own lock) and data-availability verification (verify_block).          *)
(* Fork pruning (prune_fork) is not a step: nothing in the code calls it. *)
(***************************************************************************)
EXTENDS BlockTree, FiniteSetsExt

CONSTANTS
    MaxParents      \* most parents a block declares (its inter-parents)

VARIABLES
    chain,      \* the Blockchain struct
    decl,       \* hash -> declared parents of every block seen so far
    report,     \* confirmation report returned by the last step
    reported    \* every block a step has reported confirmed (history)

vars == <<chain, decl, report, reported>>

(* The report r of a step is handed on to Confirmation.                 *)
Record(r) == reported' = IF r.none THEN reported ELSE reported \cup {r.blk}

Init ==
    /\ chain = NewChain
    /\ decl = [b \in {Genesis} |-> {}]
    /\ report = NoEvent
    /\ reported = {}

(* A block not seen before arrives, naming as parents an antichain of    *)
(* held blocks (its miner's leaves), and is inserted under one of them.  *)
Arrive(b, parents, arrivesVerified, p) ==
    LET r == InsertBlock(chain, b, parents, arrivesVerified, p)
    IN /\ chain' = r.chain
       /\ report' = r.report
       /\ Record(r.report)
       /\ decl' = [x \in DOMAIN decl \cup {b} |-> IF x = b THEN parents ELSE decl[x]]

NewBlock ==
    \E b \in Blocks \ DOMAIN decl :
    \E parents \in {P \in SUBSET DOMAIN chain.blk :
                     P # {} /\ Cardinality(P) <= MaxParents /\ Antichain(chain, P)} :
    \E arrivesVerified \in BOOLEAN :
    \E p \in parents :
        Arrive(b, parents, arrivesVerified, p)

(* A known block is inserted under another of its declared parents (the *)
(* next iteration of the caller's loop over parents).                    *)
InsertUnderParent ==
    \E b \in DOMAIN decl \ {Genesis} :
    \E p \in ValidParents(chain, decl[b]) :
        LET r == InsertBlock(chain, b, decl[b],
                             b \in DOMAIN chain.status => IsVerified(chain, b), p)
        IN /\ chain' = r.chain
           /\ report' = r.report
           /\ Record(r.report)
           /\ UNCHANGED decl

(* Samples for an Unverified block check out: verify_block.              *)
Verify ==
    \E b \in DOMAIN chain.status :
        /\ chain.status[b] = Unverified
        /\ LET r == VerifyBlock(chain, b)
           IN chain' = r.chain /\ report' = r.report /\ Record(r.report)
        /\ UNCHANGED decl

Next == NewBlock \/ InsertUnderParent \/ Verify

Spec == Init /\ [][Next]_vars

-----------------------------------------------------------------------------
TypeOK ==
    /\ chain.tree \in Seq(Seq(Blocks \cup {Genesis}))
    /\ chain.status \in [DOMAIN chain.status -> {Verified, Unverified}]
    /\ DOMAIN chain.status \subseteq Blocks \cup {Genesis}
    /\ chain.lch \in Blocks \cup {Genesis} /\ chain.lvch \in Blocks \cup {Genesis}
    /\ chain.height \in Nat /\ chain.vheight \in Nat
    /\ chain.leaves \subseteq Blocks \cup {Genesis}
    /\ DOMAIN chain.node = DOMAIN chain.blk /\ DOMAIN chain.status = DOMAIN chain.blk
    /\ report.height \in Nat
    /\ reported \subseteq Blocks \cup {Genesis}

(* A confirmation report names a block k below the new longest verified *)
(* tip on a path of Verified blocks to it: the report of insert_block_  *)
(* with_parent and verify_block takes the block from get_path, the       *)
(* longest path to the tip, which may run through another occurrence.   *)
ReportOnVerifiedChain ==
    ~report.none =>
        \E n \in VerifiedNodes(chain) :
            /\ Last(n) = chain.lvch
            /\ Len(n) = chain.vheight + 1
            /\ n[report.height + 1] = report.blk

(* Every block the longest verified chain extends k nodes past has been  *)
(* reported confirmed (spec: "a block is confirmed when the longest      *)
(* verified chain extends k nodes past it").  insert_block_with_parent   *)
(* and verify_block report one block, the one at the new verified height *)
(* minus k, however far the height rose and whichever fork it rose on.  *)
DeepBlocksConfirmed ==
    \A n \in VerifiedNodes(chain) :
        Last(n) = chain.lvch /\ Hgt(n) = chain.vheight =>
            \A i \in 2..(Len(n) - K) : n[i] \in reported

=============================================================================
