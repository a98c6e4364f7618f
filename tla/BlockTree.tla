----------------------------- MODULE BlockTree -----------------------------
(***************************************************************************)
(* The per-shard block tree of src/manifoldchain/blockchain/mod.rs, as    *)
(* pure operators over a chain record, so that one shard (Blockchain) or  *)
(* several (Node) can be built from them.                                 *)
(*                                                                         *)
(* The code keeps a tree of Box<Node>: a block inserted under two parents *)
(* appears twice.  A tree node is therefore modelled by its path from the *)
(* genesis, a sequence of block hashes.  c.tree lists the nodes in the    *)
(* order they were created, which is the order of every children vector, *)
(* so a pre-order traversal (the order of every recursive search in       *)
(* Node) compares two nodes by the creation index of the first ancestor   *)
(* where their paths differ.  Block hashes are naturals: the H256 order   *)
(* used for tie-breaks is the order of the naturals.                       *)
(***************************************************************************)
EXTENDS Naturals, Sequences, FiniteSets, SequencesExt

CONSTANTS
    Blocks,     \* hashes of the non-genesis blocks, a finite set of naturals
    Genesis,    \* hash of the genesis block
    K           \* confirmation depth (config.k)

Unverified == "Unverified"
Verified   == "Verified"

NoEvent == [blk |-> Genesis, height |-> 0, none |-> TRUE]

(* The set of nodes of the tree and the creation index of a node.          *)
Nodes(c) == ToSet(c.tree)
Idx(c, n) == CHOOSE i \in DOMAIN c.tree : c.tree[i] = n
Hgt(n) == Len(n) - 1

(* m comes before n in a pre-order traversal (children in push order).     *)
PreBefore(c, m, n) ==
    \/ IsStrictPrefix(m, n)
    \/ /\ ~IsPrefix(m, n) /\ ~IsPrefix(n, m)
       /\ LET i == CHOOSE j \in 1..Len(m) : m[j] # n[j] /\ \A l \in 1..(j-1) : m[l] = n[l]
          IN Idx(c, SubSeq(m, 1, i)) < Idx(c, SubSeq(n, 1, i))

PreFirst(c, S) == CHOOSE n \in S : \A m \in S \ {n} : PreBefore(c, n, m)

(* The nodes carrying block h, and the one a recursive search finds first. *)
Occ(c, h) == {n \in Nodes(c) : Last(n) = h}
FirstOcc(c, h) == PreFirst(c, Occ(c, h))

Children(c, n) == {m \in Nodes(c) : Front(m) = n /\ Len(m) = Len(n) + 1}
SubtreeOf(c, n) == {m \in Nodes(c) : IsPrefix(n, m)}

(* A miner's parents are its leaves, tips of its tree when it read them; *)
(* tips taken at one time stay an antichain: no path through the tree    *)
(* meets two of them.  A block from a peer, whose view lags or leads,    *)
(* names as parents such an antichain of the blocks this node holds.    *)
Antichain(c, P) == \A n \in Nodes(c) : Cardinality({i \in 1..Len(n) : n[i] \in P}) <= 1

(* Node::get_leaves_start_from: leaves under the first node carrying h.    *)
LeavesFrom(c, h) ==
    {Last(m) : m \in {l \in SubtreeOf(c, FirstOcc(c, h)) : Children(c, l) = {}}}

IsVerified(c, b) == b \in DOMAIN c.status /\ c.status[b] = Verified

(* Node::get_longest_verified_fork: over the nodes reached from the root  *)
(* through Verified blocks only, the greatest height, then the least hash. *)
VerifiedNodes(c) == {n \in Nodes(c) : \A i \in 1..Len(n) : IsVerified(c, n[i])}
LongestVerifiedFork(c) ==
    LET top == CHOOSE n \in VerifiedNodes(c) : \A m \in VerifiedNodes(c) : Hgt(m) <= Hgt(n)
        best == {n \in VerifiedNodes(c) : Hgt(n) = Hgt(top)}
        h == CHOOSE x \in {Last(n) : n \in best} : \A n \in best : x <= Last(n)
    IN [hash |-> h, height |-> Hgt(top)]

(* Node::get_path: the longest path ending in h, the first one found on a *)
(* tie.                                                                    *)
GetPath(c, h) ==
    LET longest == {n \in Occ(c, h) : \A m \in Occ(c, h) : Len(m) <= Len(n)}
    IN PreFirst(c, longest)

(* The confirmation report of insert_block_with_parent and verify_block:  *)
(* when the longest verified height rises above verified_height, the     *)
(* block at index height-k of the path to the new longest verified tip.  *)
ConfirmReport(c, lvf) ==
    IF lvf.height > c.vheight
    THEN LET idx == IF lvf.height >= K THEN lvf.height - K ELSE 0
         IN [blk |-> GetPath(c, lvf.hash)[idx + 1], height |-> idx, none |-> FALSE]
    ELSE NoEvent

(* Node::get_longest_chain_hash: first deepest node in pre-order.          *)
LongestChainNode(c) ==
    PreFirst(c, {n \in Nodes(c) : \A m \in Nodes(c) : Hgt(m) <= Hgt(n)})

(***************************************************************************)
(* Blockchain::new: only the genesis block, Verified.                      *)
(***************************************************************************)
NewChain ==
    [tree |-> << <<Genesis>> >>,
     blk |-> [b \in {Genesis} |-> {}],
     status |-> [b \in {Genesis} |-> Verified],
     node |-> [b \in {Genesis} |-> <<Genesis>>],
     unverified |-> {},
     lch |-> Genesis, height |-> 0,
     lvch |-> Genesis, vheight |-> 0,
     leaves |-> {Genesis}]

(* Valid parents of a block: its declared parents present in hash2blk.    *)
(* (The status test against Pruned never fires: nothing sets Pruned.)    *)
ValidParents(c, parents) == {p \in parents : p \in DOMAIN c.blk}

(* The longest-chain update of insert_block_with_parent for a new node n: *)
(* a deeper node takes the tip; one as deep takes it if its hash is less. *)
NewTipNoTieBreak(c, n) ==
    IF Hgt(n) > c.height THEN [lch |-> Last(n), height |-> Hgt(n)]
    ELSE [lch |-> c.lch, height |-> c.height]

NewTip(c, n) ==
    IF \/ Hgt(n) > c.height
       \/ Hgt(n) = c.height /\ Last(n) < c.lch
    THEN [lch |-> Last(n), height |-> Hgt(n)]
    ELSE [lch |-> c.lch, height |-> c.height]

(***************************************************************************)
(* Blockchain::insert_block_with_parent(block, parent) with Node::insert. *)
(* b is the block, parents its declared parents (inter-parents, or this  *)
(* shard's entry of global_parents), arrivesVerified whether the variant *)
(* and origin make it Verified on first insertion.  Precondition:        *)
(* p \in ValidParents(c, parents) (else "Wrong parent").  Result: the new *)
(* chain and the confirmation report.                                    *)
(***************************************************************************)
InsertBlock(c, b, parents, arrivesVerified, p) ==
    LET at == FirstOcc(c, p)
        newNode == Append(at, b)
        tree1 == IF newNode \in Nodes(c) THEN c.tree ELSE Append(c.tree, newNode)
        status1 == IF b \in DOMAIN c.status THEN c.status
                   ELSE [x \in DOMAIN c.status \cup {b} |->
                           IF x = b THEN (IF arrivesVerified THEN Verified ELSE Unverified)
                           ELSE c.status[x]]
        unver1 == IF b \notin DOMAIN c.status /\ ~arrivesVerified
                  THEN c.unverified \cup {b} ELSE c.unverified
        c1 == [c EXCEPT !.tree = tree1, !.status = status1, !.unverified = unver1]
        lvf == LongestVerifiedFork(c1)
        report == ConfirmReport(c1, lvf)
        c2 == [c1 EXCEPT
                 !.node = [x \in DOMAIN c.node \cup {b} |->
                             IF x = b THEN newNode ELSE c.node[x]],
                 !.lvch = lvf.hash,
                 !.leaves = LeavesFrom(c1, lvf.hash),
                 !.vheight = IF lvf.height > c.vheight THEN lvf.height ELSE c.vheight,
                 !.blk = [x \in DOMAIN c.blk \cup {b} |-> IF x = b THEN parents ELSE c.blk[x]],
                 !.lch = NewTip(c, newNode).lch,
                 !.height = NewTip(c, newNode).height]
    IN [chain |-> c2, report |-> report]

(* The tip of c is its deepest block, the least hash among equally deep  *)
(* ones (spec 4.1 tip()): the reference the cached lch/height are held to. *)
CanonicalTip(c) ==
    LET deep == {n \in Nodes(c) : \A m \in Nodes(c) : Hgt(m) <= Hgt(n)}
    IN /\ c.height = Hgt(CHOOSE n \in deep : TRUE)
       /\ c.lch = Min({Last(n) : n \in deep})

(***************************************************************************)
(* Blockchain::verify_block(hash): Unverified -> Verified, then recompute *)
(* the longest verified fork, the report and the leaves.  Precondition:   *)
(* c.status[b] = Unverified (else an Err and no change).  The first form  *)
(* is the bug of leaving the unverified leaves as they were.             *)
(***************************************************************************)
VerifyBlockStaleLeaves(c, b) ==
    LET c1 == [c EXCEPT !.status[b] = Verified, !.unverified = @ \ {b}]
        lvf == LongestVerifiedFork(c1)
        report == ConfirmReport(c1, lvf)
        c2 == [c1 EXCEPT !.lvch = lvf.hash, !.vheight = lvf.height]
    IN [chain |-> c2, report |-> report]

VerifyBlock(c, b) ==
    LET c1 == [c EXCEPT !.status[b] = Verified, !.unverified = @ \ {b}]
        lvf == LongestVerifiedFork(c1)
        report == ConfirmReport(c1, lvf)
        c2 == [c1 EXCEPT !.lvch = lvf.hash, !.vheight = lvf.height,
                         !.leaves = LeavesFrom(c1, lvf.hash)]
    IN [chain |-> c2, report |-> report]

=============================================================================
