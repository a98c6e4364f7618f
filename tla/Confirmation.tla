---------------------------- MODULE Confirmation ----------------------------
(***************************************************************************)
(* The cross-shard confirmation engine of                                  *)
(* src/manifoldchain/confirmation/mod.rs as pure operators over a record  *)
(* cf, reading the shards' chains (BlockTree records) through a function  *)
(* chains, as Confirmation reads its Multichain.                         *)
(*                                                                         *)
(* Only Output transactions are distinguished: every other flag is        *)
(* confirmed directly and never waits on anything.  An Output tx o names *)
(* through its testimony the originator blocks of its inputs, Ori[o], a  *)
(* set of <<block, shard>> (BlockLocate).  A pending Output is keyed by  *)
(* <<block carrying it, o>> (TxLocate).                                  *)
(***************************************************************************)
EXTENDS BlockTree

CONSTANTS
    Shards,     \* 0..shard_num-1
    Me,         \* config.shard_id
    Outputs,    \* Output transactions (their hashes)
    Ori         \* o -> SUBSET (Blocks \X Shards): originator blocks of o's inputs

Accept == "Accept"
Reject == "Reject"

(* Confirmation::new.  progress is initialised to (0..shard_num).collect(): *)
(* shard s starts with progress s.                                          *)
NewConfirmation ==
    [progress |-> [s \in Shards |-> s],
     confirmed |-> {},
     unstable |-> [t \in {} |-> {}],
     final |-> {}]

(* input_block2output: the pending Outputs waiting on block locate r.    *)
Waiting(cf, r) == {t \in DOMAIN cf.unstable : r \in cf.unstable[t]}

(* Multichain::get_block_height_with_shard: height of the node stored in *)
(* hash2node, the one made by the block's last insertion.                *)
HasHeight(chains, r) == r[1] \in DOMAIN chains[r[2]].node
HeightOf(chains, r) == Hgt(chains[r[2]].node[r[1]])

(* The test shared by handle_confirmed_block and handle_new_block: each  *)
(* required block is confirmed, or its shard's progress has reached its *)
(* height ("deconfirmed").  Decided when every one is either; accepted   *)
(* when every one is confirmed.                                          *)
(* The same test with the progress compared one height early.             *)
SettledEarly(cf, chains, r) ==
    \/ r \in cf.confirmed
    \/ HasHeight(chains, r) /\ cf.progress[r[2]] + 1 >= HeightOf(chains, r)

Settled(cf, chains, r) ==
    \/ r \in cf.confirmed
    \/ HasHeight(chains, r) /\ cf.progress[r[2]] >= HeightOf(chains, r)
Decided(cf, chains, req) == \A r \in req : Settled(cf, chains, r)
Verdict(cf, req) == IF req \subseteq cf.confirmed THEN Accept ELSE Reject

(* return_tx for a set of decided TxLocates: drop them from             *)
(* unstable_outputs and input_block2output, and, for those whose block  *)
(* is found in this shard's chain, the Accept/Reject reply, sent to the *)
(* shards of the required blocks.                                       *)
(* return_tx looking the block up in the shard of its first originator.   *)
RepliesFromOrigin(cf, chains, ts) ==
    {[blk |-> t[1], tx |-> t[2], verdict |-> Verdict(cf, cf.unstable[t]),
      to |-> {r[2] : r \in cf.unstable[t]}] :
        t \in {u \in ts : \E r \in cf.unstable[u] : u[1] \in DOMAIN chains[r[2]].blk}}

Replies(cf, chains, ts) ==
    {[blk |-> t[1], tx |-> t[2], verdict |-> Verdict(cf, cf.unstable[t]),
      to |-> {r[2] : r \in cf.unstable[t]}] :
        t \in {u \in ts : u[1] \in DOMAIN chains[Me].blk}}
Drop(f, ts) == [t \in DOMAIN f \ ts |-> f[t]]

(* confirm_tx for the Output txs of a block: final-confirmed when all its *)
(* originator blocks are confirmed.                                      *)
FinalOutputs(confirmed, txs) == {o \in txs : Ori[o] \subseteq confirmed}

(***************************************************************************)
(* handle_confirmed_block(block, height, shard): a report from shard s.  *)
(* txs are the Output txs the confirmed block carries (none for a        *)
(* header-only block).  Returns the new record and the replies.           *)
(***************************************************************************)
HandleConfirmedBlock(cf, chains, b, h, s, txs) ==
    LET r == <<b, s>> IN
    IF r \in cf.confirmed
    THEN [conf |-> cf, replies |-> {}]
    ELSE LET confirmed1 == cf.confirmed \cup {r}
             cf1 == [cf EXCEPT
                       !.confirmed = confirmed1,
                       !.progress[s] = IF h > @ THEN h ELSE @,
                       !.final = @ \cup FinalOutputs(confirmed1, txs)]
             ready == {t \in Waiting(cf1, r) : Decided(cf1, chains, cf1.unstable[t])}
         IN [conf |-> [cf1 EXCEPT !.unstable = Drop(@, ready)],
             replies |-> Replies(cf1, chains, ready)]

(***************************************************************************)
(* handle_new_block(block): every Output tx of a newly inserted full     *)
(* block is registered as unstable (overwriting any earlier registration *)
(* of the same TxLocate) and answered at once if already decided.        *)
(***************************************************************************)
HandleNewBlock(cf, chains, b, txs) ==
    LET ts == {<<b, o>> : o \in txs}
        cf1 == [cf EXCEPT !.unstable = [t \in DOMAIN @ \cup ts |->
                                          IF t \in ts THEN Ori[t[2]] ELSE @[t]]]
        ready == {t \in ts : Decided(cf1, chains, Ori[t[2]])}
    IN [conf |-> [cf1 EXCEPT !.unstable = Drop(@, ready)],
        replies |-> Replies(cf1, chains, ready)]

(***************************************************************************)
(* Confirmation::update(new_block, confirmed_block_height, shard): the   *)
(* report first, then the new block.  rep is a BlockTree report (none    *)
(* when there is nothing to confirm); newTxs is {} when there is no new  *)
(* block or it carries no Output tx; repTxs the Output txs of the         *)
(* reported block.                                                       *)
(***************************************************************************)
(* update attributing the report to this node's shard instead of s.       *)
UpdateOwnShard(cf, chains, newBlk, newTxs, rep, repTxs, s) ==
    LET a == IF rep.none THEN [conf |-> cf, replies |-> {}]
             ELSE HandleConfirmedBlock(cf, chains, rep.blk, rep.height, Me, repTxs)
        n == HandleNewBlock(a.conf, chains, newBlk, newTxs)
    IN [conf |-> n.conf, replies |-> a.replies \cup n.replies]

Update(cf, chains, newBlk, newTxs, rep, repTxs, s) ==
    LET a == IF rep.none THEN [conf |-> cf, replies |-> {}]
             ELSE HandleConfirmedBlock(cf, chains, rep.blk, rep.height, s, repTxs)
        n == HandleNewBlock(a.conf, chains, newBlk, newTxs)
    IN [conf |-> n.conf, replies |-> a.replies \cup n.replies]

=============================================================================
