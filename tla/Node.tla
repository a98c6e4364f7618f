-------------------------------- MODULE Node --------------------------------
(***************************************************************************)
(* One Manifoldchain process (src/main.rs): a Multichain of one Blockchain *)
(* per shard, one Confirmation, and the threads that drive them:         *)
(*   - the miner worker (src/manifoldchain/miner/worker.rs), which       *)
(*     inserts each block this node mined under each of its parents,     *)
(*     calling handle_confirmation after every successful insertion;    *)
(*   - p2p_workers network workers (src/manifoldchain/network/worker.rs) *)
(*     that request announced blocks, handle the blocks peers send       *)
(*     (handle_blocks, a loop over the block's parents), verify blocks   *)
(*     whose samples check out (handle_samples, and the early-sample     *)
(*     path of the ExBlocks handler) and take in fraud proofs.           *)
(* Every chain call holds that chain's mutex only for the call, and the  *)
(* Confirmation mutex is taken afterwards for Confirmation::update, so a *)
(* thread's chain step and its confirmation step are separate actions,   *)
(* with the chain's report held in the thread's pending slot between.    *)
(* A thread's pending slot is also its place in the handler's loop.      *)
(*                                                                         *)
(* Blocks of this node's shard (Me) are full blocks this node mined, and *)
(* its inclusive blocks go into every shard's chain: all of them carry   *)
(* shard id Me and are Verified on first insertion.  Blocks of the other *)
(* shards are header-only blocks from peers, Unverified until sampled.   *)
(***************************************************************************)
EXTENDS Confirmation, FiniteSetsExt

CONSTANTS
    BlocksOf,       \* shard -> hashes of the exclusive blocks mined for that shard
    InclBlocks,     \* hashes of the inclusive blocks this node mines (in every shard)
    MaxParents,     \* most parents a block declares
    Miner,          \* the miner-worker thread
    NetWorkers,     \* the network-worker threads
    OrphanArrival,  \* may a peer's block name a parent this node has not seen
    EarlySamples,   \* subset of BOOLEAN: may a block's samples arrive before it
    FraudBlocks     \* blocks of other shards a peer's fraud proof names invalid

Workers == {Miner} \cup NetWorkers
Idle == [phase |-> "idle"]

VARIABLES
    chains,     \* shard -> Blockchain record (Multichain)
    decl,       \* shard -> (hash -> declared parents), the blocks' parent lists
    content,    \* hash -> Output txs carried by a block of shard Me
    conf,       \* the Confirmation record
    pending,    \* thread -> its place in its handler (see Ctx below)
    sent,       \* Accept/Reject replies broadcast so far (history)
    registered, \* TxLocates handle_new_block has registered (history)
    buff,       \* network worker -> (missing parent -> orphan), its blk_buff
    asked,      \* <<shard, block>> requests sent to peers and not yet answered
    blk2fp,     \* network worker -> blocks its blk2fp links to a fraud proof
    reported    \* <<block, shard>> confirmations the chains have reported (history)

vars == <<chains, decl, content, conf, pending, sent, registered, buff, asked, blk2fp, reported>>

Init ==
    /\ chains = [s \in Shards |-> NewChain]
    /\ decl = [s \in Shards |-> [b \in {Genesis} |-> {}]]
    /\ content = [b \in {Genesis} |-> {}]
    /\ conf = NewConfirmation
    /\ pending = [w \in Workers |-> Idle]
    /\ sent = {}
    /\ registered = {}
    /\ buff = [w \in NetWorkers |-> [q \in {} |-> Genesis]]
    /\ asked = {}
    /\ blk2fp = [w \in NetWorkers |-> {}]
    /\ reported = {}

(* Output txs of a reported block: only full blocks (this shard's) carry *)
(* transactions; header-only blocks report none.                        *)
TxsOf(cont, b, s) == IF s = Me /\ b \in DOMAIN cont THEN cont[b] ELSE {}

(* The confirmation a chain step reports, as a history entry.           *)
Reported(rep, s) == IF rep.none THEN {} ELSE {<<rep.blk, s>>}

(* verify_fraud_proof: the validator accepts every proof.              *)
VerifyFraudProof == TRUE

(* Parents a peer's block of shard s may declare: an antichain of blocks *)
(* this node holds (the peer's leaves) and, when the run allows, one     *)
(* block this node has not seen yet.                                     *)
ParentChoices(s, b) ==
    LET held == {P \in SUBSET DOMAIN chains[s].blk : Antichain(chains[s], P)}
        unseen == {{}} \cup IF OrphanArrival
                            THEN {{q} : q \in BlocksOf[s] \ (DOMAIN decl[s] \cup {b})}
                            ELSE {}
    IN {P \in {H \cup U : H \in held, U \in unseen} :
           P # {} /\ Cardinality(P) <= MaxParents}

(* hash2ver_status on a block's first insertion: Verified when the block *)
(* carries this node's shard id (the miner's own blocks), Unverified for *)
(* a peer's block of another shard; a block already held keeps it.      *)
Arrives(w, s, b) ==
    IF b \in DOMAIN chains[s].status THEN IsVerified(chains[s], b) ELSE w = Miner

(* The loop context of a handler: the block whose parents are walked,    *)
(* the <<shard, parent>> pairs still to do, the <<shard, hash>> pairs     *)
(* inserted so far (new_hashs) and the parents found missing             *)
(* (missing_parents).                                                     *)
Ctx(root, rest, news, miss) == [root |-> root, rest |-> rest, news |-> news, miss |-> miss]

(* Where a thread goes when one parent is done: the next parent, or, at   *)
(* the end of handle_blocks, the early-sampling and reply steps of the    *)
(* ExBlocks handler; the miner worker's loop just ends.                   *)
Continue(w, ctx) ==
    IF ctx.rest # {} THEN [phase |-> "loop", ctx |-> ctx]
    ELSE IF w \in NetWorkers THEN [phase |-> "early", ctx |-> ctx]
    ELSE Idle

(* A network worker that has inserted block b breaks out of its insert  *)
(* loop when its blk2fp links b to a proof verify_fraud_proof accepts:   *)
(* new_hashs, Confirmation::update and the drain of blk_buff are all    *)
(* skipped (the pruning there is commented out); the loop over the       *)
(* block's parents goes on.                                               *)
SkipsInsert(w, b) == w \in NetWorkers /\ b \in blk2fp[w] /\ VerifyFraudProof

(* The chain step of an insertion: insert_block_with_parent on shard s,  *)
(* leaving the Confirmation::update(Some(block), report, s) pending.     *)
(* The miner worker passes its full block whatever shard it inserted     *)
(* into (handle_confirmation); a network worker passes the block it      *)
(* received, a header (no txs) outside shard Me.                         *)
InsertStep(w, s, b, p, ctx) ==
    LET r == InsertBlock(chains[s], b, decl[s][b], Arrives(w, s, b), p)
    IN /\ chains' = [chains EXCEPT ![s] = r.chain]
       /\ reported' = reported \cup Reported(r.report, s)
       /\ pending' = [pending EXCEPT ![w] =
             IF SkipsInsert(w, b) THEN Continue(w, ctx) ELSE
             [phase |-> "update", inLoop |-> TRUE, blk |-> b, par |-> p, s |-> s,
              rep |-> r.report, ctx |-> ctx,
              txs |-> IF w = Miner THEN content[b] ELSE TxsOf(content, b, s),
              repTxs |-> IF r.report.none THEN {} ELSE TxsOf(content, r.report.blk, s)]]

(* Miner worker, ExFullBlock: a block this node mined for its own shard, *)
(* carrying some Output txs, whose inter-parents are the shard's leaves  *)
(* (get_inter_unverified_forks).  The loop over them starts.             *)
MineBlock ==
    /\ pending[Miner] = Idle
    /\ \E b \in BlocksOf[Me] \ DOMAIN decl[Me] : \E txs \in SUBSET Outputs :
          /\ content' = [x \in DOMAIN content \cup {b} |-> IF x = b THEN txs ELSE content[x]]
          /\ decl' = [decl EXCEPT ![Me] = [x \in DOMAIN @ \cup {b} |->
                                               IF x = b THEN chains[Me].leaves ELSE @[x]]]
          /\ pending' = [pending EXCEPT ![Miner] =
                [phase |-> "loop", ctx |-> Ctx(b, {<<Me, p>> : p \in chains[Me].leaves}, {}, {})]]
    /\ UNCHANGED <<chains, conf, sent, registered, buff, asked, blk2fp, reported>>

(* Miner worker, InFullBlock: an inclusive full block this node mined,   *)
(* whose global parents are every shard's leaves (get_global_unverified_ *)
(* forks).  The loop over global_parents starts.                          *)
MineInclusive ==
    /\ pending[Miner] = Idle
    /\ \E b \in InclBlocks \ DOMAIN content : \E txs \in SUBSET Outputs :
          /\ content' = [x \in DOMAIN content \cup {b} |-> IF x = b THEN txs ELSE content[x]]
          /\ decl' = [s \in Shards |-> [x \in DOMAIN decl[s] \cup {b} |->
                                          IF x = b THEN chains[s].leaves ELSE decl[s][x]]]
          /\ pending' = [pending EXCEPT ![Miner] =
                [phase |-> "loop",
                 ctx |-> Ctx(b, UNION {{<<s, p>> : p \in chains[s].leaves} : s \in Shards}, {}, {})]]
    /\ UNCHANGED <<chains, conf, sent, registered, buff, asked, blk2fp, reported>>

(* One iteration of the miner worker's loop: its block inserted under the *)
(* next parent, shard by shard in the order of global_parents (shard 0    *)
(* first), in the order of inter_parents within a shard.                   *)
MinerNextParent ==
    /\ pending[Miner].phase = "loop"
    /\ LET ctx == pending[Miner].ctx
           s == Min({x[1] : x \in ctx.rest})
       IN \E p \in {x[2] : x \in {y \in ctx.rest : y[1] = s}} :
             InsertStep(Miner, s, ctx.root, p, [ctx EXCEPT !.rest = @ \ {<<s, p>>}])
    /\ UNCHANGED <<decl, content, conf, sent, registered, buff, asked, blk2fp>>

(* handle_new_block_hash, for a NewExBlockHash announcement of block b  *)
(* of another shard: the worker requests it (GetExBlocks) unless its     *)
(* chain of that shard holds it (get_block_by_shard).  Exclusive headers *)
(* of this node's own shard are never requested.                         *)
HandleNewBlockHash(w) ==
    /\ pending[w] = Idle
    /\ \E s \in Shards \ {Me} : \E b \in BlocksOf[s] :
          /\ b \notin DOMAIN chains[s].blk
          /\ <<s, b>> \notin asked
          /\ asked' = asked \cup {<<s, b>>}
    /\ UNCHANGED <<chains, decl, content, conf, pending, sent, registered, buff, blk2fp, reported>>

(* A peer answers a request (handle_get_blocks, or the NewMissBlockHash  *)
(* handler) with block b of another shard: handle_blocks starts its loop *)
(* over b's declared parents.  The block may be new, or one this node    *)
(* already handled and requested again before it reached the chain.     *)
ReceiveBlock(w) ==
    /\ pending[w] = Idle
    /\ \E s \in Shards \ {Me} : \E b \in BlocksOf[s] :
       \E parents \in IF b \in DOMAIN decl[s] THEN {decl[s][b]} ELSE ParentChoices(s, b) :
          /\ <<s, b>> \in asked
          /\ asked' = asked \ {<<s, b>>}
          /\ decl' = [decl EXCEPT ![s] = [x \in DOMAIN @ \cup {b} |->
                                              IF x = b THEN parents ELSE @[x]]]
          /\ pending' = [pending EXCEPT ![w] =
                [phase |-> "loop", ctx |-> Ctx(b, {<<s, p>> : p \in parents}, {}, {})]]
    /\ UNCHANGED <<chains, content, conf, sent, registered, buff, blk2fp, reported>>

(* One iteration of handle_blocks' loop over the block's parents: a      *)
(* parent this node lacks gets the block put in blk_buff under it        *)
(* (overwriting what was there) and joins missing_parents; under a       *)
(* parent it holds, the block is validated (headers always pass) and     *)
(* inserted.                                                              *)
NextParent(w) ==
    /\ pending[w].phase = "loop"
    /\ LET ctx == pending[w].ctx
           b == ctx.root
       IN \E x \in ctx.rest :
          LET s == x[1]
              p == x[2]
              ctx1 == [ctx EXCEPT !.rest = @ \ {x}]
          IN IF p \notin DOMAIN chains[s].blk
             THEN /\ buff' = [buff EXCEPT ![w] = [q \in DOMAIN @ \cup {p} |->
                                                    IF q = p THEN b ELSE @[q]]]
                  /\ pending' = [pending EXCEPT ![w] = Continue(w, [ctx1 EXCEPT !.miss = @ \cup {x}])]
                  /\ UNCHANGED <<chains, reported>>
             ELSE /\ InsertStep(w, s, b, p, ctx1)
                  /\ UNCHANGED buff
    /\ UNCHANGED <<decl, content, conf, sent, registered, asked, blk2fp>>

(* handle_samples: verify_block_with_shard succeeds on the shard holding *)
(* the block Unverified; Confirmation::update(None, report, s) pending. *)
SampleVerify(w) ==
    /\ pending[w] = Idle
    /\ \E s \in Shards : \E b \in DOMAIN chains[s].status :
       /\ chains[s].status[b] = Unverified
       /\ LET r == VerifyBlock(chains[s], b)
          IN /\ chains' = [chains EXCEPT ![s] = r.chain]
             /\ reported' = reported \cup Reported(r.report, s)
             /\ pending' = [pending EXCEPT ![w] =
                   [phase |-> "update", inLoop |-> FALSE, blk |-> Genesis, par |-> Genesis,
                    s |-> s, rep |-> r.report, ctx |-> Ctx(Genesis, {}, {}, {}), txs |-> {},
                    repTxs |-> IF r.report.none THEN {} ELSE TxsOf(content, r.report.blk, s)]]
    /\ UNCHANGED <<decl, content, conf, sent, registered, buff, asked, blk2fp>>

(* The thread takes the Confirmation lock: Confirmation::update, and the *)
(* replies are broadcast.  A network worker that inserted block b then   *)
(* looks for an orphan it buffered under b, and goes on to insert it;    *)
(* otherwise its loop moves to the next parent.                          *)
ApplyUpdate(w) ==
    /\ pending[w].phase = "update"
    /\ LET u == pending[w]
           res == Update(conf, chains, u.blk, u.txs, u.rep, u.repTxs, u.s)
           ctx == [u.ctx EXCEPT !.news = @ \cup {<<u.s, u.blk>>}]
       IN /\ conf' = res.conf
          /\ sent' = sent \cup res.replies
          /\ registered' = registered \cup {<<u.blk, o>> : o \in u.txs}
          /\ pending' = [pending EXCEPT ![w] =
                IF ~u.inLoop THEN Idle
                ELSE IF w \in NetWorkers /\ u.blk \in DOMAIN buff[w]
                THEN [phase |-> "drain", key |-> u.blk, child |-> buff[w][u.blk],
                      par |-> u.par, s |-> u.s, ctx |-> ctx]
                ELSE Continue(w, ctx)]
    /\ UNCHANGED <<chains, decl, content, buff, asked, blk2fp, reported>>

(* handle_blocks, the drain loop: the orphan buffered under the block    *)
(* just inserted is inserted next, with the parent_hash of the loop (the *)
(* parent the first block was inserted under); the key is removed from  *)
(* blk_buff (removed_buff) whether or not that insertion succeeds.      *)
(* insert_block_with_parent fails with "Wrong parent" unless the orphan *)
(* declares that parent itself; the failure ends the drain.             *)
DrainBuffer(w) ==
    /\ pending[w].phase = "drain"
    /\ LET u == pending[w]
       IN /\ buff' = [buff EXCEPT ![w] = Drop(@, {u.key})]
          /\ IF u.par \in ValidParents(chains[u.s], decl[u.s][u.child])
             THEN InsertStep(w, u.s, u.child, u.par, u.ctx)
             ELSE /\ pending' = [pending EXCEPT ![w] = Continue(w, u.ctx)]
                  /\ UNCHANGED <<chains, reported>>
    /\ UNCHANGED <<decl, content, conf, sent, registered, asked, blk2fp>>

(* ExBlocks handler after handle_blocks, for one hash of new_hashs: if   *)
(* the block's samples are already held (blk2sample) they are verified  *)
(* and verify_block_with_shard called, its report discarded              *)
(* (network/worker.rs 221).  GetSamples is requested for the hash either *)
(* way; the samples it brings are the SampleVerify steps.               *)
EarlySampleVerify(w) ==
    /\ pending[w].phase = "early"
    /\ LET ctx == pending[w].ctx
       IN \E x \in ctx.news : \E held \in EarlySamples :
          LET s == x[1]
              b == x[2]
              r == VerifyBlock(chains[s], b)
          IN /\ IF held /\ chains[s].status[b] = Unverified
                THEN /\ chains' = [chains EXCEPT ![s] = r.chain]
                     /\ reported' = reported \cup Reported(r.report, s)
                ELSE UNCHANGED <<chains, reported>>
             /\ pending' = [pending EXCEPT ![w] =
                   [phase |-> "early", ctx |-> [ctx EXCEPT !.news = @ \ {x}]]]
    /\ UNCHANGED <<decl, content, conf, sent, registered, buff, asked, blk2fp>>

(* The end of the ExBlocks handler: the NewMissBlockHash requests built  *)
(* from missing_parents, grouped by shard, are written back to the peer. *)
FinishBlocks(w) ==
    /\ pending[w].phase = "early"
    /\ pending[w].ctx.news = {}
    /\ asked' = asked \cup pending[w].ctx.miss
    /\ pending' = [pending EXCEPT ![w] = Idle]
    /\ UNCHANGED <<chains, decl, content, conf, sent, registered, buff, blk2fp, reported>>

(* handle_fraud_proofs, for a FraudProofs message from a peer: a proof   *)
(* not yet in this worker's fp_map is stored and its invalid block       *)
(* linked to it in blk2fp; the pruning of that block is commented out,   *)
(* so the chains are left alone whatever verify_fraud_proof says.       *)
HandleFraudProofs(w) ==
    /\ pending[w] = Idle
    /\ \E b \in FraudBlocks \ blk2fp[w] :
          blk2fp' = [blk2fp EXCEPT ![w] = @ \cup {b}]
    /\ UNCHANGED <<chains, decl, content, conf, pending, sent, registered, buff, asked, reported>>

Next ==
    \/ MineBlock
    \/ MineInclusive
    \/ MinerNextParent
    \/ \E w \in NetWorkers :
          \/ HandleNewBlockHash(w) \/ HandleFraudProofs(w) \/ ReceiveBlock(w)
          \/ NextParent(w) \/ DrainBuffer(w) \/ EarlySampleVerify(w) \/ FinishBlocks(w)
          \/ SampleVerify(w)
    \/ \E w \in Workers : ApplyUpdate(w)

Spec == Init /\ [][Next]_vars

-----------------------------------------------------------------------------
TypeOK ==
    /\ DOMAIN chains = Shards
    /\ conf.progress \in [Shards -> Nat]
    /\ \A r \in conf.confirmed : r[2] \in Shards /\ r[1] \in BlocksOf[r[2]] \cup InclBlocks \cup {Genesis}
    /\ \A t \in DOMAIN conf.unstable : t[2] \in Outputs /\ conf.unstable[t] = Ori[t[2]]
    /\ conf.final \subseteq Outputs
    /\ registered \subseteq Blocks \X Outputs
    /\ \A m \in sent : m.verdict \in {Accept, Reject} /\ m.tx \in Outputs
    /\ \A w \in Workers : pending[w].phase \in {"idle", "loop", "update", "drain", "early"}
    /\ \A w \in NetWorkers : \A q \in DOMAIN buff[w] : q \in Blocks /\ buff[w][q] \in Blocks
    /\ asked \subseteq (Shards \ {Me}) \X Blocks
    /\ \A w \in NetWorkers : blk2fp[w] \subseteq FraudBlocks
    /\ reported \subseteq (Blocks \cup {Genesis}) \X Shards

(* A Reject (refund on the sender shard) is never sent for an Output tx *)
(* all of whose originator blocks the engine confirms: that would both  *)
(* mint the outputs and return the inputs.  handle_new_block and         *)
(* handle_confirmed_block decide Reject when an originator is not yet   *)
(* confirmed but its shard's progress has reached its height.           *)
NoRejectOfConfirmedOrigin ==
    \A m \in sent : m.verdict = Reject => ~(Ori[m.tx] \subseteq conf.confirmed)

(* Every Output this node registered and has since decided is answered  *)
(* once the miner worker has finished its loop over the block's parents. *)
(* return_tx drops a decided TxLocate and sends no reply while the block *)
(* is not yet in this shard's chain (an inclusive block goes into shard 0 *)
(* first); the own-shard insertion later in the loop registers the      *)
(* Output again, and handle_new_block must answer it then.              *)
DecidedOutputsAnswered ==
    pending[Miner] = Idle =>
        \A t \in registered \ DOMAIN conf.unstable :
            \E m \in sent : m.blk = t[1] /\ m.tx = t[2]

(* Every confirmation a chain reports reaches the Confirmation engine    *)
(* once every thread is back in its idle loop: insert_block_with_parent *)
(* and verify_block_with_shard report each confirmed block once only, *)
(* so a report a caller drops is lost for good, and the Outputs waiting *)
(* on that block are never answered.  (Genesis, which no Output waits   *)
(* on, is left out.)                                                    *)
ReportsApplied ==
    (\A w \in Workers : pending[w] = Idle) =>
        \A r \in reported : r[1] # Genesis => r \in conf.confirmed

(* Block b lies on the longest verified chain of chain c.               *)
OnVerifiedChain(c, b) ==
    \E n \in VerifiedNodes(c) :
        Last(n) = c.lvch /\ Hgt(n) = c.vheight /\ \E i \in 1..Len(n) : n[i] = b

(* A Reject is sent only when one of the Output's originator blocks has  *)
(* been overtaken: its shard's longest verified chain no longer runs     *)
(* through it (spec 4.5: "progress-overtaken, their shard's progress is *)
(* past them on a different branch").  The code's test compares heights  *)
(* only: progress[s] >= height of the block.                              *)
RejectOnlyIfOvertaken ==
    [][\A m \in sent' \ sent :
          m.verdict = Reject => \E r \in Ori[m.tx] : ~OnVerifiedChain(chains[r[2]], r[1])]_vars

(* Every shard's tip is canonical (spec 4.1): whatever order the workers *)
(* and the miner inserted (parent, block) pairs in, longest_chain_hash   *)
(* is the deepest block, the least hash among equally deep ones.        *)
TipIsCanonical == \A s \in Shards : CanonicalTip(chains[s])

(* Every shard's cached longest verified fork and unverified leaves are   *)
(* those of its current tree: insert_block_with_parent and verify_block, *)
(* run by the miner worker and the network workers in any order, each    *)
(* recompute them (get_longest_verified_fork, get_leaves_start_from),    *)
(* though insert keeps verified_height when it does not rise.            *)
VerifiedTipCurrent ==
    \A s \in Shards :
        LET c == chains[s]
            lvf == LongestVerifiedFork(c)
        IN /\ c.lvch = lvf.hash
           /\ c.vheight = lvf.height
           /\ c.leaves = LeavesFrom(c, c.lvch)

(* Orphans are kept until they can be inserted (spec: the receiver      *)
(* buffers the orphan keyed by its missing parent and drains the buffer *)
(* when the parent arrives): once every thread has finished its handler,*)
(* each block received from a peer but not in its chain waits in some  *)
(* worker's blk_buff under one of its declared parents still missing.  *)
OrphansKept ==
    (\A w \in Workers : pending[w] = Idle) =>
        \A s \in Shards \ {Me} : \A b \in (DOMAIN decl[s] \ DOMAIN chains[s].blk) \cap BlocksOf[s] :
            \E w \in NetWorkers : \E q \in decl[s][b] :
                /\ q \notin DOMAIN chains[s].blk
                /\ q \in DOMAIN buff[w] /\ buff[w][q] = b

=============================================================================
