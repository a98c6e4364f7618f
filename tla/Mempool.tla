------------------------------- MODULE Mempool -------------------------------
(***************************************************************************)
(* The mempool of one node (src/manifoldchain/mempool/mod.rs) and the     *)
(* three threads that use it:                                             *)
(*   - network workers (network/worker.rs) that insert transactions      *)
(*     (handle_transactions) and merge testimonies (handle_testimonies); *)
(*   - the miner (miner/mod.rs, miner_loop), which, whenever the parents *)
(*     it reads have changed, returns the previous candidate's txs and   *)
(*     testimonies to the mempool and packages a new candidate by popping *)
(*     one tx at a time, then mines it and adds the Output tx and         *)
(*     testimony of every own-shard output of its Input txs;              *)
(*   - the miner worker, which inserts each mined block into the chain.  *)
(* Each mempool call takes the mempool mutex for the call only, so every  *)
(* pop of the packaging loop is its own step.                             *)
(*                                                                         *)
(* A transaction is a model value; its flag, the coins it spends and      *)
(* creates, and the testimony units it needs are constants.  A testimony  *)
(* is a record whose identity is its hash: the tx, the unit set and the   *)
(* order the units are listed in (Testimony::hash hashes them in order).  *)
(* The shard's longest chain is a sequence of blocks, each a set of txs.  *)
(***************************************************************************)
EXTENDS Naturals, Sequences, SequencesExt, FiniteSets

CONSTANTS
    Txs,        \* transactions of this shard
    Flag,       \* tx -> "Initial", "Domestic", "Input" or "Output"
    InputsOf,   \* tx -> sequence of own-shard coins it spends
    Creates,    \* tx -> own-shard coins it creates
    Units,      \* tx -> testimony units it needs (inputs of an Output)
    SelfOut,    \* Input tx -> its Output tx back to this shard, or NoTx
    TmyParts,   \* Output tx -> unit sets of the testimonies other shards'
                \* miners make for it, one per shard holding its inputs
    OwnTmy,     \* tx -> units of the testimony this node's miner makes for
                \* this shard on mining it (Testimony::generate): for an Input
                \* tx, of its Output; for an Output tx, of its inputs here
    NoTx,
    Orders,     \* orders a testimony's units can be listed in
    BlockSize,  \* config.block_size
    MaxHeight,  \* bound on the length of the longest chain
    MaxSent,    \* bound on mined blocks waiting on finished_block_chan
    Ties,       \* may a block as long as the tip win on its hash
    MaxResend   \* bound on txs requested again after their broadcast

(* No tx spends a coin an Output tx creates (see CheckDomesticInputTx).   *)
ASSUME \A t, o \in Txs : Flag[o] = "Output" => ToSet(InputsOf[t]) \cap Creates[o] = {}

NoTmy == [tx |-> NoTx]
Tmy == [tx : Txs, units : SUBSET UNION {Units[t] \cup OwnTmy[t] : t \in Txs},
        ord : Orders]
NeedsTmy(t) == Flag[t] = "Output"
Born == Txs \ {SelfOut[t] : t \in Txs}  \* txs some peer or generator creates

VARIABLES
    mp,         \* the Mempool struct
    mphase,     \* miner: "idle" (loop top), "pack" (popping), "pow" (packaged)
    changed,    \* parents differ from pre_*_parents
    base,       \* chain the packaging read: last_blk_hash and its state
    pack,       \* packaging locals: txs, tmys, invalid_txs, invalid_tmys, set
    pre,        \* pre_tx_block and the chain its parents are tips of
    mined,      \* blocks sent on finished_block_chan, not yet inserted
    chain,      \* the shard's longest chain
    born,       \* txs that exist in the network
    inflight,   \* txs a Transactions message is bringing to this node
    resent,     \* how many txs were requested after their broadcast
    delivered,  \* history: testimony units delivered for each tx
    included    \* history: txs that have been in some block

vars == <<mp, mphase, changed, base, pack, pre, mined, chain, born, inflight,
          resent, delivered, included>>

-----------------------------------------------------------------------------
(* The mempool operations, as operators on the record mp.                  *)

NewMempool == [txs_map |-> {}, txs_queue |-> <<>>, testimony_map |-> {},
               tx2tmy |-> [t \in {} |-> NoTmy]]

(* A plausible bug in insert_tx: every tx appended at the back.          *)
InsertTxAtBack(m, t) ==
    IF t \in m.txs_map THEN m
    ELSE [m EXCEPT !.txs_map = @ \cup {t}, !.txs_queue = Append(@, t)]

(* insert_tx: an Initial tx goes to the back; any other goes after the   *)
(* run of non-Initial txs at the front, before the first Initial one.     *)
InsertTx(m, t) ==
    LET q == m.txs_queue
        firstInitial == SelectInSeq(q, LAMBDA x : Flag[x] = "Initial")
        at == IF Flag[t] = "Initial" \/ firstInitial = 0
              THEN Len(q) + 1 ELSE firstInitial
    IN IF t \in m.txs_map THEN m
       ELSE [m EXCEPT !.txs_map = @ \cup {t},
                      !.txs_queue = InsertAt(q, at, t)]

(* A plausible bug in add_testimony: the new testimony replaces the old. *)
AddTestimonyOverwrite(m, y, ord) ==
    [m EXCEPT !.testimony_map = @ \cup {y},
              !.tx2tmy = [x \in DOMAIN @ \cup {y.tx} |-> IF x = y.tx THEN y ELSE @[x]]]

(* add_testimony: a testimony for a tx that already has one is merged     *)
(* with it (the union is listed in HashMap order, any of Orders); when    *)
(* the result differs from the new testimony, the code removes the NEW    *)
(* testimony's hash, which was never stored, and the old one stays.       *)
AddTestimony(m, y, ord) ==
    LET t == y.tx
        ins == IF t \in DOMAIN m.tx2tmy
               THEN [tx |-> t, units |-> m.tx2tmy[t].units \cup y.units,
                     ord |-> ord]
               ELSE y
    IN [m EXCEPT !.testimony_map = (IF ins # y THEN @ \ {y} ELSE @) \cup {ins},
                 !.tx2tmy = [x \in DOMAIN @ \cup {t} |->
                                IF x = t THEN ins ELSE @[x]]]

(* A plausible bug in pop_one_tx: the tx2tmy entry is not removed.      *)
PopOneTxKeepIndex(m) ==
    LET t == Head(m.txs_queue)
        y == IF t \in DOMAIN m.tx2tmy THEN m.tx2tmy[t] ELSE NoTmy
    IN [mp |-> [m EXCEPT !.txs_queue = Tail(@), !.txs_map = @ \ {t},
                         !.testimony_map = @ \ {y}],
        tx |-> t, tmy |-> y]

(* pop_one_tx on a non-empty queue: the front tx and its testimony, both  *)
(* removed from the mempool.                                              *)
PopOneTx(m) ==
    LET t == Head(m.txs_queue)
        y == IF t \in DOMAIN m.tx2tmy THEN m.tx2tmy[t] ELSE NoTmy
    IN [mp |-> [m EXCEPT !.txs_queue = Tail(@), !.txs_map = @ \ {t},
                         !.testimony_map = @ \ {y},
                         !.tx2tmy = [x \in DOMAIN @ \ {t} |-> @[x]]],
        tx |-> t, tmy |-> y]

InsertAll(m, ts) == FoldLeft(LAMBDA a, t : InsertTx(a, t), m, ts)

(* add_testimony for each of a set of testimonies of distinct txs, the   *)
(* merge order of each chosen by ords.                                    *)
RECURSIVE AddAll(_, _, _)
AddAll(m, ys, ords) ==
    IF ys = {} THEN m
    ELSE LET y == CHOOSE y \in ys : TRUE
         IN AddAll(AddTestimony(m, y, ords[y.tx]), ys \ {y}, ords)

-----------------------------------------------------------------------------
(* The chain: the UTXO state after a sequence of blocks (update_state).   *)

TxsOn(c) == UNION {c[i] : i \in DOMAIN c}
Spends(t) == IF Flag[t] \in {"Domestic", "Input"} THEN ToSet(InputsOf[t]) ELSE {}
Utxo(c) == FoldLeft(LAMBDA u, b : (u \ UNION {Spends(t) : t \in b})
                                  \cup UNION {Creates[t] : t \in b}, {}, c)

-----------------------------------------------------------------------------
(* The validator (validator/mod.rs).  Every tx of Txs has a coin of this *)
(* shard and balanced values, so validate_tx's ownership (WrongShard) and *)
(* value (UnequalCoins) checks pass; signatures are their owners' (no     *)
(* forged keys).  A state is the set of unspent coins.                    *)

(* check_input_from_state: the coin is a key of the state.                *)
CheckInputFromState(coin, st) == coin \in st

(* check_domestic_input_tx_from_state: each own-shard input, in order, is *)
(* not an earlier input of the same tx and is in the state.  A coin made  *)
(* by an Output tx would also need its originators Confirmed; no tx of    *)
(* the model spends one (assumed below).                                  *)
CheckDomesticInputTx(t, st) ==
    \A i \in DOMAIN InputsOf[t] :
        /\ \A j \in 1..(i - 1) : InputsOf[t][j] # InputsOf[t][i]
        /\ CheckInputFromState(InputsOf[t][i], st)

(* check_output_tx: with distinct inputs it returns Ok(true) when every   *)
(* input's originator block is Confirmed and Ok(false) otherwise, even    *)
(* when none is; its callers take any Ok as valid.                        *)
CheckOutputTx(t, y) == TRUE

(* check_tx_from_state: by flag; an Output needs a testimony.             *)
CheckTxFromState(t, y, st) ==
    CASE Flag[t] = "Initial" -> TRUE
      [] Flag[t] \in {"Domestic", "Input"} -> CheckDomesticInputTx(t, st)
      [] Flag[t] = "Output" -> y # NoTmy /\ CheckOutputTx(t, y)

(* validate_tx: Initial txs pass before any check; a tx from a peer's     *)
(* Transactions message must be in neither the mempool nor the longest    *)
(* chain; a tx of a block is checked on the state of the parent chain c.  *)
ValidateTx(t, y, c, src) ==
    \/ Flag[t] = "Initial"
    \/ src = "FromTransaction" /\ t \notin mp.txs_map /\ t \notin TxsOn(chain)
    \/ src = "FromBlock" /\ CheckTxFromState(t, y, Utxo(c))

(* The testimony a block carries for tx t (its tmys map), if any.         *)
TmyIn(ys, t) == IF \E y \in ys : y.tx = t THEN CHOOSE y \in ys : y.tx = t ELSE NoTmy

(* validate_block on a full block with txs s and testimonies ys whose     *)
(* parent chain is c: validate_tx of each tx, then its inputs, if it is   *)
(* Domestic or Input, against those of the earlier such txs of the block. *)
ValidateBlock(s, ys, c) ==
    \A i \in DOMAIN s :
        /\ ValidateTx(s[i], TmyIn(ys, s[i]), c, "FromBlock")
        /\ \A j \in 1..(i - 1) : Spends(s[i]) \cap Spends(s[j]) = {}

(* check_complete_testimony: an Output's testimony has a unit for each of *)
(* its inputs.                                                            *)
CheckCompleteTestimony(t, y) == Flag[t] = "Output" /\ Units[t] \subseteq y.units

(* The checks of one popped tx in the packaging loop, in code order:     *)
(* Initial txs are taken at once; then in-longest-chain, testimony        *)
(* presence and completeness, check_tx_from_state on the state of         *)
(* last_blk_hash, and double spending inside the block.                   *)
StateChecked(t, y) ==
    /\ t \notin TxsOn(chain)
    /\ NeedsTmy(t) => y # NoTmy /\ CheckCompleteTestimony(t, y)
    /\ CheckTxFromState(t, y, Utxo(base))

(* A plausible bug in the loop: no double-spend check inside the block.  *)
AcceptedNoSetCheck(t, y) == Flag[t] = "Initial" \/ StateChecked(t, y)

Accepted(t, y) ==
    \/ Flag[t] = "Initial"
    \/ StateChecked(t, y) /\ Spends(t) \cap pack.set = {}

(* The inputs the double-spend loop records before it stops at the first *)
(* one already in the set.                                                *)
SetAfter(t) ==
    IF Flag[t] \notin {"Domestic", "Input"} THEN pack.set
    ELSE LET ins == InputsOf[t]
             dup == SelectInSeq(ins, LAMBDA c : c \in pack.set)
         IN pack.set \cup ToSet(IF dup = 0 THEN ins ELSE SubSeq(ins, 1, dup - 1))

(* A plausible bug: pushing the popped testimony even when there is none. *)
TysKeepNone(y) == {y}

(* The testimonies a popped tx brings (if let Some(tmy) = possible_tmy).  *)
Tys(y) == IF y = NoTmy THEN {} ELSE {y}

EmptyPack == [txs |-> <<>>, tmys |-> {}, invalid_txs |-> <<>>,
              invalid_tmys |-> {}, set |-> {}]

-----------------------------------------------------------------------------
Init ==
    /\ mp = NewMempool
    /\ mphase = "idle"
    /\ changed = TRUE                 \* pre_* start as H256::default()
    /\ base = <<>>
    /\ pack = EmptyPack
    /\ pre = [txs |-> <<>>, tmys |-> {}, base |-> <<>>]
    /\ mined = <<>>
    /\ chain = <<>>
    /\ born = {}
    /\ inflight = {}
    /\ resent = 0
    /\ delivered = [t \in Txs |-> {}]
    /\ included = {}

(* The generator creates a tx and broadcasts it in a Transactions message.*)
Broadcast(t) ==
    /\ t \in Born \ born
    /\ born' = born \cup {t}
    /\ inflight' = inflight \cup {t}
    /\ UNCHANGED <<resent, mp, mphase, changed, base, pack, pre, mined, chain,
                   delivered, included>>

(* handle_new_transaction_hash: a peer announces a tx; it is requested    *)
(* unless it is in the mempool or the longest chain, and a Transactions   *)
(* reply comes back later.                                                *)
HandleNewTransactionHash(t) ==
    /\ t \in born \ inflight
    /\ t \notin mp.txs_map
    /\ t \notin TxsOn(chain)
    /\ resent < MaxResend
    /\ inflight' = inflight \cup {t}
    /\ resent' = resent + 1
    /\ UNCHANGED <<mp, mphase, changed, base, pack, pre, mined, chain, born,
                   delivered, included>>

(* handle_transactions for one tx: skipped if in the mempool; validate_tx *)
(* returns Ok for an Initial tx before any check, and rejects any other   *)
(* tx in the longest chain; otherwise insert_tx.  Several peers may send *)
(* the same tx; each copy is one announcement and one reply.               *)
HandleTransactions(t) ==
    /\ t \in inflight
    /\ inflight' = inflight \ {t}
    /\ mp' = IF t \notin mp.txs_map /\ ValidateTx(t, NoTmy, chain, "FromTransaction")
             THEN InsertTx(mp, t) ELSE mp
    /\ UNCHANGED <<resent, mphase, changed, base, pack, pre, mined, chain, born,
                   delivered, included>>

(* handle_testimonies for one testimony of an Output tx: add_testimony.  *)
HandleTestimonies(y) ==
    /\ y.units \in TmyParts[y.tx]
    /\ \E ord \in Orders : mp' = AddTestimony(mp, y, ord)
    /\ delivered' = [delivered EXCEPT ![y.tx] = @ \cup y.units]
    /\ UNCHANGED <<resent, mphase, changed, base, pack, pre, mined, chain, born,
                   inflight, included>>

(* miner_loop, parents changed: put the old candidate's txs and          *)
(* testimonies back, read the longest chain's tip and state, and start   *)
(* packaging.                                                             *)
Repackage ==
    /\ mphase = "idle" /\ changed
    /\ \E ords \in [Txs -> Orders] :
        mp' = AddAll(InsertAll(mp, pre.txs), pre.tmys, ords)
    /\ base' = chain
    /\ pack' = EmptyPack
    /\ changed' = FALSE
    /\ mphase' = "pack"
    /\ UNCHANGED <<resent, pre, mined, chain, born, inflight, delivered, included>>

(* One iteration of the packaging loop: pop one tx and keep it or set it *)
(* aside as invalid, with its testimony.  A tx re-delivered and popped    *)
(* again is pushed on invalid_txs again; insert_tx ignores the second     *)
(* copy, so the model keeps the first only.                               *)
PopOne ==
    /\ mphase = "pack"
    /\ Len(pack.txs) < BlockSize
    /\ mp.txs_queue # <<>>
    /\ LET r == PopOneTx(mp)
           t == r.tx
           y == r.tmy
           tys == Tys(y)
       IN /\ mp' = r.mp
          /\ pack' =
               IF Accepted(t, y)
               THEN [pack EXCEPT !.txs = Append(@, t), !.tmys = @ \cup tys,
                                 !.set = SetAfter(t)]
               ELSE [pack EXCEPT !.invalid_txs = IF t \in ToSet(@) THEN @
                                                 ELSE Append(@, t),
                                 !.invalid_tmys = @ \cup tys,
                                 !.set = IF Flag[t] # "Initial" /\ StateChecked(t, y)
                                         THEN SetAfter(t) ELSE @]
    /\ UNCHANGED <<resent, mphase, changed, base, pre, mined, chain, born, inflight,
                   delivered, included>>

(* The loop ends with block_size txs or an empty pop: the invalid txs and *)
(* testimonies go back, and the candidate (padded with Empty txs) becomes *)
(* pre_tx_block.                                                          *)
FinishPackaging ==
    /\ mphase = "pack"
    /\ Len(pack.txs) = BlockSize \/ mp.txs_queue = <<>>
    /\ \E ords \in [Txs -> Orders] :
        mp' = AddAll(InsertAll(mp, pack.invalid_txs), pack.invalid_tmys, ords)
    /\ pre' = [txs |-> pack.txs, tmys |-> pack.tmys, base |-> base]
    /\ mphase' = "pow"
    /\ UNCHANGED <<resent, changed, base, pack, mined, chain, born, inflight,
                   delivered, included>>

(* A PoW attempt that misses: back to the top of the loop.                *)
PowMiss ==
    /\ mphase = "pow"
    /\ mphase' = "idle"
    /\ UNCHANGED <<resent, mp, changed, base, pack, pre, mined, chain, born, inflight,
                   delivered, included>>

(* A PoW attempt that succeeds, right after packaging or in a later      *)
(* iteration whose parents have not changed: the block is sent to the    *)
(* miner worker; for each Input tx with an output in this shard the       *)
(* testimony and the Output tx go into the mempool, and for each Output  *)
(* tx with an input in this shard the testimony of the Output; pre_* are *)
(* reset.                                                                 *)
MineBlock ==
    /\ mphase = "pow" \/ (mphase = "idle" /\ ~changed)
    /\ Len(pre.base) < MaxHeight
    /\ Len(mined) < MaxSent
    /\ LET ins == {t \in ToSet(pre.txs) : Flag[t] = "Input" /\ SelfOut[t] # NoTx}
           outs == {SelfOut[t] : t \in ins}
           replies == {t \in ToSet(pre.txs) : Flag[t] = "Output" /\ OwnTmy[t] # {}}
           ord1 == CHOOSE x \in Orders : TRUE
           gen == {[tx |-> SelfOut[t], units |-> OwnTmy[t], ord |-> ord1] : t \in ins}
                  \cup {[tx |-> t, units |-> OwnTmy[t], ord |-> ord1] : t \in replies}
       IN /\ \E ords \in [Txs -> Orders] :
                mp' = InsertAll(AddAll(mp, gen, ords), SetToSeq(outs))
          /\ born' = born \cup outs
          /\ delivered' = [t \in Txs |-> delivered[t] \cup
                                 UNION {y.units : y \in {y \in gen : y.tx = t}}]
    /\ mined' = Append(mined, [txs |-> pre.txs, tmys |-> pre.tmys, base |-> pre.base])
    /\ included' = included \cup ToSet(pre.txs)
    /\ pre' = [txs |-> <<>>, tmys |-> {}, base |-> <<>>]
    /\ changed' = TRUE
    /\ mphase' = "idle"
    /\ UNCHANGED <<resent, base, pack, chain, inflight>>

(* The longest chain after a block on top of prefix c arrives: it wins if *)
(* longer, and by hash (either way) if as long.                           *)
Adopt(c, b) ==
    LET fork == Append(c, b)
    IN IF Len(fork) > Len(chain) THEN {fork}
       ELSE IF Len(fork) = Len(chain) /\ Ties THEN {fork, chain} ELSE {chain}

(* The miner worker inserts the next mined block under its parents.       *)
InsertMined ==
    /\ mined # <<>>
    /\ chain' \in Adopt(Head(mined).base, ToSet(Head(mined).txs))
    /\ mined' = Tail(mined)
    /\ changed' = TRUE
    /\ UNCHANGED <<resent, mp, mphase, base, pack, pre, born, inflight, delivered,
                   included>>

(* The testimonies a peer's block carries: one per Output tx (without   *)
(* one validate_block fails and the block is dropped; which units it has *)
(* changes nothing here, since check_output_tx accepts any).              *)
PeerTmys(b) == {[tx |-> t, units |-> Units[t], ord |-> CHOOSE o \in Orders : TRUE] :
                t \in {t \in b : NeedsTmy(t)}}

(* A block of another miner (any peer, honest or not) that validate_block *)
(* accepts, carrying up to block_size txs, extends the tip or forks at its *)
(* parent: ValidateBlock on the parent's state.                          *)
ForeignBlock ==
    /\ \E k \in {Len(chain) - 1, Len(chain)} \cap Nat,
          b \in {S \in SUBSET born : S # {} /\ Cardinality(S) <= BlockSize} :
        LET c == SubSeq(chain, 1, k)
        IN /\ k < MaxHeight
           /\ ValidateBlock(SetToSeq(b), PeerTmys(b), c)
           /\ chain' \in Adopt(c, b)
           /\ included' = included \cup b
    /\ changed' = TRUE
    /\ UNCHANGED <<resent, mp, mphase, base, pack, pre, mined, born, inflight,
                   delivered>>

Next ==
    \/ \E t \in Txs : Broadcast(t) \/ HandleNewTransactionHash(t)
                      \/ HandleTransactions(t)
    \/ \E y \in Tmy : HandleTestimonies(y)
    \/ Repackage \/ PopOne \/ FinishPackaging \/ PowMiss \/ MineBlock
    \/ InsertMined \/ ForeignBlock

Spec == Init /\ [][Next]_vars

-----------------------------------------------------------------------------
TypeOK ==
    /\ mp.txs_map \subseteq Txs
    /\ mp.txs_queue \in Seq(Txs)
    /\ mp.testimony_map \subseteq Tmy
    /\ pack.tmys \cup pack.invalid_tmys \cup pre.tmys \subseteq Tmy
    /\ mphase \in {"idle", "pack", "pow"}
    /\ changed \in BOOLEAN
    /\ chain \in Seq(SUBSET Txs)
    /\ born \cup inflight \subseteq Txs

(* The queue and the maps of the mempool agree after any interleaving of  *)
(* insert_tx, pop_one_tx and add_testimony by the miner and the network   *)
(* workers: the queue holds each tx of txs_map once, and tx2tmy names a   *)
(* stored testimony of the same tx, which pop_one_tx unwraps.             *)
MempoolConsistent ==
    LET q == mp.txs_queue
    IN /\ ToSet(q) = mp.txs_map
       /\ IsInjective(q)
       /\ \A t \in DOMAIN mp.tx2tmy :
             mp.tx2tmy[t] \in mp.testimony_map /\ mp.tx2tmy[t].tx = t

(* Testimonies held: in the mempool's index, and in the miner's hands    *)
(* between pop_one_tx and add_testimony (packaged or set aside), and in  *)
(* the candidate block.                                                   *)
HeldTmys == {mp.tx2tmy[t] : t \in DOMAIN mp.tx2tmy}
            \cup pack.tmys \cup pack.invalid_tmys \cup pre.tmys

(* No testimony unit delivered for an Output tx that has not yet been in *)
(* a block is lost: add_testimony merges units, and the miner's pop, set-*)
(* aside and re-add of a testimony, racing with the network workers'      *)
(* add_testimony, keeps every unit somewhere it will be merged back from. *)
UnitsConserved ==
    \A t \in Txs :
        NeedsTmy(t) /\ t \notin included =>
            delivered[t] \subseteq UNION {y.units : y \in {y \in HeldTmys : y.tx = t}}

(* Every block the miner packages and mines passes validate_block on the *)
(* chain it read (the packaging loop's state check and in-block set must *)
(* agree with the validator), even with a tx re-delivered by a network   *)
(* worker while the loop pops.                                            *)
CandidateValid ==
    /\ ValidateBlock(pre.txs, pre.tmys, pre.base)
    /\ \A k \in DOMAIN mined : ValidateBlock(mined[k].txs, mined[k].tmys, mined[k].base)

(* No block this node's miner packages or mines holds a tx already on the *)
(* chain it extends (spec 4.4: each candidate is re-checked for inclusion *)
(* in the longest chain): the packaging loop's in-longest-chain check,    *)
(* made at each pop against the chain of that moment.                     *)
CandidateFresh ==
    /\ ToSet(pre.txs) \cap TxsOn(pre.base) = {}
    /\ \A k \in DOMAIN mined : ToSet(mined[k].txs) \cap TxsOn(mined[k].base) = {}

(* The mempool's queue implements TxPool: read as its non-Initial and its *)
(* Initial subsequence, every step of insert_tx (one tx from a network    *)
(* worker, or a whole candidate put back by the miner) appends new txs to *)
(* the back of their class, and every pop_one_tx serves the oldest        *)
(* non-Initial tx, an Initial one only when no other is queued (spec 4.6). *)
Pool == INSTANCE TxPool WITH
            work <- SelectSeq(mp.txs_queue, LAMBDA t : Flag[t] # "Initial"),
            boot <- SelectSeq(mp.txs_queue, LAMBDA t : Flag[t] = "Initial")

PoolSpec == Pool!Spec

=============================================================================
