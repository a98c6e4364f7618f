------------------------------- MODULE TxPool -------------------------------
(***************************************************************************)
(* What the mempool promises its users (spec, Mempool): pending txs form  *)
(* two FIFO classes, the non-Initial "work" and the Initial "bootstrap"   *)
(* txs, each tx at most once; a pop serves the oldest work tx, and a      *)
(* bootstrap tx only when no work is pending.  Several txs may be put in  *)
(* one step, as the miner puts a whole candidate back under one loop.     *)
(***************************************************************************)
EXTENDS Sequences, SequencesExt

CONSTANTS Txs, Flag

VARIABLES work, boot

pvars == <<work, boot>>

IsWork(t) == Flag[t] # "Initial"

Init == work = <<>> /\ boot = <<>>

(* New txs join the back of their class; none is there already.           *)
Put ==
    /\ <<work', boot'>> # <<work, boot>>
    /\ IsPrefix(work, work') /\ IsPrefix(boot, boot')
    /\ IsInjective(work' \o boot')
    /\ \A i \in DOMAIN work' : IsWork(work'[i])
    /\ \A i \in DOMAIN boot' : ~IsWork(boot'[i])

(* The oldest work tx leaves, or, with no work pending, the oldest        *)
(* bootstrap tx.                                                          *)
Take ==
    \/ work # <<>> /\ work' = Tail(work) /\ boot' = boot
    \/ work = <<>> /\ boot # <<>> /\ boot' = Tail(boot) /\ work' = work

Next == Put \/ Take

Spec == Init /\ [][Next]_pvars

=============================================================================
