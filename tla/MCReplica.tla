------------------------------ MODULE MCReplica ------------------------------
(***************************************************************************)
(* Two ledger files, or one, and a server.  Three events let a log be      *)
(* handed over, moved on, restored and re-grown; two overlapping ticks and *)
(* pages of two make stale and reordered pages.  The files are alike, and  *)
(* so are the ticks: the safety run identifies states that differ in them. *)
(***************************************************************************)
EXTENDS Replica, TLC

CONSTANTS l1, l2, t1, t2

MCLedgers == {l1, l2}
MCTicks == {t1, t2}
MCSymmetry == Permutations(MCLedgers) \cup Permutations(MCTicks)
=============================================================================
