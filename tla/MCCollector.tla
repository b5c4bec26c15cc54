----------------------------- MODULE MCCollector -----------------------------
(* Three L1 blocks that finalize uneven stretches of L2: one that fills no
   batch, one that fills a part of one, and one that fills more than one. *)
EXTENDS Collector

MCSafeL2 == [n \in 0..MaxL1 |-> <<1, 2, 6, 9, 13>>[n + 1]]
=============================================================================
