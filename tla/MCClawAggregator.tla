-------------------------- MODULE MCClawAggregator --------------------------
(* A small instance of ClawAggregator for TLC: one msg_id, three sequence  *)
(* numbers, windows of up to three events.  An event without a number has  *)
(* the number 0.                                                           *)
EXTENDS ClawAggregator

ThreeSeqs == 0..2
=============================================================================
