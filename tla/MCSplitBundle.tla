---------------------------- MODULE MCSplitBundle ----------------------------
(* Instances of SplitBundle for TLC. *)
EXTENDS SplitBundle

MCTxs == 0..NumCalls - 1
=============================================================================
