-------------------------- MODULE MCCachedGenerate --------------------------
(***************************************************************************)
(* The calls for CachedGenerate: one row whose prompt ends inside a block, *)
(* two rows that may stop at different times, and a generation that is     *)
(* shorter than a block.                                                   *)
(***************************************************************************)
EXTENDS CachedGenerate

CONSTANTS b1, b2

MCCalls ==
  {[batch |-> {b1}, promptLength |-> 3, genLength |-> 3, eosEarlyStop |-> FALSE],
   [batch |-> {b1, b2}, promptLength |-> 1, genLength |-> 2, eosEarlyStop |-> TRUE],
   [batch |-> {b1}, promptLength |-> 2, genLength |-> 1, eosEarlyStop |-> TRUE]}

=============================================================================
