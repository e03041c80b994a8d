---------------------------- MODULE MCShardDispatch ----------------------------
(* TLC instances of ShardDispatch: two calls of each kind that need telling  *)
(* apart, and the slots in hand, all interchangeable.                        *)
EXTENDS ShardDispatch, TLC

SlotSymmetry == Permutations(Slots)
=============================================================================
