---------------------------- MODULE MCPersistence ----------------------------
(* Two accounts, so that the drainer chooses, and two workers whose            *)
(* notifications of one account may cross.                                     *)
EXTENDS CooldownPersistence, TLC

Interchangeable == Permutations(Worker)
=============================================================================
