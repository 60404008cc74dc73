------------------------------- MODULE MCRecovery -------------------------------
(* One account, at most one operator request at a time, two recovery           *)
(* goroutines (one in its loop, one still unwinding), two processes, three     *)
(* where an old one must stay stuck while a new one is started.                *)
EXTENDS Recovery, TLC

Interchangeable == Permutations(Slot) \cup Permutations(Proc) \cup Permutations(Admin)
=============================================================================
