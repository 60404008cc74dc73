----------------------------- MODULE DurableState -----------------------------
(***************************************************************************)
(* What cooldown persistence promises, without saying how: the file holds, *)
(* for each account, some state the account really had, and only ever      *)
(* moves forward to a later one.  A state is its stamp, the position of    *)
(* the change that made it in the history of the account.                  *)
(***************************************************************************)
EXTENDS Naturals

CONSTANT Account

VARIABLES newest,  \* newest[a]: stamp of a's latest state in memory
          disk     \* disk[a]: stamp of the state of a the file holds

Init == newest = [a \in Account |-> 0] /\ disk = [a \in Account |-> 0]

Change(a) ==
  /\ newest'[a] \in Nat /\ newest'[a] > newest[a]
  /\ newest' = [newest EXCEPT ![a] = newest'[a]]
  /\ UNCHANGED disk

Save(a) ==
  /\ disk'[a] \in Nat /\ disk[a] < disk'[a] /\ disk'[a] <= newest[a]
  /\ disk' = [disk EXCEPT ![a] = disk'[a]]
  /\ UNCHANGED newest

Next == \E a \in Account : Change(a) \/ Save(a)

Spec == Init /\ [][Next]_<<newest, disk>>
=============================================================================
