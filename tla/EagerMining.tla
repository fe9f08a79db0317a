---------------------------- MODULE EagerMining -----------------------------
(***************************************************************************)
(* What mining promises a holder, without entries, indices of their own or *)
(* refreshes: whenever the index of a pool advances, the holder is owed    *)
(* the advance times the amount held of that pool at this moment, and at   *)
(* no other time does what is owed change.                                 *)
(***************************************************************************)
EXTENDS Naturals

CONSTANT Reserves   \* the pools

VARIABLES
  index,    \* index[r]: the mining index of pool r
  held,     \* held[r]: what the holder holds of pool r
  owed      \* the mine the holder is owed, claimed or not

vars == <<index, held, owed>>

Init ==
  /\ index \in [Reserves -> Nat]
  /\ held = [r \in Reserves |-> 0]
  /\ owed = 0

\* The index of pool r advances.
Mine(r) ==
  /\ index'[r] >= index[r]
  /\ index' = [index EXCEPT ![r] = index'[r]]
  /\ owed' = owed + held[r] * (index'[r] - index[r])
  /\ UNCHANGED held

\* The holder comes to hold more or less of pool r.
Hold(r) ==
  /\ held'[r] \in Nat
  /\ held' = [held EXCEPT ![r] = held'[r]]
  /\ UNCHANGED <<index, owed>>

Next == \E r \in Reserves : Mine(r) \/ Hold(r)

Spec == Init /\ [][Next]_vars

=============================================================================
