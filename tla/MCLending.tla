----------------------------- MODULE MCLending ------------------------------
(***************************************************************************)
(* A reserve of a few tokens: a loan that is paid out rounded down and one *)
(* that is rounded up, interest and fees that leave rests of every size,   *)
(* and repayments that settle less than they bring.                        *)
(***************************************************************************)
EXTENDS LendingReserve, TLC

CONSTANTS ann, ben   \* borrowers

MCLoans == {140, 160}

MCRepayments == {<<1, 90>>}

Alike == Permutations(Borrowers)

=============================================================================
