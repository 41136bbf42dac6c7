--------------------------- MODULE MCTransaction ----------------------------
(***************************************************************************)
(* Instances of Transaction for TLC: two names of which one begins with    *)
(* the other and one that is unrelated, and frames of all three kinds.     *)
(***************************************************************************)
EXTENDS Transaction

MCTids == {<<1>>, <<1, 2>>, <<3>>}
MCStoredTids == MCTids \cup {<<1, 2, 9>>, <<3, 9>>}
MCCallback(f) == CASE f \in {1, 2} -> "RET_SUCCESS" [] f = 3 -> "RET_ERROR" [] f = 4 -> "NULL"

=============================================================================
