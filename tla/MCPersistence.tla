--------------------------- MODULE MCPersistence ---------------------------
(* Instances of Persistence for TLC. *)
EXTENDS Persistence, TLC

CONSTANTS s1, s2

(* The sending workers of a destination are alike. *)
Alike == Permutations(Senders)

=============================================================================
