--------------------------- MODULE MCBearerAuth ---------------------------
(* BearerAuth for TLC: four requests of client A, one of client B and one  *)
(* with a credential that is not configured.                               *)
EXTENDS BearerAuth, TLC

CONSTANTS a1, a2, a3, a4, b1, x1, s1, s2, clientA, clientB, stranger

Owners == [r \in Requests |-> CASE r = b1 -> clientB
                                [] r = x1 -> stranger
                                [] OTHER -> clientA]

Symmetry == Permutations({a1, a2, a3, a4}) \cup Permutations(Ids)
=============================================================================
