--------------------------- MODULE MCDealerClaims ---------------------------
(* TLC instances of DealerClaims. *)
EXTENDS DealerClaims, TLC

CONSTANTS p1, p2, d1, d2

MCNearby == [p \in Profile |-> Dealer]
Permuted == Permutations(Profile) \cup Permutations(Dealer)
=============================================================================
