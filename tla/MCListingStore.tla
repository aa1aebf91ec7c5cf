--------------------------- MODULE MCListingStore ---------------------------
(* TLC instances of ListingStore. *)
EXTENDS ListingStore, TLC

CONSTANTS c1, c2, s1, s2

Permuted == Permutations({c1, c2}) \cup Permutations({s1, s2})
=============================================================================
