----------------------------- MODULE DealerLock -----------------------------
(***************************************************************************)
(* The dealership-exclusivity promise without its machinery: each dealer   *)
(* has at most one owner, an owner only ever takes dealers nobody else     *)
(* owns, and lets go of everything it owns at once.  DealerClaims          *)
(* implements it with one profile_dealers row per profile and dealer.      *)
(***************************************************************************)
CONSTANTS Profile, Dealer, Nobody

VARIABLE owner

Init == owner = [d \in Dealer |-> Nobody]

Acquire(p, S) ==
  /\ \A d \in S : owner[d] \in {p, Nobody}
  /\ owner' = [d \in Dealer |-> IF d \in S THEN p ELSE owner[d]]

\* One boot may free what several profiles own.
Release(P) ==
  owner' = [d \in Dealer |-> IF owner[d] \in P THEN Nobody ELSE owner[d]]

Next ==
  \/ \E p \in Profile, S \in SUBSET Dealer : Acquire(p, S)
  \/ \E P \in SUBSET Profile : Release(P)

Spec == Init /\ [][Next]_owner
=============================================================================
