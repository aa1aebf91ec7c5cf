------------------------ MODULE MCPortfolioScheduler ------------------------
(* TLC instances of PortfolioScheduler. *)
EXTENDS PortfolioScheduler

CONSTANTS A, B

MCListed == <<A, B>>
=============================================================================
