---------------------------- MODULE VirtualActor ----------------------------
(***************************************************************************)
(* What the server promises about skill runs, without saying how: a run id *)
(* lives at most once, and a search profile is served by at most one live  *)
(* run at a time (the "one live run per profile" virtual-actor contract of *)
(* the activation registry).  SkillRuns implements it.                     *)
(***************************************************************************)
CONSTANTS Runs, Profiles, NoProfile, ProfileOf

VARIABLES
  live,   \* the runs whose stored row is running or suspended
  over    \* the runs that have ended

SameProfile(r, s) == ProfileOf[r] = ProfileOf[s] /\ ProfileOf[r] # NoProfile

Init == live = {} /\ over = {}

\* A fresh id, and nobody else live on its profile.
Begin(r) ==
  /\ r \in Runs \ (live \cup over)
  /\ \A s \in live : ~ SameProfile(r, s)
  /\ live' = live \cup {r}
  /\ over' = over

\* Runs end one at a time, or several at once when a boot cancels them.
End(S) ==
  /\ S \subseteq live
  /\ live' = live \ S
  /\ over' = over \cup S

Next == (\E r \in Runs : Begin(r)) \/ (\E S \in SUBSET live : End(S))

Spec == Init /\ [][Next]_<<live, over>>
=============================================================================
