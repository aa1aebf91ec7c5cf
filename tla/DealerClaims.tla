---------------------------- MODULE DealerClaims ----------------------------
(***************************************************************************)
(* Dealership exclusivity: the profile_dealers rows that lock a dealer to  *)
(* one search profile, and everything that writes them - the claim step of *)
(* the lead run, the transition step of the closeout run, profile close,   *)
(* restore and purge, the geosearch upsert, and the boot orphan sweep.     *)
(*                                                                         *)
(* A profile has at most one live run: that is SkillRuns' OneRunPerProfile *)
(* theorem, used here as the guard run[p] = "none".  Time passes in units  *)
(* in which COLD_DORMANCY_DAYS is the constant Dormancy; runs that execute *)
(* take minutes, runs that wait for the user take any time.                *)
(*                                                                         *)
(* Definitions named ...Bug are seeded faults: no action uses them.        *)
(***************************************************************************)
EXTENDS Naturals, FiniteSets

CONSTANTS
  Profile,    \* search_profiles rows
  Dealer,     \* dealers rows
  Nearby,     \* the dealers a geosearch of each profile finds
  Nobody,     \* no owner, in the abstract lock
  Dormancy    \* COLD_DORMANCY_DAYS, in ticks

ASSUME ClaimsAssumption ==
  /\ Nearby \in [Profile -> SUBSET Dealer]
  /\ Nobody \notin Profile /\ Dormancy \in Nat

VARIABLES
  status,   \* search_profiles.status, "purged" once the row is deleted
  row,      \* profile_dealers.status per profile and dealer, "none": no row
  run,      \* phase of the profile's one skill run
  plan,     \* approvedDealerIds in the run's snapshot
  todo,     \* in memory: the dealers the executing step has still to contact
  quiet,    \* the dormancy marker: is there a progress watermark, and its age
  up,       \* is the server process running
  ousted    \* history: the profile was closed or purged during this run

vars == <<status, row, run, plan, todo, quiet, up, ousted>>

RowStatus == {"none", "candidate", "bound", "excluded_conflict", "closed_out"}

\* Phases in which Mastra's row says "running" and a crash leaves it stale.
Running == {"claiming", "sending", "closing"}
\* Phases in which it says "suspended", waiting for a decision.
Parked == {"review", "fallback", "closeout"}
\* "canceled": ended by a boot, its activation row not yet reconciled away.
Phase == Running \cup Parked \cup {"none", "canceled"}

Live(p) == run[p] \in Running \cup Parked
Holds(p) == {d \in Dealer : row[p][d] = "bound"}

----------------------------------------------------------------------------
(* The claim and release seams of claimDealer.ts *)

HeldByOther(p, d) == \E q \in Profile \ {p} : row[q][d] = "bound"

\* What one claimDealer transaction leaves in the profile's row: the partial
\* unique index refuses a second bound row for a dealer, and the row that lost
\* - whatever it was - becomes excluded_conflict.  Seeded fault: no such index.
ClaimDealerBug(p, d) ==
  IF row[p][d] \in {"candidate", "bound", "excluded_conflict"}
  THEN "bound" ELSE row[p][d]

ClaimDealer(p, d) ==
  IF HeldByOther(p, d)
  THEN IF row[p][d] = "none" THEN "none" ELSE "excluded_conflict"
  ELSE IF row[p][d] \in {"candidate", "bound", "excluded_conflict"}
       THEN "bound" ELSE row[p][d]

\* The dealers of S whose verdict is 'claimed'; only these are ever contacted.
Won(p, S) == {d \in S : ClaimDealer(p, d) = "bound"}

\* claimDealer over every dealer of S, and bound_at stamped on those it binds.
ClaimAll(p, S) ==
  /\ row' = [row EXCEPT ![p] =
               [d \in Dealer |-> IF d \in S THEN ClaimDealer(p, d) ELSE row[p][d]]]
  /\ quiet' = IF Won(p, S) = {} \/ quiet[p].marked THEN quiet
              ELSE [quiet EXCEPT ![p] = [marked |-> FALSE, age |-> 0]]

\* releaseDealerClaims for every profile of P: bound -> closed_out.
\* Seeded fault: the release forgets its search_profile_id condition.
ReleasedBug(P) ==
  [p \in Profile |-> [d \in Dealer |->
     IF P # {} /\ row[p][d] = "bound" THEN "closed_out" ELSE row[p][d]]]
Released(P) ==
  [p \in Profile |-> [d \in Dealer |->
     IF p \in P /\ row[p][d] = "bound" THEN "closed_out" ELSE row[p][d]]]

----------------------------------------------------------------------------
Init ==
  /\ status = [p \in Profile |-> "active"]
  /\ row = [p \in Profile |-> [d \in Dealer |-> "none"]]
  /\ run = [p \in Profile |-> "none"]
  /\ plan = [p \in Profile |-> {}]
  /\ todo = [p \in Profile |-> {}]
  /\ quiet = [p \in Profile |-> [marked |-> FALSE, age |-> 0]]
  /\ up = TRUE
  /\ ousted = [p \in Profile |-> FALSE]

\* upsertDealers of a geosearch: INSERT OR IGNORE a candidate row for each
\* dealer the search finds.
Register(p) ==
  /\ up /\ status[p] # "purged" /\ run[p] = "none"
  /\ row' = [row EXCEPT ![p] = [d \in Dealer |->
               IF d \in Nearby[p] /\ row[p][d] = "none" THEN "candidate" ELSE row[p][d]]]
  /\ UNCHANGED <<status, run, plan, todo, quiet, up, ousted>>

\* Start of a lead run up to its batch_review card.  The pinned profile must be
\* active; the targets are rows of the profile in any status.
Targets(p) == {d \in Dealer : row[p][d] # "none"}

StartLead(p) ==
  /\ up /\ run[p] = "none" /\ status[p] = "active" /\ Targets(p) # {}
  /\ run' = [run EXCEPT ![p] = "review"]
  /\ UNCHANGED <<status, row, plan, todo, quiet, up, ousted>>

\* The user approves some of the reviewed dealers.  No geosearch of the profile
\* runs meanwhile, so its rows are still those reviewed, or all purged: then no
\* claim can succeed and the run only ends.
Approve(p, A) ==
  /\ up /\ run[p] = "review"
  /\ A # {} /\ A \subseteq Targets(p)
  /\ run' = [run EXCEPT ![p] = "claiming"]
  /\ plan' = [plan EXCEPT ![p] = A]
  /\ UNCHANGED <<status, row, todo, quiet, up, ousted>>

\* The claimDealers step; its output, the dealers it won, is saved and the submit
\* step entered (a crash between the claims and the save is one of Crash's).
Claim(p) ==
  /\ up /\ run[p] = "claiming"
  /\ ClaimAll(p, plan[p])
  /\ run' = [run EXCEPT ![p] = "sending"]
  /\ plan' = [plan EXCEPT ![p] = Won(p, plan[p])]
  /\ todo' = [todo EXCEPT ![p] = Won(p, plan[p])]
  /\ UNCHANGED <<status, up, ousted>>

\* A form submit or a fallback e-mail to one dealer (or its typed failure).
Send(p, d) ==
  /\ up /\ run[p] = "sending" /\ d \in todo[p]
  /\ todo' = [todo EXCEPT ![p] = @ \ {d}]
  /\ UNCHANGED <<status, row, run, plan, quiet, up, ousted>>

\* A dealer without a usable form parks the run at its email_fallback gate ...
FallbackGate(p) ==
  /\ up /\ run[p] = "sending" /\ todo[p] # {}
  /\ run' = [run EXCEPT ![p] = "fallback"]
  /\ plan' = [plan EXCEPT ![p] = todo[p]]
  /\ todo' = [todo EXCEPT ![p] = {}]
  /\ UNCHANGED <<status, row, quiet, up, ousted>>

\* ... until the user answers, however much later.
FallbackAnswer(p) ==
  /\ up /\ run[p] = "fallback"
  /\ run' = [run EXCEPT ![p] = "sending"]
  /\ todo' = [todo EXCEPT ![p] = plan[p]]
  /\ UNCHANGED <<status, row, plan, quiet, up, ousted>>

\* The run is over: what stays of it is its rows.
Ended(p) ==
  /\ run' = [run EXCEPT ![p] = "none"]
  /\ plan' = [plan EXCEPT ![p] = {}]
  /\ todo' = [todo EXCEPT ![p] = {}]
  /\ ousted' = [ousted EXCEPT ![p] = FALSE]

\* Only a completed run advances the progress watermark.
Watermark(p) == quiet' = [quiet EXCEPT ![p] = [marked |-> TRUE, age |-> 0]]

\* A run ends well without releasing anything: this one, a closeout that closed
\* nothing, or ("none") a run of a skill that neither claims nor releases.
Complete(p) ==
  /\ up /\ status[p] # "purged"
  /\ run[p] \in {"none", "sending", "closeout", "closing"} /\ todo[p] = {}
  /\ Ended(p) /\ Watermark(p)
  /\ UNCHANGED <<status, row, up>>

\* Declined, failed or canceled by the user: nothing is released.
Abandon(p) ==
  /\ up /\ Live(p)
  /\ Ended(p)
  /\ UNCHANGED <<status, row, quiet, up>>

\* The closeout run: its review card, the approval of some closing e-mails, and
\* the transition step once at least one thread was closed.
StartCloseout(p) ==
  /\ up /\ run[p] = "none" /\ status[p] = "active"
  /\ run' = [run EXCEPT ![p] = "closeout"]
  /\ UNCHANGED <<status, row, plan, todo, quiet, up, ousted>>

ApproveCloseout(p) ==
  /\ up /\ run[p] = "closeout"
  /\ run' = [run EXCEPT ![p] = "closing"]
  /\ UNCHANGED <<status, row, plan, todo, quiet, up, ousted>>

\* UPDATE search_profiles SET status: touches nothing once the row is deleted.
\* Seeded fault: every status flip writes the one of profile replace.
StatusToBug(p, s) == status' = [status EXCEPT ![p] = "superseded"]
StatusTo(p, s) ==
  status' = [status EXCEPT ![p] = IF @ = "purged" THEN "purged" ELSE s]

Transition(p) ==
  /\ up /\ run[p] = "closing"
  /\ StatusTo(p, "closed")
  /\ row' = Released({p})
  /\ Ended(p) /\ Watermark(p)
  /\ UNCHANGED <<up>>

----------------------------------------------------------------------------
(* The profile routes: they ask nobody whether a run is live *)

Close(p) ==
  /\ up /\ status[p] # "purged"
  /\ StatusTo(p, "closed")
  /\ row' = Released({p})
  /\ ousted' = [ousted EXCEPT ![p] = Live(p)]
  /\ UNCHANGED <<run, plan, todo, quiet, up>>

Restore(p) ==
  /\ up /\ status[p] = "closed"
  /\ StatusTo(p, "active")
  /\ UNCHANGED <<row, run, plan, todo, quiet, up, ousted>>

Purge(p) ==
  /\ up /\ status[p] # "purged"
  /\ status' = [status EXCEPT ![p] = "purged"]
  /\ row' = [row EXCEPT ![p] = [d \in Dealer |-> "none"]]
  /\ quiet' = [quiet EXCEPT ![p] = [marked |-> FALSE, age |-> 0]]
  /\ ousted' = [ousted EXCEPT ![p] = Live(p)]
  /\ UNCHANGED <<run, plan, todo, up>>

----------------------------------------------------------------------------
(* Time, crash and boot *)

\* Days go by.  Without a watermark and without a bound row there is no marker
\* to age; past the dormancy window all ages are alike.
Aged(days) ==
  [p \in Profile |->
     IF ~ quiet[p].marked /\ Holds(p) = {} THEN quiet[p]
     ELSE [marked |-> quiet[p].marked,
           age |-> IF quiet[p].age + days > Dormancy THEN Dormancy + 1
                   ELSE quiet[p].age + days]]

\* A day passes with the server up.  Executing steps do not last that long.
Tick ==
  /\ up /\ \A p \in Profile : run[p] \notin Running
  /\ quiet' = Aged(1)
  /\ UNCHANGED <<status, row, run, plan, todo, up, ousted>>

\* The process dies.  In-memory work is gone and an unsaved step is forgotten,
\* though its rows are not: a claim loop may have bound some of its dealers,
\* a transition may have flipped the status without releasing.
Crash ==
  /\ up /\ up' = FALSE
  /\ \/ UNCHANGED <<status, row, quiet>>
     \/ \E p \in Profile : \E S \in SUBSET plan[p] :
          run[p] = "claiming" /\ ClaimAll(p, S) /\ UNCHANGED status
     \/ \E p \in Profile :
          run[p] = "closing" /\ StatusTo(p, "closed") /\ UNCHANGED <<row, quiet>>
  /\ todo' = [p \in Profile |-> {}]
  /\ UNCHANGED <<run, plan, ousted>>

\* sweepOrphanedBoundClaims: a profile loses its claims only when no reported
\* run of it was in flight and its marker is older than the dormancy window.
\* Seeded fault: every profile that is not executing counts as orphaned.
OrphanedBug(p, age) == run[p] \notin Running /\ age > Dormancy
Orphaned(p, age) == ~ Live(p) /\ age > Dormancy

\* Boot, some days after the crash.  Stale runs younger than
\* STALE_RESTART_MAX_AGE_MS (minutes) are restarted from their last saved step,
\* the others canceled; the sweep spares every run reported before that, and
\* activation rows of runs that were not reported are dropped.
Boot ==
  /\ ~ up /\ up' = TRUE
  /\ \E days \in 0..(Dormancy + 1), Kept \in SUBSET {p \in Profile : run[p] \in Running} :
       /\ days = 0 \/ Kept = {}
       /\ quiet' = Aged(days)
       /\ run' = [p \in Profile |->
                    IF run[p] \in Running /\ p \notin Kept THEN "canceled"
                    ELSE IF run[p] = "canceled" THEN "none" ELSE run[p]]
       /\ todo' = [p \in Profile |->
                     IF p \in Kept /\ run[p] = "sending" THEN plan[p] ELSE {}]
       /\ plan' = [p \in Profile |->
                     IF run[p] \in Parked \/ p \in Kept THEN plan[p] ELSE {}]
       /\ ousted' = [p \in Profile |-> ousted[p] /\ (run[p] \in Parked \/ p \in Kept)]
       /\ row' = Released({p \in Profile : Orphaned(p, Aged(days)[p].age)})
  /\ UNCHANGED status

Lead(p) ==
  \/ Register(p) \/ StartLead(p) \/ \E A \in SUBSET Dealer : Approve(p, A)
  \/ Claim(p) \/ FallbackGate(p) \/ FallbackAnswer(p)
  \/ \E d \in Dealer : Send(p, d)
  \/ Complete(p) \/ Abandon(p)
Closeout(p) == StartCloseout(p) \/ ApproveCloseout(p) \/ Transition(p)
Route(p) == Close(p) \/ Restore(p) \/ Purge(p)

Next ==
  \/ \E p \in Profile : Lead(p) \/ Closeout(p) \/ Route(p)
  \/ Tick \/ Crash \/ Boot

Spec == Init /\ [][Next]_vars

----------------------------------------------------------------------------
(* Properties *)

\* The shape of the state.
TypeOK ==
  /\ status \in [Profile -> {"active", "closed", "purged"}]
  /\ row \in [Profile -> [Dealer -> RowStatus]]
  /\ run \in [Profile -> Phase]
  /\ plan \in [Profile -> SUBSET Dealer]
  /\ todo \in [Profile -> SUBSET Dealer]
  /\ quiet \in [Profile -> [marked : BOOLEAN, age : 0..(Dormancy + 1)]]
  /\ up \in BOOLEAN
  /\ ousted \in [Profile -> BOOLEAN]

\* The exclusivity invariant of claimDealer.ts: however claims, closes, purges,
\* crashes and sweeps interleave, no dealer is bound to two profiles.
Exclusivity ==
  \A p, q \in Profile : p # q => Holds(p) \cap Holds(q) = {}

\* Every dealer a lead run may still contact - in memory, or from its snapshot
\* after any crash, boot and wait at a gate - is bound to that run's profile,
\* unless the user closed or purged the profile under the run.
SendsOnlyHeld ==
  \A p \in Profile : ~ ousted[p] =>
    /\ run[p] = "sending" => todo[p] \subseteq Holds(p)
    /\ run[p] \in {"sending", "fallback"} => plan[p] \subseteq Holds(p)

\* A claim is lost only by the holder's own close, purge or closeout, or in a
\* boot at which its profile had no run in flight and had been quiet for longer
\* than the dormancy window: no other search can take it away.
MayLose(p) ==
  \/ /\ up /\ status'[p] \in {"closed", "purged"}
     /\ \A q \in Profile \ {p} : row'[q] = row[q]
  \/ ~ up /\ up' /\ ~ Live(p) /\ quiet'[p].age > Dormancy

HolderUndisturbed ==
  [][\A p \in Profile : Holds(p) \subseteq Holds(p)' \/ MayLose(p)]_vars

\* The rows implement the abstract lock of DealerLock.
Owner == [d \in Dealer |->
            IF \E p \in Profile : d \in Holds(p)
            THEN CHOOSE p \in Profile : d \in Holds(p) ELSE Nobody]
Lock == INSTANCE DealerLock WITH owner <- Owner
LockSpec == Lock!Spec

\* profileService.ts:508-512: closing a search frees its dealers for every
\* other search.  Violated: the close does not look for a live run, and an
\* approval given afterwards claims dealers for the closed profile.
ClosedHoldsNothing ==
  \A p \in Profile : status[p] = "closed" => Holds(p) = {}
=============================================================================
