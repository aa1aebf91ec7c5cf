------------------------- MODULE DealerClaimsProofs -------------------------
(***************************************************************************)
(* Proofs about DealerClaims, for every set of profiles and dealers and    *)
(* every dormancy window.  TypeOK, Exclusivity and SendsOnlyHeld are each  *)
(* preserved by every step (the last one given the first); HolderUndis-    *)
(* turbed and the refinement of DealerLock follow from Exclusivity.        *)
(***************************************************************************)
EXTENDS DealerClaims, TLAPS

USE DEF RowStatus, Running, Parked, Phase

----------------------------------------------------------------------------
(* What the row operations return *)

\* claimDealer leaves one of the five row statuses.
LEMMA ClaimType ==
  ASSUME TypeOK, NEW p \in Profile, NEW d \in Dealer
  PROVE  ClaimDealer(p, d) \in RowStatus
BY DEF TypeOK, ClaimDealer

\* releaseDealerClaims too, for every row.
LEMMA ReleasedType ==
  ASSUME TypeOK, NEW P
  PROVE  Released(P) \in [Profile -> [Dealer -> RowStatus]]
BY DEF TypeOK, Released

\* A day more keeps the markers well formed.
LEMMA AgedType ==
  ASSUME TypeOK, NEW days \in Nat
  PROVE  Aged(days) \in [Profile -> [marked : BOOLEAN, age : 0..(Dormancy + 1)]]
<1> SUFFICES ASSUME NEW p \in Profile
             PROVE  Aged(days)[p] \in [marked : BOOLEAN, age : 0..(Dormancy + 1)]
  BY DEF Aged
<1>1. quiet[p] \in [marked : BOOLEAN, age : 0..(Dormancy + 1)]
  BY DEF TypeOK
<1>2. /\ quiet[p].marked \in BOOLEAN /\ quiet[p].age \in 0..(Dormancy + 1)
  BY <1>1
<1>3. (IF quiet[p].age + days > Dormancy THEN Dormancy + 1
       ELSE quiet[p].age + days) \in 0..(Dormancy + 1)
  BY <1>2, ClaimsAssumption
<1> QED BY <1>1, <1>2, <1>3, ClaimsAssumption DEF Aged

\* A claim loop touches its own profile's rows only, and keeps the types.
LEMMA ClaimAllType ==
  ASSUME TypeOK, NEW p \in Profile, NEW S \in SUBSET Dealer, ClaimAll(p, S)
  PROVE  /\ row' \in [Profile -> [Dealer -> RowStatus]]
         /\ quiet' \in [Profile -> [marked : BOOLEAN, age : 0..(Dormancy + 1)]]
<1>1. \A d \in Dealer : ClaimDealer(p, d) \in RowStatus
  BY ClaimType
<1>2. row' \in [Profile -> [Dealer -> RowStatus]]
  BY <1>1 DEF ClaimAll, TypeOK
<1>3. [marked |-> FALSE, age |-> 0] \in [marked : BOOLEAN, age : 0..(Dormancy + 1)]
  BY ClaimsAssumption
<1>4. quiet' \in [Profile -> [marked : BOOLEAN, age : 0..(Dormancy + 1)]]
  BY <1>3 DEF ClaimAll, TypeOK
<1> QED BY <1>2, <1>4

----------------------------------------------------------------------------
(* Type correctness *)

LEMMA InitType == Init => TypeOK
BY ClaimsAssumption DEF Init, TypeOK

LEMMA EndedType ==
  ASSUME TypeOK, NEW p \in Profile, Ended(p)
  PROVE  /\ run' \in [Profile -> Phase]
         /\ plan' \in [Profile -> SUBSET Dealer]
         /\ todo' \in [Profile -> SUBSET Dealer]
         /\ ousted' \in [Profile -> BOOLEAN]
BY DEF TypeOK, Ended

LEMMA WatermarkType ==
  ASSUME TypeOK, NEW p \in Profile, Watermark(p)
  PROVE  quiet' \in [Profile -> [marked : BOOLEAN, age : 0..(Dormancy + 1)]]
<1>1. [marked |-> TRUE, age |-> 0] \in [marked : BOOLEAN, age : 0..(Dormancy + 1)]
  BY ClaimsAssumption
<1> QED BY <1>1 DEF TypeOK, Watermark

LEMMA StatusToType ==
  ASSUME TypeOK, NEW p \in Profile, NEW s \in {"active", "closed"}, StatusTo(p, s)
  PROVE  status' \in [Profile -> {"active", "closed", "purged"}]
BY DEF TypeOK, StatusTo

LEMMA StepType == TypeOK /\ [Next]_vars => TypeOK'
<1> SUFFICES ASSUME TypeOK, [Next]_vars PROVE TypeOK'
  OBVIOUS
<1>1. ASSUME NEW p \in Profile, Lead(p) PROVE TypeOK'
  <2>1. CASE Register(p)
    BY <2>1 DEF Register, TypeOK
  <2>2. CASE StartLead(p)
    BY <2>2 DEF StartLead, TypeOK
  <2>3. ASSUME NEW A \in SUBSET Dealer, Approve(p, A) PROVE TypeOK'
    BY <2>3 DEF Approve, TypeOK
  <2>4. CASE Claim(p)
    <3>1. plan[p] \in SUBSET Dealer /\ Won(p, plan[p]) \in SUBSET Dealer
      BY DEF TypeOK, Won
    <3>2. /\ row' \in [Profile -> [Dealer -> RowStatus]]
          /\ quiet' \in [Profile -> [marked : BOOLEAN, age : 0..(Dormancy + 1)]]
      BY <2>4, <3>1, ClaimAllType DEF Claim
    <3> QED BY <2>4, <3>1, <3>2 DEF Claim, TypeOK
  <2>5. CASE FallbackGate(p)
    BY <2>5 DEF FallbackGate, TypeOK
  <2>6. CASE FallbackAnswer(p)
    BY <2>6 DEF FallbackAnswer, TypeOK
  <2>7. ASSUME NEW d \in Dealer, Send(p, d) PROVE TypeOK'
    BY <2>7 DEF Send, TypeOK
  <2>8. CASE Complete(p)
    BY <2>8, EndedType, WatermarkType DEF Complete, TypeOK
  <2>9. CASE Abandon(p)
    BY <2>9, EndedType DEF Abandon, TypeOK
  <2> QED BY <1>1, <2>1, <2>2, <2>3, <2>4, <2>5, <2>6, <2>7, <2>8, <2>9 DEF Lead
<1>2. ASSUME NEW p \in Profile, Closeout(p) PROVE TypeOK'
  <2>1. CASE StartCloseout(p)
    BY <2>1 DEF StartCloseout, TypeOK
  <2>2. CASE ApproveCloseout(p)
    BY <2>2 DEF ApproveCloseout, TypeOK
  <2>3. CASE Transition(p)
    BY <2>3, EndedType, WatermarkType, StatusToType, ReleasedType
    DEF Transition, TypeOK
  <2> QED BY <1>2, <2>1, <2>2, <2>3 DEF Closeout
<1>3. ASSUME NEW p \in Profile, Route(p) PROVE TypeOK'
  <2>1. Live(p) \in BOOLEAN
    BY DEF Live
  <2>2. CASE Close(p)
    BY <2>1, <2>2, StatusToType, ReleasedType DEF Close, TypeOK
  <2>3. CASE Restore(p)
    BY <2>3, StatusToType DEF Restore, TypeOK
  <2>4. CASE Purge(p)
    <3>1. [marked |-> FALSE, age |-> 0] \in [marked : BOOLEAN, age : 0..(Dormancy + 1)]
      BY ClaimsAssumption
    <3> QED BY <2>1, <2>4, <3>1 DEF Purge, TypeOK
  <2> QED BY <1>3, <2>2, <2>3, <2>4 DEF Route
<1>4. CASE Tick
  BY <1>4, AgedType DEF Tick, TypeOK
<1>5. CASE Crash
  <2>1. /\ run' \in [Profile -> Phase] /\ plan' \in [Profile -> SUBSET Dealer]
        /\ todo' \in [Profile -> SUBSET Dealer] /\ up' \in BOOLEAN
        /\ ousted' \in [Profile -> BOOLEAN]
    BY <1>5 DEF Crash, TypeOK
  <2>2. CASE UNCHANGED <<status, row, quiet>>
    BY <2>1, <2>2 DEF TypeOK
  <2>3. ASSUME NEW p \in Profile, NEW S \in SUBSET plan[p],
               ClaimAll(p, S), UNCHANGED status
        PROVE  TypeOK'
    <3>1. S \in SUBSET Dealer
      BY DEF TypeOK
    <3> QED BY <2>1, <2>3, <3>1, ClaimAllType DEF TypeOK
  <2>4. ASSUME NEW p \in Profile, StatusTo(p, "closed"), UNCHANGED <<row, quiet>>
        PROVE  TypeOK'
    BY <2>1, <2>4, StatusToType DEF TypeOK
  <2> QED BY <1>5, <2>2, <2>3, <2>4 DEF Crash
<1>6. CASE Boot
  <2>1. PICK days \in 0..(Dormancy + 1), Kept \in SUBSET {p \in Profile : run[p] \in Running} :
          Boot!2!(days, Kept)
    BY <1>6 DEF Boot
  <2>2. quiet' \in [Profile -> [marked : BOOLEAN, age : 0..(Dormancy + 1)]]
    BY <2>1, AgedType, ClaimsAssumption
  <2>3. row' \in [Profile -> [Dealer -> RowStatus]]
    BY <2>1, ReleasedType
  <2>4. /\ run' \in [Profile -> Phase] /\ plan' \in [Profile -> SUBSET Dealer]
        /\ todo' \in [Profile -> SUBSET Dealer] /\ ousted' \in [Profile -> BOOLEAN]
    BY <2>1 DEF TypeOK
  <2> QED BY <1>6, <2>2, <2>3, <2>4 DEF Boot, TypeOK
<1>7. CASE UNCHANGED vars
  BY <1>7 DEF vars, TypeOK
<1> QED BY <1>1, <1>2, <1>3, <1>4, <1>5, <1>6, <1>7 DEF Next

\* Every state of the rows, the runs and the markers has its type.
THEOREM ClaimsTypeCorrect == Spec => []TypeOK
BY InitType, StepType, PTL DEF Spec

----------------------------------------------------------------------------
(* How each step changes who holds what *)

\* A claim loop keeps what its profile holds, adds dealers nobody else holds,
\* and leaves the other profiles' rows alone.
LEMMA ClaimAllHolds ==
  ASSUME TypeOK, Exclusivity, NEW p \in Profile, NEW S \in SUBSET Dealer,
         ClaimAll(p, S)
  PROVE  /\ Holds(p)' = Holds(p) \cup Won(p, S)
         /\ \A q \in Profile \ {p} : Holds(q)' = Holds(q) /\ Holds(q) \cap Won(p, S) = {}
<1>1. \A q \in Profile \ {p} : Holds(q)' = Holds(q)
  BY DEF ClaimAll, Holds, TypeOK
<1>2. \A d \in Dealer : row'[p][d] = IF d \in S THEN ClaimDealer(p, d) ELSE row[p][d]
  BY DEF ClaimAll, TypeOK
<1>3. \A d \in Holds(p) : ClaimDealer(p, d) = "bound"
  BY DEF Exclusivity, Holds, ClaimDealer, HeldByOther
<1>4. Holds(p)' = Holds(p) \cup Won(p, S)
  BY <1>2, <1>3 DEF Holds, Won
<1>5. \A q \in Profile \ {p} : Holds(q) \cap Won(p, S) = {}
  BY DEF Holds, Won, ClaimDealer, HeldByOther
<1> QED BY <1>1, <1>4, <1>5

\* A release empties the profiles it names and touches no other.
LEMMA ReleasedHolds ==
  ASSUME NEW P \in SUBSET Profile, row' = Released(P)
  PROVE  \A q \in Profile : Holds(q)' = IF q \in P THEN {} ELSE Holds(q)
BY DEF Released, Holds

\* The two ways a step can touch the rows without claiming, with the profiles concerned.
Frees(P) == \A q \in Profile : Holds(q)' = IF q \in P THEN {} ELSE Holds(q)
Keeps == \A q \in Profile : Holds(q)' = Holds(q)

\* Every step claims for one profile, releases all claims of some profiles for
\* a reason HolderUndisturbed allows, or changes no claim.
LEMMA StepHolds ==
  ASSUME TypeOK, [Next]_vars
  PROVE  \/ \E p \in Profile, S \in SUBSET Dealer : ClaimAll(p, S)
         \/ \E P \in SUBSET Profile :
              /\ Frees(P)
              /\ \A p \in P : MayLose(p)
         \/ Keeps
<1>1. ASSUME NEW p \in Profile, Lead(p)
      PROVE  Keeps \/ \E S \in SUBSET Dealer : ClaimAll(p, S)
  <2>1. CASE Register(p)
    BY <2>1 DEF Register, Keeps, Holds, TypeOK
  <2>2. CASE Claim(p)
    BY <2>2 DEF Claim, TypeOK
  <2>3. CASE UNCHANGED row
    BY <2>3 DEF Keeps, Holds
  <2> QED BY <1>1, <2>1, <2>2, <2>3
          DEF Lead, StartLead, Approve, FallbackGate, FallbackAnswer, Send, Complete, Abandon
<1>2. ASSUME NEW p \in Profile, up, row' = Released({p}), StatusTo(p, "closed")
      PROVE  Frees({p}) /\ MayLose(p)
  <2>1. Frees({p})
    BY <1>2, ReleasedHolds, {p} \in SUBSET Profile DEF Frees
  <2>2. status'[p] \in {"closed", "purged"}
    BY <1>2 DEF StatusTo, TypeOK
  <2>3. \A q \in Profile \ {p} : row'[q] = row[q]
    <3> TAKE q \in Profile \ {p}
    <3>1. row'[q] = [d \in Dealer |-> row[q][d]]
      BY <1>2 DEF Released
    <3> QED BY <3>1 DEF TypeOK
  <2> QED BY <1>2, <2>1, <2>2, <2>3 DEF MayLose
<1>3. ASSUME NEW p \in Profile, Closeout(p)
      PROVE  Keeps \/ (Frees({p}) /\ MayLose(p))
  <2>1. CASE Transition(p)
    BY <2>1, <1>2 DEF Transition
  <2>2. CASE UNCHANGED row
    BY <2>2 DEF Keeps, Holds
  <2> QED BY <1>3, <2>1, <2>2 DEF Closeout, StartCloseout, ApproveCloseout
<1>4. ASSUME NEW p \in Profile, Route(p)
      PROVE  Keeps \/ (Frees({p}) /\ MayLose(p))
  <2>1. CASE Close(p)
    BY <2>1, <1>2 DEF Close
  <2>2. CASE Restore(p)
    BY <2>2 DEF Restore, Keeps, Holds
  <2>3. CASE Purge(p)
    <3>1. status'[p] = "purged" /\ up /\ \A q \in Profile \ {p} : row'[q] = row[q]
      BY <2>3 DEF Purge, TypeOK
    <3>2. Frees({p})
      BY <2>3 DEF Purge, Frees, Holds, TypeOK
    <3> QED BY <3>1, <3>2 DEF MayLose
  <2> QED BY <1>4, <2>1, <2>2, <2>3 DEF Route
<1>5. CASE Tick
  BY <1>5 DEF Tick, Keeps, Holds
<1>6. CASE Crash
  <2>1. CASE UNCHANGED row
    BY <2>1 DEF Keeps, Holds
  <2>2. ASSUME NEW p \in Profile, NEW S \in SUBSET plan[p], ClaimAll(p, S)
        PROVE  \E q \in Profile, T \in SUBSET Dealer : ClaimAll(q, T)
    BY <2>2 DEF TypeOK
  <2> QED BY <1>6, <2>1, <2>2 DEF Crash
<1>7. CASE Boot
  <2>1. PICK days \in 0..(Dormancy + 1), Kept \in SUBSET {p \in Profile : run[p] \in Running} :
          Boot!2!(days, Kept)
    BY <1>7 DEF Boot
  <2> DEFINE P == {p \in Profile : Orphaned(p, Aged(days)[p].age)}
  <2>2. Frees(P)
    BY <2>1, ReleasedHolds DEF Frees
  <2>3. \A p \in P : MayLose(p)
    BY <1>7, <2>1 DEF Boot, Orphaned, MayLose
  <2> QED BY <2>2, <2>3
<1>8. CASE UNCHANGED vars
  BY <1>8 DEF vars, Keeps, Holds
<1>9. ASSUME NEW p \in Profile, Frees({p}), MayLose(p)
      PROVE  \E P \in SUBSET Profile : Frees(P) /\ \A q \in P : MayLose(q)
  <2>1. {p} \in SUBSET Profile /\ \A q \in {p} : MayLose(q)
    BY <1>9
  <2> QED BY <1>9, <2>1
<1>10. ASSUME NEW p \in Profile, Lead(p) \/ Closeout(p) \/ Route(p)
       PROVE  \/ \E q \in Profile, S \in SUBSET Dealer : ClaimAll(q, S)
              \/ \E P \in SUBSET Profile : Frees(P) /\ \A q \in P : MayLose(q)
              \/ Keeps
  BY <1>1, <1>3, <1>4, <1>9, <1>10
<1> QED BY <1>5, <1>6, <1>7, <1>8, <1>10 DEF Next

----------------------------------------------------------------------------
(* Exclusivity *)

LEMMA InitExclusive == Init => Exclusivity
BY DEF Init, Exclusivity, Holds

LEMMA StepExclusive == TypeOK /\ Exclusivity /\ [Next]_vars => Exclusivity'
<1> SUFFICES ASSUME TypeOK, Exclusivity, [Next]_vars PROVE Exclusivity'
  OBVIOUS
<1>1. ASSUME NEW p \in Profile, NEW S \in SUBSET Dealer, ClaimAll(p, S)
      PROVE  Exclusivity'
  BY <1>1, ClaimAllHolds DEF Exclusivity
<1>2. ASSUME NEW P \in SUBSET Profile, Frees(P) PROVE Exclusivity'
  BY <1>2 DEF Frees, Exclusivity
<1>3. CASE Keeps
  BY <1>3 DEF Keeps, Exclusivity
<1> QED BY <1>1, <1>2, <1>3, StepHolds

\* No dealer is ever bound to two profiles, whatever crashes, closes and sweeps.
THEOREM ClaimsExclusive == Spec => []Exclusivity
BY InitType, StepType, InitExclusive, StepExclusive, PTL DEF Spec

\* A holder loses a dealer only by its own close, purge or closeout, or to a
\* sweep that found it without a run and dormant.
THEOREM ClaimsUndisturbed == Spec => HolderUndisturbed
<1>1. ASSUME TypeOK, Exclusivity, [Next]_vars, NEW p \in Profile
      PROVE  Holds(p) \subseteq Holds(p)' \/ MayLose(p)
  <2>1. ASSUME NEW q \in Profile, NEW S \in SUBSET Dealer, ClaimAll(q, S)
        PROVE  Holds(p) \subseteq Holds(p)'
    BY <1>1, <2>1, ClaimAllHolds
  <2> QED BY <1>1, <2>1, StepHolds DEF Frees, Keeps
<1>2. TypeOK /\ Exclusivity /\ [Next]_vars =>
        [\A p \in Profile : Holds(p) \subseteq Holds(p)' \/ MayLose(p)]_vars
  BY <1>1
<1> QED
  BY <1>2, ClaimsTypeCorrect, ClaimsExclusive, PTL DEF Spec, HolderUndisturbed

----------------------------------------------------------------------------
(* What a lead run may still contact *)

LEMMA InitHeld == Init => SendsOnlyHeld
BY DEF Init, SendsOnlyHeld

\* A run that nobody moves keeps what it needs as long as no claim of its
\* profile is released under it.
RunKept(p) ==
  /\ run'[p] = run[p] /\ plan'[p] = plan[p] /\ ousted'[p] = ousted[p]
  /\ todo'[p] = todo[p]

LEMMA HeldKept ==
  ASSUME SendsOnlyHeld, NEW p \in Profile, RunKept(p), Holds(p) \subseteq Holds(p)'
  PROVE  ~ ousted'[p] =>
           /\ run'[p] = "sending" => todo'[p] \subseteq Holds(p)'
           /\ run'[p] \in {"sending", "fallback"} => plan'[p] \subseteq Holds(p)'
BY DEF SendsOnlyHeld, RunKept

LEMMA StepHeld ==
  TypeOK /\ Exclusivity /\ SendsOnlyHeld /\ [Next]_vars => SendsOnlyHeld'
<1> SUFFICES ASSUME TypeOK, Exclusivity, SendsOnlyHeld, [Next]_vars, NEW p \in Profile
             PROVE  ~ ousted'[p] =>
                      /\ run'[p] = "sending" => todo'[p] \subseteq Holds(p)'
                      /\ run'[p] \in {"sending", "fallback"} => plan'[p] \subseteq Holds(p)'
  BY DEF SendsOnlyHeld
<1> DEFINE Goal == ~ ousted'[p] =>
                     /\ run'[p] = "sending" => todo'[p] \subseteq Holds(p)'
                     /\ run'[p] \in {"sending", "fallback"} => plan'[p] \subseteq Holds(p)'
<1>0. ~ ousted[p] =>
        /\ run[p] = "sending" => todo[p] \subseteq Holds(p)
        /\ run[p] \in {"sending", "fallback"} => plan[p] \subseteq Holds(p)
  BY DEF SendsOnlyHeld
<1>1. CASE UNCHANGED row /\ RunKept(p)
  BY <1>1, HeldKept DEF Holds
<1>2. ASSUME NEW q \in Profile, Lead(q) PROVE Goal
  <2>1. CASE q # p
    <3>1. RunKept(p)
      BY <1>2, <2>1 DEF RunKept, Lead, Register, StartLead, Approve, Claim, FallbackGate,
           FallbackAnswer, Send, Complete, Abandon, Ended, TypeOK
    <3>2. CASE Claim(q)
      <4>1. plan[q] \in SUBSET Dealer /\ ClaimAll(q, plan[q])
        BY <3>2 DEF Claim, TypeOK
      <4> QED BY <4>1, <3>1, <2>1, ClaimAllHolds, HeldKept
    <3>3. CASE Register(q)
      <4>1. Holds(p)' = Holds(p)
        BY <3>3 DEF Register, Holds, TypeOK
      <4> QED BY <4>1, <3>1, HeldKept
    <3>4. CASE UNCHANGED row
      BY <3>1, <3>4, <1>1
    <3> QED BY <1>2, <3>2, <3>3, <3>4
            DEF Lead, StartLead, Approve, FallbackGate, FallbackAnswer, Send, Complete, Abandon
  <2>2. CASE q = p
    <3>1. CASE Register(p)
      BY <3>1 DEF Register, TypeOK
    <3>2. CASE StartLead(p)
      BY <3>2 DEF StartLead, TypeOK
    <3>3. ASSUME NEW A \in SUBSET Dealer, Approve(p, A) PROVE Goal
      BY <3>3 DEF Approve, TypeOK
    <3>4. CASE Claim(p)
      <4>1. plan[p] \in SUBSET Dealer /\ ClaimAll(p, plan[p])
        BY <3>4 DEF Claim, TypeOK
      <4>2. Won(p, plan[p]) \subseteq Holds(p)'
        BY <4>1, ClaimAllHolds
      <4> QED BY <3>4, <4>2 DEF Claim, TypeOK
    <3>5. CASE FallbackGate(p)
      BY <1>0, <3>5 DEF FallbackGate, Holds, TypeOK
    <3>6. CASE FallbackAnswer(p)
      BY <1>0, <3>6 DEF FallbackAnswer, Holds, TypeOK
    <3>7. ASSUME NEW d \in Dealer, Send(p, d) PROVE Goal
      <4>1. /\ run'[p] = run[p] /\ plan'[p] = plan[p] /\ ousted'[p] = ousted[p]
            /\ todo'[p] \subseteq todo[p] /\ Holds(p)' = Holds(p)
        BY <3>7 DEF Send, Holds, TypeOK
      <4> QED BY <1>0, <4>1
    <3>8. CASE Complete(p) \/ Abandon(p)
      BY <3>8 DEF Complete, Abandon, Ended, TypeOK
    <3> QED BY <1>2, <2>2, <3>1, <3>2, <3>3, <3>4, <3>5, <3>6, <3>7, <3>8 DEF Lead
  <2> QED BY <2>1, <2>2
<1>3. ASSUME NEW q \in Profile, row' = Released({q}), q # p, RunKept(p) PROVE Goal
  <2>1. Holds(p)' = Holds(p)
    BY <1>3, ReleasedHolds, {q} \in SUBSET Profile
  <2> QED BY <2>1, <1>3, HeldKept
<1>4. ASSUME NEW q \in Profile, Closeout(q) PROVE Goal
  <2>1. CASE q # p
    <3>1. RunKept(p)
      BY <1>4, <2>1 DEF RunKept, Closeout, StartCloseout, ApproveCloseout, Transition,
           Ended, TypeOK
    <3> QED BY <1>1, <1>3, <1>4, <2>1, <3>1
            DEF Closeout, StartCloseout, ApproveCloseout, Transition
  <2>2. CASE q = p
    BY <1>4, <2>2 DEF Closeout, StartCloseout, ApproveCloseout, Transition, Ended, TypeOK
  <2> QED BY <2>1, <2>2
<1>5. ASSUME NEW q \in Profile, Route(q) PROVE Goal
  <2>1. CASE q # p
    <3>1. RunKept(p)
      BY <1>5, <2>1 DEF RunKept, Route, Close, Restore, Purge, TypeOK
    <3>2. CASE Purge(q)
      <4>1. Holds(p)' = Holds(p)
        BY <2>1, <3>2 DEF Purge, Holds, TypeOK
      <4> QED BY <4>1, <3>1, HeldKept
    <3> QED BY <1>1, <1>3, <1>5, <2>1, <3>1, <3>2 DEF Route, Close, Restore
  <2>2. CASE q = p
    <3>1. CASE Restore(p)
      BY <1>1, <3>1 DEF Restore, RunKept
    <3>2. CASE Close(p) \/ Purge(p)
      BY <3>2 DEF Close, Purge, Live, TypeOK
    <3> QED BY <1>5, <2>2, <3>1, <3>2 DEF Route
  <2> QED BY <2>1, <2>2
<1>6. CASE Tick
  BY <1>1, <1>6 DEF Tick, RunKept
<1>7. CASE Crash
  <2>1. /\ run'[p] = run[p] /\ plan'[p] = plan[p] /\ ousted'[p] = ousted[p]
        /\ todo'[p] = {}
    BY <1>7 DEF Crash
  <2>2. run[p] \in {"sending", "fallback"} => Holds(p) \subseteq Holds(p)'
    <3>1. ASSUME NEW q \in Profile, NEW S \in SUBSET plan[q], ClaimAll(q, S)
          PROVE  Holds(p) \subseteq Holds(p)'
      <4>1. S \in SUBSET Dealer
        BY DEF TypeOK
      <4> QED BY <3>1, <4>1, ClaimAllHolds
    <3> QED BY <1>7, <3>1 DEF Crash, Holds
  <2> QED BY <1>0, <2>1, <2>2
<1>8. CASE Boot
  <2>1. PICK days \in 0..(Dormancy + 1), Kept \in SUBSET {q \in Profile : run[q] \in Running} :
          Boot!2!(days, Kept)
    BY <1>8 DEF Boot
  <2>2. CASE run'[p] \in {"sending", "fallback"}
    <3>1. /\ run[p] = run'[p]
          /\ run[p] \in Parked \/ p \in Kept
          /\ plan'[p] = plan[p] /\ ousted'[p] = ousted[p]
          /\ run[p] = "sending" => todo'[p] = plan[p]
      BY <2>1, <2>2 DEF TypeOK
    <3>2. Holds(p)' = Holds(p)
      BY <2>1, <2>2, <3>1, ReleasedHolds DEF Orphaned, Live
    <3>3. ~ ousted[p] => plan[p] \subseteq Holds(p)
      BY <1>0, <2>2, <3>1
    <3> QED BY <3>1, <3>2, <3>3
  <2> QED BY <2>2
<1>9. CASE UNCHANGED vars
  BY <1>1, <1>9 DEF vars, RunKept
<1> QED BY <1>2, <1>4, <1>5, <1>6, <1>7, <1>8, <1>9 DEF Next

\* No run ever contacts, or has in its snapshot to contact later, a dealer its
\* profile does not hold, unless its profile was closed or purged under it.
THEOREM ClaimsSendsHeld == Spec => []SendsOnlyHeld
BY InitType, StepType, InitExclusive, StepExclusive, InitHeld, StepHeld, PTL DEF Spec

----------------------------------------------------------------------------
(* The rows implement the abstract lock *)

\* Under exclusivity the owner of a dealer is the profile whose row is bound.
LEMMA OwnerIs ==
  ASSUME Exclusivity
  PROVE  /\ \A p \in Profile : \A d \in Holds(p) : Owner[d] = p
         /\ \A d \in Dealer : (\A p \in Profile : d \notin Holds(p)) => Owner[d] = Nobody
<1>1. ASSUME NEW p \in Profile, NEW d \in Holds(p) PROVE Owner[d] = p
  <2>1. d \in Dealer /\ \E q \in Profile : d \in Holds(q)
    BY DEF Holds
  <2>2. \A q \in Profile : d \in Holds(q) => q = p
    BY DEF Exclusivity
  <2> QED BY <2>1, <2>2 DEF Owner
<1> QED BY <1>1 DEF Owner

LEMMA OwnerIsNext ==
  ASSUME Exclusivity'
  PROVE  /\ \A p \in Profile : \A d \in Holds(p)' : Owner'[d] = p
         /\ \A d \in Dealer : (\A p \in Profile : d \notin Holds(p)') => Owner'[d] = Nobody
<1>1. ASSUME NEW p \in Profile, NEW d \in Holds(p)' PROVE Owner'[d] = p
  <2>1. d \in Dealer /\ \E q \in Profile : d \in Holds(q)'
    BY DEF Holds
  <2>2. \A q \in Profile : d \in Holds(q)' => q = p
    BY DEF Exclusivity
  <2> QED BY <2>1, <2>2 DEF Owner
<1> QED BY <1>1 DEF Owner

LEMMA InitLock == Init => Lock!Init
BY DEF Init, Lock!Init, Owner, Holds

LEMMA StepLock ==
  ASSUME TypeOK, Exclusivity, Exclusivity', [Next]_vars
  PROVE  [Lock!Next]_Owner
<1>1. ASSUME NEW p \in Profile, NEW S \in SUBSET Dealer, ClaimAll(p, S)
      PROVE  Lock!Acquire(p, Won(p, S))
  <2>1. \A d \in Won(p, S) : Owner[d] \in {p, Nobody}
    <3> TAKE d \in Won(p, S)
    <3>1. \A q \in Profile \ {p} : d \notin Holds(q)
      BY <1>1, ClaimAllHolds
    <3>2. d \in Dealer
      BY DEF Won
    <3> QED BY <3>1, <3>2, OwnerIs
  <2>2. \A d \in Dealer : Owner'[d] = IF d \in Won(p, S) THEN p ELSE Owner[d]
    <3> TAKE d \in Dealer
    <3>1. CASE d \in Won(p, S)
      BY <1>1, <3>1, ClaimAllHolds, OwnerIsNext
    <3>2. CASE d \notin Won(p, S)
      <4>1. \A q \in Profile : d \in Holds(q)' <=> d \in Holds(q)
        BY <1>1, <3>2, ClaimAllHolds
      <4> QED BY <3>2, <4>1, OwnerIs, OwnerIsNext
    <3> QED BY <3>1, <3>2
  <2>3. Owner' = [d \in Dealer |-> Owner'[d]]
    BY DEF Owner
  <2> QED BY <2>1, <2>2, <2>3 DEF Lock!Acquire
<1>2. ASSUME NEW P \in SUBSET Profile, Frees(P) PROVE Lock!Release(P)
  <2>1. \A d \in Dealer : Owner'[d] = IF Owner[d] \in P THEN Nobody ELSE Owner[d]
    <3> TAKE d \in Dealer
    <3>1. CASE \E p \in P : d \in Holds(p)
      <4>1. PICK p \in P : d \in Holds(p)
        BY <3>1
      <4>2. \A q \in Profile : d \notin Holds(q)'
        BY <1>2, <4>1 DEF Frees, Exclusivity
      <4> QED BY <4>1, <4>2, OwnerIs, OwnerIsNext
    <3>2. CASE \A p \in P : d \notin Holds(p)
      <4>1. \A q \in Profile : d \in Holds(q)' <=> d \in Holds(q)
        BY <1>2, <3>2 DEF Frees
      <4>2. Owner[d] \notin P
        <5>1. CASE \E q \in Profile : d \in Holds(q)
          BY <3>2, <5>1, OwnerIs
        <5>2. CASE \A q \in Profile : d \notin Holds(q)
          BY <5>2, OwnerIs, ClaimsAssumption
        <5> QED BY <5>1, <5>2
      <4> QED BY <4>1, <4>2, OwnerIs, OwnerIsNext
    <3> QED BY <3>1, <3>2
  <2>2. Owner' = [d \in Dealer |-> Owner'[d]]
    BY DEF Owner
  <2> QED BY <2>1, <2>2 DEF Lock!Release
<1>3. CASE Keeps
  BY <1>3 DEF Keeps, Owner
<1>4. ASSUME NEW p \in Profile, NEW S \in SUBSET Dealer, ClaimAll(p, S)
      PROVE  Lock!Next
  <2>1. Won(p, S) \in SUBSET Dealer
    BY DEF Won
  <2> QED BY <1>1, <1>4, <2>1 DEF Lock!Next
<1>5. ASSUME NEW P \in SUBSET Profile, Frees(P) PROVE Lock!Next
  BY <1>2, <1>5 DEF Lock!Next
<1> QED BY <1>3, <1>4, <1>5, StepHolds

\* The profile_dealers rows, with every writer of them, implement the lock.
THEOREM ClaimsImplementLock == Spec => LockSpec
<1>1. TypeOK /\ Exclusivity /\ Exclusivity' /\ [Next]_vars => [Lock!Next]_Owner
  BY StepLock
<1> QED
  BY <1>1, InitLock, ClaimsTypeCorrect, ClaimsExclusive, PTL
  DEF Spec, LockSpec, Lock!Spec
=============================================================================
