------------------------ MODULE CorrespondenceProofs ------------------------
(***************************************************************************)
(* For any searches, dealers and bounds: a silent dealer is not pestered   *)
(* (NoPester), every mail is covered by an approval (MailsConsented), the  *)
(* watermark passes no reply in silence (WatermarkHonest) and a search     *)
(* does not write to a dealer it closed out (ClosedOutIsLeftAlone).        *)
(* The first two are inductive only with what a run still owes (Books):    *)
(* the mails of an approved card that are not behind it, and the           *)
(* follow-ups a shown or approved card may still add. The third needs what *)
(* a check has read (Discovered), the fourth what a run may still say to   *)
(* a dealer the search has parted with (PartInv).                          *)
(***************************************************************************)
EXTENDS Correspondence, TLAPS

\* A mail the run of p may still send to d.
Owed(p, d) == IF run[p].at = "send" /\ d \in run[p].agreed \ run[p].done THEN 1 ELSE 0

\* A follow-up row the run of p may still add for d.
Due(p, d) ==
  IF /\ run[p].kind = "follow"
     /\ \/ run[p].at = "review" /\ d \in run[p].shown
        \/ run[p].at = "send" /\ d \in run[p].agreed \ run[p].done /\ run[p].now # d
  THEN 1 ELSE 0

\* A send in flight belongs to an approved dealer of a run in its send step.
Flying(r) == r.now # NoDealer => r.at = "send" /\ r.kind \in {"follow", "close"}
                                /\ r.now \in r.agreed \ r.done

Books(p, d) ==
  /\ gone[p][d] + Owed(p, d) <= consents[p][d] + crashes
  /\ pokes[p][d] + Due(p, d) <= MaxUnanswered + crashes
  /\ pokes[p][d] <= unanswered[d]

IInv ==
  /\ TypeOK
  /\ \A p \in Profiles : Flying(run[p])
  /\ \A p \in Profiles, d \in Dealers : Books(p, d)

USE CorrespondenceAssumption

----------------------------------------------------------------------------
\* What is owed and due is nothing or one.
LEMMA OwedDue ==
  ASSUME NEW p \in Profiles, NEW d \in Dealers
  PROVE  Owed(p, d) \in {0, 1} /\ Due(p, d) \in {0, 1}
BY DEF Owed, Due

LEMMA Initially == Init => IInv
<1> SUFFICES ASSUME Init PROVE IInv
  OBVIOUS
<1>1. Idle \in RunSet /\ Idle.now = NoDealer /\ Idle.at = "begin" /\ Idle.kind = "none"
  BY DEF Idle, Fresh, RunSet, Kinds
<1>2. TypeOK
  BY <1>1 DEF Init, TypeOK, Statuses
<1>3. \A p \in Profiles : Flying(run[p])
  BY <1>1 DEF Init, Flying
<1>4. \A p \in Profiles, d \in Dealers : Books(p, d)
  <2> SUFFICES ASSUME NEW p \in Profiles, NEW d \in Dealers PROVE Books(p, d)
    OBVIOUS
  <2>1. run[p] = Idle
    BY DEF Init
  <2>2. Owed(p, d) = 0 /\ Due(p, d) = 0
    BY <2>1, <1>1 DEF Owed, Due
  <2> QED
    BY <2>2 DEF Init, Books
<1> QED
  BY <1>2, <1>3, <1>4 DEF IInv

\* A step that only replaces the run of p by one that is not sending keeps the
\* books, if what its card shows may be followed up once more.
LEMMA RunReplaced ==
  ASSUME IInv, NEW p \in Profiles, NEW r \in RunSet,
         run' = [run EXCEPT ![p] = r],
         r.now = NoDealer, r.at # "send",
         r.kind = "follow" /\ r.at = "review" =>
           \A d \in r.shown : pokes[p][d] < MaxUnanswered,
         UNCHANGED <<gone, consents, crashes, pokes, unanswered>>
  PROVE  /\ run' \in [Profiles -> RunSet]
         /\ \A q \in Profiles : Flying(run'[q])
         /\ \A q \in Profiles, d \in Dealers : Books(q, d)'
<1>1. run' \in [Profiles -> RunSet] /\ run'[p] = r /\ \A q \in Profiles \ {p} : run'[q] = run[q]
  BY DEF IInv, TypeOK
<1>2. \A q \in Profiles : Flying(run'[q])
  BY <1>1 DEF IInv, Flying
<1>3. ASSUME NEW q \in Profiles, NEW d \in Dealers PROVE Books(q, d)'
  <2>1. Books(q, d) /\ gone[q][d] \in Nat /\ consents[q][d] \in Nat /\ pokes[q][d] \in Nat
        /\ crashes \in Nat /\ unanswered[d] \in Nat
    BY DEF IInv, TypeOK
  <2>2. CASE q # p
    <3>1. Owed(q, d)' = Owed(q, d) /\ Due(q, d)' = Due(q, d)
      BY <2>2, <1>1 DEF Owed, Due
    <3> QED
      BY <3>1, <2>1 DEF Books
  <2>3. CASE q = p
    <3>1. Owed(q, d)' = 0
      BY <2>3, <1>1 DEF Owed
    <3>2. Due(q, d)' \in {0, 1} /\ (Due(q, d)' = 1 => pokes[q][d] < MaxUnanswered)
      BY <2>3, <1>1 DEF Due
    <3> QED
      BY <3>1, <3>2, <2>1, OwedDue DEF Books
  <2> QED
    BY <2>2, <2>3
<1> QED
  BY <1>1, <1>2, <1>3

\* Rows, mails and approvals untouched and no run replaced: the books stay.
LEMMA BooksUntouched ==
  ASSUME IInv, UNCHANGED <<run, gone, consents, crashes, pokes, unanswered>>
  PROVE  /\ \A p \in Profiles : Flying(run'[p])
         /\ \A p \in Profiles, d \in Dealers : Books(p, d)'
BY DEF IInv, Books, Owed, Due, Flying

\* The surroundings: leads, replies, closes and restores.
LEMMA Outside ==
  ASSUME IInv,
         \/ \E p \in Profiles, d \in Dealers : Lead(p, d)
         \/ \E d \in Dealers : DealerWrites(d)
         \/ \E p \in Profiles : CloseSearch(p) \/ Restore(p)
  PROVE  IInv'
<1>1. TypeOK
  BY DEF IInv
<1>2. UNCHANGED <<run, gone, consents, crashes, pokes, unanswered>>
  BY DEF Lead, DealerWrites, CloseSearch, Restore
<1>3. TypeOK'
  <2>1. ASSUME NEW p \in Profiles, NEW d \in Dealers, Lead(p, d) PROVE TypeOK'
    BY <2>1, <1>1 DEF TypeOK, Lead, Statuses
  <2>2. ASSUME NEW d \in Dealers, DealerWrites(d) PROVE TypeOK'
    <3>1. arrived' \in [Dealers -> Nat] /\ fresh' \in [Profiles -> [Dealers -> BOOLEAN]]
      BY <2>2, <1>1 DEF TypeOK, DealerWrites, NewMail
    <3> QED
      BY <3>1, <2>2, <1>1 DEF TypeOK, DealerWrites
  <2>3. ASSUME NEW p \in Profiles, CloseSearch(p) PROVE TypeOK'
    <3>1. Released(rel[p]) \in [Dealers -> Statuses]
      BY <1>1 DEF TypeOK, Released, Statuses
    <3>2. rel' \in [Profiles -> [Dealers -> Statuses]] /\ active' \subseteq Profiles
      BY <3>1, <2>3, <1>1 DEF TypeOK, CloseSearch
    <3> QED
      BY <3>2, <2>3, <1>1 DEF TypeOK, CloseSearch
  <2>4. ASSUME NEW p \in Profiles, Restore(p) PROVE TypeOK'
    BY <2>4, <1>1 DEF TypeOK, Restore
  <2> QED
    BY <2>1, <2>2, <2>3, <2>4
<1> QED
  BY <1>2, <1>3, BooksUntouched DEF IInv

\* Starting a run, the steps before its card, and a decline.
LEMMA BeforeCard ==
  ASSUME IInv, NEW p \in Profiles,
         \/ \E kind \in Kinds : Start(p, kind)
         \/ Discover(p) \/ Select(p) \/ Assemble(p) \/ Decline(p)
  PROVE  IInv'
<1>1. TypeOK /\ run[p] \in RunSet
  BY DEF IInv, TypeOK
<1>2. Idle \in RunSet /\ Idle.now = NoDealer /\ Idle.at = "begin" /\ Idle.kind = "none"
  BY DEF Idle, Fresh, RunSet, Kinds
<1>3. run[p].at = "begin" => run[p].now = NoDealer
  BY DEF IInv, Flying
<1>4. PICK r \in RunSet :
        /\ run' = [run EXCEPT ![p] = r]
        /\ r.now = NoDealer /\ r.at # "send"
        /\ r.kind = "follow" /\ r.at = "review" => r.shown \subseteq Candidates(p)
  <2> DEFINE Good(r) == /\ run' = [run EXCEPT ![p] = r]
                        /\ r.now = NoDealer /\ r.at # "send"
                        /\ r.kind = "follow" /\ r.at = "review" => r.shown \subseteq Candidates(p)
  <2> SUFFICES \E r \in RunSet : Good(r)
    OBVIOUS
  <2>1. ASSUME NEW kind \in Kinds, Start(p, kind)
        PROVE \E r \in RunSet : Good(r)
    <3>1. Fresh(kind) \in RunSet /\ Fresh(kind).now = NoDealer /\ Fresh(kind).at = "begin"
      BY <2>1 DEF Fresh, RunSet, Kinds
    <3> QED
      BY <3>1, <2>1 DEF Start
  <2>2. ASSUME Discover(p)
        PROVE \E r \in RunSet : Good(r)
    <3>1. run[p].at = "begin" /\ run[p].kind = "check"
      BY <2>2 DEF Discover, At
    <3>2. PICK older \in SUBSET {d \in Dealers : arrived[d] > 0} :
            LET hits   == {d \in Dealers : fresh[p][d]} \union older
                groups == Groups(p, hits)
            IN  run' = [run EXCEPT ![p].shown = groups,
                          ![p].seen = [d \in Dealers |->
                             IF d \in hits /\ rel[p][d] # "none" THEN arrived[d] ELSE 0],
                          ![p].at = IF groups = {} /\ Unrouted(p, hits) = {} THEN "apply"
                                                                           ELSE "review"]
      BY <2>2 DEF Discover
    <3> DEFINE hits == {d \in Dealers : fresh[p][d]} \union older
               seen == [d \in Dealers |->
                          IF d \in hits /\ rel[p][d] # "none" THEN arrived[d] ELSE 0]
               step == IF Groups(p, hits) = {} /\ Unrouted(p, hits) = {} THEN "apply" ELSE "review"
               r == [run[p] EXCEPT !.shown = Groups(p, hits), !.seen = seen, !.at = step]
    <3>3. seen \in [Dealers -> Nat] /\ Groups(p, hits) \in SUBSET Dealers
          /\ step \in {"apply", "review"}
      BY <1>1 DEF TypeOK, Groups
    <3>4. run' = [run EXCEPT ![p] = r]
      BY <3>2, <1>1 DEF TypeOK
    <3> HIDE DEF seen, step, hits
    <3>5. r \in RunSet /\ r.now = NoDealer /\ r.at # "send" /\ r.kind = "check"
      BY <3>3, <3>1, <1>1, <1>3 DEF RunSet
    <3> QED
      BY <3>4, <3>5
  <2>3. ASSUME Select(p)
        PROVE \E r \in RunSet : Good(r)
    <3>1. PICK shown \in SUBSET Candidates(p) :
            run' = [run EXCEPT ![p] =
                      IF shown = {} THEN Idle ELSE [@ EXCEPT !.shown = shown, !.at = "review"]]
      BY <2>3 DEF Select
    <3> DEFINE r == IF shown = {} THEN Idle
                      ELSE [run[p] EXCEPT !.shown = shown, !.at = "review"]
    <3>2. run[p].at = "begin" /\ shown \in SUBSET Dealers
      BY <2>3 DEF Select, At, Candidates
    <3>3. r \in RunSet /\ r.now = NoDealer /\ r.at # "send"
          /\ (r.at = "review" => r.shown \subseteq Candidates(p))
      BY <3>2, <1>1, <1>2, <1>3 DEF RunSet
    <3> QED
      BY <3>1, <3>3, <1>1 DEF TypeOK
  <2>4. ASSUME Assemble(p)
        PROVE \E r \in RunSet : Good(r)
    <3> DEFINE r == IF CloseoutTargets(p) = {} THEN Idle
                      ELSE [run[p] EXCEPT !.shown = CloseoutTargets(p), !.at = "review"]
    <3>1. run[p].at = "begin" /\ run[p].kind = "close" /\ CloseoutTargets(p) \in SUBSET Dealers
      BY <2>4 DEF Assemble, At, CloseoutTargets
    <3>2. r \in RunSet /\ r.now = NoDealer /\ r.at # "send" /\ r.kind # "follow"
      BY <3>1, <1>1, <1>2, <1>3 DEF RunSet
    <3>3. run' = [run EXCEPT ![p] = r]
      BY <2>4, <1>1 DEF Assemble, TypeOK
    <3> QED
      BY <3>2, <3>3
  <2>5. ASSUME Decline(p)
        PROVE \E r \in RunSet : Good(r)
    BY <2>5, <1>2 DEF Decline
  <2> QED
    BY <2>1, <2>2, <2>3, <2>4, <2>5
<1>5. /\ UNCHANGED <<active, rel, thread, arrived, filed, unanswered, rounds, farewell>>
      /\ UNCHANGED <<fresh, gone, consents, pokes, crashes>>
      /\ starts' \in {starts, starts + 1}
  BY DEF Start, Discover, Select, Assemble, Decline, Store
<1>6. \A d \in Candidates(p) : pokes[p][d] < MaxUnanswered
  BY <1>1 DEF IInv, TypeOK, Books, Candidates, CapOk
<1>7. /\ run' \in [Profiles -> RunSet]
      /\ \A q \in Profiles : Flying(run'[q])
      /\ \A q \in Profiles, d \in Dealers : Books(q, d)'
  BY <1>4, <1>5, <1>6, RunReplaced
<1>8. TypeOK'
  BY <1>1, <1>5, <1>7 DEF TypeOK
<1> QED
  BY <1>7, <1>8 DEF IInv

\* The two later steps of a check: its transaction clears counters together.
LEMMA CheckWrites ==
  ASSUME IInv, NEW p \in Profiles, Apply(p) \/ AdvanceWatermark(p)
  PROVE  IInv'
<1>1. TypeOK /\ run[p] \in RunSet
  BY DEF IInv, TypeOK
<1>2. run[p].now = NoDealer /\ run[p].kind = "check"
  BY DEF IInv, Flying, Apply, AdvanceWatermark, At
<1>3. CASE AdvanceWatermark(p)
  <2>1. Idle \in RunSet /\ Idle.now = NoDealer /\ Idle.at = "begin" /\ Idle.kind = "none"
    BY DEF Idle, Fresh, RunSet, Kinds
  <2>2. /\ run' = [run EXCEPT ![p] = Idle]
        /\ UNCHANGED <<gone, consents, crashes, pokes, unanswered>>
    BY <1>3 DEF AdvanceWatermark, Store
  <2>3. /\ run' \in [Profiles -> RunSet]
        /\ \A q \in Profiles : Flying(run'[q])
        /\ \A q \in Profiles, d \in Dealers : Books(q, d)'
    BY <2>1, <2>2, RunReplaced
  <2>4. fresh' \in [Profiles -> [Dealers -> BOOLEAN]]
    BY <1>1, <1>3 DEF AdvanceWatermark, TypeOK
  <2>5. TypeOK'
    BY <1>1, <1>3, <2>3, <2>4 DEF AdvanceWatermark, Store, TypeOK
  <2> QED
    BY <2>3, <2>5 DEF IInv
<1>4. CASE Apply(p)
  <2> DEFINE r == [run[p] EXCEPT !.at = "stamp"]
  <2>1. r \in RunSet /\ r.now = NoDealer /\ r.kind = "check" /\ r.at = "stamp"
    BY <1>1, <1>2 DEF RunSet
  <2>2. run' = [run EXCEPT ![p] = r]
    BY <1>1, <1>4 DEF Apply, TypeOK
  <2>3. /\ run' \in [Profiles -> RunSet] /\ run'[p] = r
        /\ \A q \in Profiles \ {p} : run'[q] = run[q]
    BY <2>1, <2>2, <1>1 DEF TypeOK
  <2> HIDE DEF r
  <2>4. /\ filed' \in [Dealers -> Nat]
        /\ thread' \in [Dealers -> [state: {"none", "replied", "negotiating", "closed"},
                                   owner: Profiles \union {Nobody}]]
        /\ unanswered' \in [Dealers -> Nat]
        /\ pokes' \in [Profiles -> [Dealers -> Nat]]
    <3>1. FiledAfter(p) \in [Dealers -> Nat]
      BY <1>1 DEF FiledAfter, TypeOK, RunSet
    <3>2. filed' \in [Dealers -> Nat]
      BY <3>1, <1>4 DEF Apply
    <3>3. unanswered' \in [Dealers -> Nat] /\ pokes' \in [Profiles -> [Dealers -> Nat]]
      BY <1>1, <1>4 DEF Apply, TypeOK
    <3>4. thread' \in [Dealers -> [state: {"none", "replied", "negotiating", "closed"},
                                   owner: Profiles \union {Nobody}]]
      BY <1>1, <1>4 DEF Apply, TypeOK
    <3> QED
      BY <3>2, <3>3, <3>4
  <2>5. UNCHANGED <<active, rel, arrived, rounds, farewell, fresh, gone, consents, starts, crashes>>
    BY <1>4 DEF Apply
  <2>6. \A q \in Profiles : Flying(run'[q])
    BY <2>1, <2>3 DEF IInv, Flying
  <2>7. ASSUME NEW q \in Profiles, NEW d \in Dealers PROVE Books(q, d)'
    <3>1. Books(q, d) /\ gone[q][d] \in Nat /\ consents[q][d] \in Nat /\ pokes[q][d] \in Nat
          /\ crashes \in Nat /\ unanswered[d] \in Nat /\ MaxUnanswered \in Nat
      BY DEF IInv, TypeOK
    <3>2. Owed(q, d)' <= Owed(q, d) /\ Due(q, d)' <= Due(q, d)
      BY <2>1, <2>3, <1>2 DEF Owed, Due
    <3>3. \/ pokes'[q][d] = 0 /\ unanswered'[d] = 0
          \/ pokes'[q][d] = pokes[q][d] /\ unanswered'[d] = unanswered[d]
      BY <1>4 DEF Apply
    <3>4. Due(q, d) \in {0, 1} /\ Owed(q, d) \in {0, 1}
          /\ Due(q, d)' \in {0, 1} /\ Owed(q, d)' \in {0, 1}
      BY DEF Due, Owed
    <3>5. gone'[q][d] = gone[q][d] /\ consents'[q][d] = consents[q][d] /\ crashes' = crashes
      BY <2>5
    <3>6. CASE pokes'[q][d] = 0 /\ unanswered'[d] = 0
      <4>1. Due(q, d)' <= MaxUnanswered + crashes
        BY <3>1, <3>2, <3>4 DEF Books
      <4> QED
        BY <4>1, <3>1, <3>2, <3>4, <3>5, <3>6 DEF Books
    <3>7. CASE pokes'[q][d] = pokes[q][d] /\ unanswered'[d] = unanswered[d]
      BY <3>1, <3>2, <3>4, <3>5, <3>7 DEF Books
    <3> QED
      BY <3>3, <3>6, <3>7
  <2>8. TypeOK'
    BY <1>1, <2>3, <2>4, <2>5 DEF TypeOK
  <2> QED
    BY <2>6, <2>7, <2>8 DEF IInv
<1> QED
  BY <1>3, <1>4

\* An approval books one mail for each approved dealer of the card.
LEMMA Approved ==
  ASSUME IInv, NEW p \in Profiles, NEW agreed \in SUBSET Dealers, Approve(p, agreed)
  PROVE  IInv'
<1>1. TypeOK /\ run[p] \in RunSet /\ run[p].now = NoDealer
      /\ run[p].at = "review" /\ agreed \subseteq run[p].shown
  BY DEF IInv, TypeOK, Flying, Approve
<1> DEFINE r == IF agreed = {} /\ run[p].kind # "check" THEN Idle
                  ELSE [run[p] EXCEPT !.agreed = agreed, !.redo = FALSE,
                                      !.at = AfterApproval(run[p].kind)]
<1>2. Idle \in RunSet /\ Idle.now = NoDealer /\ Idle.at = "begin" /\ Idle.kind = "none"
  BY DEF Idle, Fresh, RunSet, Kinds
<1>3. /\ r \in RunSet /\ r.now = NoDealer
      /\ r.at = "send" => r.kind = run[p].kind /\ r.agreed = agreed /\ r.kind # "check"
      /\ r.at # "review"
  BY <1>1, <1>2 DEF RunSet, AfterApproval
<1>4. run' = [run EXCEPT ![p] = r]
  BY <1>1 DEF Approve, TypeOK
<1>5. /\ run' \in [Profiles -> RunSet] /\ run'[p] = r
      /\ \A q \in Profiles \ {p} : run'[q] = run[q]
  BY <1>3, <1>4, <1>1 DEF TypeOK
<1> HIDE DEF r
<1>6. UNCHANGED <<active, rel, thread, arrived, filed, unanswered, rounds, farewell, gone,
                  pokes, fresh, starts, crashes>>
  BY DEF Approve, Store
<1>7. consents' \in [Profiles -> [Dealers -> Nat]]
  BY <1>1 DEF Approve, TypeOK
<1>8. \A q \in Profiles : Flying(run'[q])
  BY <1>3, <1>5 DEF IInv, Flying
<1>9. ASSUME NEW q \in Profiles, NEW d \in Dealers PROVE Books(q, d)'
  <2>1. Books(q, d) /\ gone[q][d] \in Nat /\ consents[q][d] \in Nat /\ pokes[q][d] \in Nat
        /\ crashes \in Nat /\ unanswered[d] \in Nat /\ MaxUnanswered \in Nat
        /\ consents'[q][d] \in Nat
    BY <1>7 DEF IInv, TypeOK
  <2>2. Due(q, d) \in {0, 1} /\ Owed(q, d) \in {0, 1}
        /\ Due(q, d)' \in {0, 1} /\ Owed(q, d)' \in {0, 1}
    BY DEF Due, Owed
  <2>3. CASE q # p
    <3>1. Owed(q, d)' = Owed(q, d) /\ Due(q, d)' = Due(q, d)
      BY <2>3, <1>5 DEF Owed, Due
    <3>2. consents'[q][d] = consents[q][d]
      BY <2>3, <1>1 DEF Approve, TypeOK
    <3> QED
      BY <3>1, <3>2, <2>1, <1>6 DEF Books
  <2>4. CASE q = p
    <3>1. Due(q, d)' <= Due(q, d)
      BY <2>4, <1>1, <1>3, <1>5 DEF Due
    <3>2. Owed(q, d) = 0
      BY <2>4, <1>1 DEF Owed
    <3>3. consents'[q][d] >= consents[q][d] + Owed(q, d)'
      <4>1. CASE Owed(q, d)' = 1
        <5>1. d \in agreed /\ run[p].kind # "check"
          BY <4>1, <2>4, <1>3, <1>5 DEF Owed
        <5> QED
          BY <5>1, <4>1, <2>1, <2>4, <1>1 DEF Approve, TypeOK
      <4>2. CASE Owed(q, d)' = 0
        <5>1. consents'[q][d] \in {consents[q][d], consents[q][d] + 1}
          BY <2>4, <1>1 DEF Approve, TypeOK
        <5> QED
          BY <5>1, <4>2, <2>1
      <4> QED
        BY <4>1, <4>2, <2>2
    <3> QED
      BY <3>1, <3>2, <3>3, <2>1, <2>2, <1>6 DEF Books
  <2> QED
    BY <2>3, <2>4
<1>10. TypeOK'
  BY <1>1, <1>5, <1>6, <1>7 DEF TypeOK
<1> QED
  BY <1>8, <1>9, <1>10 DEF IInv

\* A draft row uses up what was due.
LEMMA Drafted ==
  ASSUME IInv, NEW p \in Profiles, NEW e \in Dealers, Draft(p, e)
  PROVE  IInv'
<1>1. TypeOK /\ run[p] \in RunSet /\ run[p].kind \in {"follow", "close"} /\ run[p].at = "send"
      /\ run[p].now = NoDealer /\ e \in run[p].agreed \ run[p].done
  BY DEF IInv, TypeOK, Draft
<1> DEFINE r == [run[p] EXCEPT !.now = e]
<1>2. r \in RunSet /\ r.now = e /\ r.at = "send" /\ r.kind = run[p].kind
      /\ r.agreed = run[p].agreed /\ r.done = run[p].done
  BY <1>1 DEF RunSet
<1>3. run' = [run EXCEPT ![p] = r]
  BY <1>1 DEF Draft, TypeOK
<1>4. /\ run' \in [Profiles -> RunSet] /\ run'[p] = r
      /\ \A q \in Profiles \ {p} : run'[q] = run[q]
  BY <1>2, <1>3, <1>1 DEF TypeOK
<1> HIDE DEF r
<1>5. UNCHANGED <<active, rel, thread, arrived, filed, farewell, fresh, gone, consents,
                  starts, crashes>>
  BY DEF Draft
<1>6. /\ unanswered' = [unanswered EXCEPT ![e] = @ + 1]
      /\ rounds' = [rounds EXCEPT ![e] = @ + 1]
      /\ pokes' = IF run[p].kind = "follow" THEN [pokes EXCEPT ![p][e] = @ + 1] ELSE pokes
  BY DEF Draft
<1>7. unanswered' \in [Dealers -> Nat] /\ rounds' \in [Dealers -> Nat]
      /\ pokes' \in [Profiles -> [Dealers -> Nat]]
  BY <1>1, <1>6 DEF TypeOK
<1>8. \A q \in Profiles : Flying(run'[q])
  BY <1>1, <1>2, <1>4 DEF IInv, Flying
<1>9. ASSUME NEW q \in Profiles, NEW d \in Dealers PROVE Books(q, d)'
  <2>1. Books(q, d) /\ gone[q][d] \in Nat /\ consents[q][d] \in Nat /\ pokes[q][d] \in Nat
        /\ crashes \in Nat /\ unanswered[d] \in Nat /\ MaxUnanswered \in Nat
    BY DEF IInv, TypeOK
  <2>2. Due(q, d) \in {0, 1} /\ Owed(q, d) \in {0, 1}
        /\ Due(q, d)' \in {0, 1} /\ Owed(q, d)' \in {0, 1}
    BY DEF Due, Owed
  <2>3. Owed(q, d)' = Owed(q, d)
    BY <1>1, <1>2, <1>4 DEF Owed
  <2>4. CASE q = p /\ d = e /\ run[p].kind = "follow"
    <3>1. Due(q, d) = 1 /\ Due(q, d)' = 0
      BY <2>4, <1>1, <1>2, <1>4 DEF Due
    <3>2. pokes'[q][d] = pokes[q][d] + 1 /\ unanswered'[d] = unanswered[d] + 1
      BY <2>4, <1>1, <1>6 DEF TypeOK
    <3> QED
      BY <3>1, <3>2, <2>1, <2>2, <2>3, <1>5 DEF Books
  <2>5. CASE ~(q = p /\ d = e /\ run[p].kind = "follow")
    <3>1. Due(q, d)' <= Due(q, d)
      BY <2>5, <1>1, <1>2, <1>4 DEF Due
    <3>2. pokes'[q][d] = pokes[q][d]
      BY <2>5, <1>1, <1>6 DEF TypeOK
    <3>3. unanswered'[d] \in {unanswered[d], unanswered[d] + 1}
      BY <1>1, <1>6 DEF TypeOK
    <3> QED
      BY <3>1, <3>2, <3>3, <2>1, <2>2, <2>3, <1>5 DEF Books
  <2> QED
    BY <2>4, <2>5
<1>10. TypeOK'
  BY <1>1, <1>4, <1>5, <1>7 DEF TypeOK
<1> QED
  BY <1>8, <1>9, <1>10 DEF IInv

\* The outcome of a send: the mail that left was owed, and is owed no more.
LEMMA Outcome ==
  ASSUME IInv, NEW p \in Profiles, Sent(p) \/ \E left \in BOOLEAN : Partial(p, left)
  PROVE  IInv'
<1> DEFINE e == run[p].now
<1>1. TypeOK /\ run[p] \in RunSet /\ e \in Dealers /\ e # NoDealer /\ run[p].at = "send"
      /\ run[p].kind \in {"follow", "close"} /\ e \in run[p].agreed \ run[p].done
  <2>1. e # NoDealer
    BY DEF Sent, Partial
  <2>2. TypeOK /\ run[p] \in RunSet /\ Flying(run[p])
    BY DEF IInv, TypeOK
  <2> QED
    BY <2>1, <2>2 DEF RunSet, Flying
<1>2. PICK r \in RunSet :
        /\ run' = [run EXCEPT ![p] = r]
        /\ r.now = NoDealer /\ r.at \in {"send", "confirm"} /\ r.kind = run[p].kind
        /\ r.agreed = run[p].agreed
        /\ r.at = "send" => r.done = run[p].done \union {e}
  <2>1. CASE SendDone(p, e, TRUE)
    <3> DEFINE r == [run[p] EXCEPT !.done = @ \union {e}, !.now = NoDealer,
                       !.at = IF run[p].agreed # run[p].done \union {e} THEN "send" ELSE "confirm"]
    <3>1. r \in RunSet /\ r.now = NoDealer /\ r.at \in {"send", "confirm"} /\ r.kind = run[p].kind
          /\ r.agreed = run[p].agreed /\ r.done = run[p].done \union {e}
      BY <1>1 DEF RunSet
    <3>2. run' = [run EXCEPT ![p] = r]
      BY <2>1, <1>1 DEF SendDone, TypeOK
    <3> QED
      BY <3>1, <3>2
  <2>2. CASE run' = [run EXCEPT ![p].now = NoDealer, ![p].at = "confirm"]
    <3> DEFINE r == [run[p] EXCEPT !.now = NoDealer, !.at = "confirm"]
    <3>1. r \in RunSet /\ r.now = NoDealer /\ r.at = "confirm" /\ r.kind = run[p].kind
          /\ r.agreed = run[p].agreed
      BY <1>1 DEF RunSet
    <3>2. run' = [run EXCEPT ![p] = r]
      BY <2>2, <1>1 DEF TypeOK
    <3> QED
      BY <3>1, <3>2
  <2> QED
    BY <2>1, <2>2 DEF Sent, Partial
<1>3. /\ run' \in [Profiles -> RunSet] /\ run'[p] = r
      /\ \A q \in Profiles \ {p} : run'[q] = run[q]
  BY <1>2, <1>1 DEF TypeOK
<1>4. /\ UNCHANGED <<active, rel, arrived, filed, unanswered, rounds, consents, pokes>>
      /\ UNCHANGED <<starts, crashes>>
  BY DEF Sent, Partial
<1>5. gone' = [gone EXCEPT ![p][e] = @ + 1] \/ gone' = gone
  <2>1. CASE Sent(p)
    BY <2>1 DEF Sent
  <2>2. ASSUME NEW left \in BOOLEAN, Partial(p, left)
        PROVE  gone' = [gone EXCEPT ![p][e] = @ + 1] \/ gone' = gone
    BY <2>2 DEF Partial
  <2> QED
    BY <2>1, <2>2
<1>6. gone' \in [Profiles -> [Dealers -> Nat]]
  <2>1. gone \in [Profiles -> [Dealers -> Nat]] /\ gone[p][e] + 1 \in Nat
    BY <1>1 DEF TypeOK
  <2>2. [gone EXCEPT ![p][e] = @ + 1] \in [Profiles -> [Dealers -> Nat]]
    BY <2>1, <1>1
  <2> QED
    BY <2>1, <2>2, <1>5
<1>7. fresh' \in [Profiles -> [Dealers -> BOOLEAN]]
  <2>1. NewMail(e) \/ fresh' = fresh
    BY DEF Sent, Partial
  <2>2. ASSUME NewMail(e) PROVE fresh' \in [Profiles -> [Dealers -> BOOLEAN]]
    <3>1. \A q \in Profiles : [fresh[q] EXCEPT ![e] = TRUE] \in [Dealers -> BOOLEAN]
      BY <1>1 DEF TypeOK
    <3> QED
      BY <3>1, <2>2 DEF NewMail
  <2> QED
    BY <2>1, <2>2, <1>1 DEF TypeOK
<1>8. /\ thread' \in [Dealers -> [state: {"none", "replied", "negotiating", "closed"},
                                 owner: Profiles \union {Nobody}]]
      /\ farewell' \subseteq Profiles \X Dealers
  <2>1. CASE Closed(p, e)
    <3> DEFINE row == [thread[e] EXCEPT !.state = "closed"]
    <3>1. row \in [state: {"none", "replied", "negotiating", "closed"},
                    owner: Profiles \union {Nobody}]
      <4>1. thread[e] \in [state: {"none", "replied", "negotiating", "closed"},
                          owner: Profiles \union {Nobody}]
        BY <1>1 DEF TypeOK
      <4> QED
        BY <4>1
    <3>2. thread' = [thread EXCEPT ![e] = row]
      BY <2>1, <1>1 DEF Closed, TypeOK
    <3> HIDE DEF row
    <3>3. farewell' \subseteq Profiles \X Dealers
      BY <2>1, <1>1 DEF Closed, TypeOK
    <3> QED
      BY <3>1, <3>2, <3>3, <1>1 DEF TypeOK
  <2>2. CASE KeepOpen
    BY <2>2, <1>1 DEF KeepOpen, TypeOK
  <2> QED
    BY <2>1, <2>2 DEF Sent, Partial
<1>9. \A q \in Profiles : Flying(run'[q])
  BY <1>2, <1>3 DEF IInv, Flying
<1>10. ASSUME NEW q \in Profiles, NEW d \in Dealers PROVE Books(q, d)'
  <2>1. Books(q, d) /\ gone[q][d] \in Nat /\ consents[q][d] \in Nat /\ pokes[q][d] \in Nat
        /\ crashes \in Nat /\ unanswered[d] \in Nat /\ MaxUnanswered \in Nat
    BY DEF IInv, TypeOK
  <2>2. Due(q, d) \in {0, 1} /\ Owed(q, d) \in {0, 1}
        /\ Due(q, d)' \in {0, 1} /\ Owed(q, d)' \in {0, 1}
    BY DEF Due, Owed
  <2>3. Due(q, d)' <= Due(q, d)
    <3>1. CASE q # p
      BY <3>1, <1>3 DEF Due
    <3>2. CASE q = p /\ d = e
      BY <3>2, <1>2, <1>3, <2>2 DEF Due
    <3>3. CASE q = p /\ d # e
      BY <3>3, <1>1, <1>2, <1>3, <2>2 DEF Due
    <3> QED
      BY <3>1, <3>2, <3>3
  <2>4. gone'[q][d] + Owed(q, d)' <= gone[q][d] + Owed(q, d)
    <3>1. CASE q # p
      <4>1. Owed(q, d)' = Owed(q, d)
        BY <3>1, <1>3 DEF Owed
      <4>2. gone'[q][d] = gone[q][d]
        BY <3>1, <1>5, <1>1 DEF TypeOK
      <4> QED
        BY <4>1, <4>2, <2>1, <2>2
    <3>2. CASE q = p /\ d = e
      <4>1. Owed(q, d) = 1 /\ Owed(q, d)' = 0
        BY <3>2, <1>1, <1>2, <1>3 DEF Owed
      <4>2. gone'[q][d] \in {gone[q][d], gone[q][d] + 1}
        BY <3>2, <1>5, <1>1 DEF TypeOK
      <4> QED
        BY <4>1, <4>2, <2>1
    <3>3. CASE q = p /\ d # e
      <4>1. Owed(q, d)' <= Owed(q, d)
        BY <3>3, <1>1, <1>2, <1>3, <2>2 DEF Owed
      <4>2. gone'[q][d] = gone[q][d]
        BY <3>3, <1>5, <1>1 DEF TypeOK
      <4> QED
        BY <4>1, <4>2, <2>1, <2>2
    <3> QED
      BY <3>1, <3>2, <3>3
  <2>5. gone'[q][d] \in Nat
    BY <1>6
  <2> QED
    BY <2>1, <2>2, <2>3, <2>4, <2>5, <1>4 DEF Books
<1>11. TypeOK'
  BY <1>1, <1>3, <1>4, <1>6, <1>7, <1>8 DEF TypeOK
<1> QED
  BY <1>9, <1>10, <1>11 DEF IInv

\* The last step of a follow-up and of a closeout ends the run.
LEMMA Ended ==
  ASSUME IInv, NEW p \in Profiles, ConfirmFollowup(p) \/ Transition(p)
  PROVE  IInv'
<1>1. TypeOK
  BY DEF IInv
<1>2. Idle \in RunSet /\ Idle.now = NoDealer /\ Idle.at = "begin" /\ Idle.kind = "none"
  BY DEF Idle, Fresh, RunSet, Kinds
<1>3. /\ run' = [run EXCEPT ![p] = Idle]
      /\ UNCHANGED <<gone, consents, crashes, pokes, unanswered>>
      /\ UNCHANGED <<arrived, filed, rounds, farewell, fresh, starts>>
  BY DEF ConfirmFollowup, Transition
<1>4. /\ run' \in [Profiles -> RunSet]
      /\ \A q \in Profiles : Flying(run'[q])
      /\ \A q \in Profiles, d \in Dealers : Books(q, d)'
  BY <1>2, <1>3, RunReplaced
<1>5. CASE ConfirmFollowup(p)
  <2>1. \A d \in Dealers : [thread[d] EXCEPT !.state = "negotiating"] \in
          [state: {"none", "replied", "negotiating", "closed"}, owner: Profiles \union {Nobody}]
    <3> SUFFICES ASSUME NEW d \in Dealers
                 PROVE  [thread[d] EXCEPT !.state = "negotiating"] \in
          [state: {"none", "replied", "negotiating", "closed"}, owner: Profiles \union {Nobody}]
      OBVIOUS
    <3>1. thread[d] \in [state: {"none", "replied", "negotiating", "closed"},
                        owner: Profiles \union {Nobody}]
      BY <1>1 DEF TypeOK
    <3> QED
      BY <3>1
  <2>2. thread' \in [Dealers -> [state: {"none", "replied", "negotiating", "closed"},
                                owner: Profiles \union {Nobody}]]
    BY <2>1, <1>1, <1>5 DEF ConfirmFollowup, TypeOK
  <2>3. TypeOK'
    BY <2>2, <1>1, <1>3, <1>4, <1>5 DEF ConfirmFollowup, TypeOK
  <2> QED
    BY <2>3, <1>4 DEF IInv
<1>6. CASE Transition(p)
  <2>1. Released(rel[p]) \in [Dealers -> Statuses]
    BY <1>1 DEF TypeOK, Released, Statuses
  <2>2. rel' \in [Profiles -> [Dealers -> Statuses]] /\ active' \subseteq Profiles
    BY <2>1, <1>6, <1>1 DEF TypeOK, Transition
  <2>3. TypeOK'
    BY <2>2, <1>1, <1>3, <1>4, <1>6 DEF Transition, TypeOK
  <2> QED
    BY <2>3, <1>4 DEF IInv
<1> QED
  BY <1>5, <1>6

\* A crash may repeat each owed mail once, and is counted once.
LEMMA Crashed == IInv /\ Crash => IInv'
<1> SUFFICES ASSUME IInv, Crash PROVE IInv'
  OBVIOUS
<1>1. TypeOK
  BY DEF IInv
<1>2. PICK left \in SUBSET InFlight, kept \in SUBSET Profiles :
        /\ gone' = [p \in Profiles |-> [d \in Dealers |->
                      IF p \in left /\ run[p].now = d THEN gone[p][d] + 1 ELSE gone[p][d]]]
        /\ fresh' = [p \in Profiles |-> [d \in Dealers |->
                      fresh[p][d] \/ \E q \in left : run[q].now = d]]
        /\ run' = [p \in Profiles |-> AfterBoot(run[p], p \in kept)]
  BY DEF Crash
<1>3. crashes' = crashes + 1
      /\ UNCHANGED <<active, rel, thread, arrived, filed, unanswered, rounds>>
      /\ UNCHANGED <<farewell, consents, pokes, starts>>
  BY DEF Crash
<1>4. Idle \in RunSet /\ Idle.now = NoDealer /\ Idle.at = "begin" /\ Idle.kind = "none"
  BY DEF Idle, Fresh, RunSet, Kinds
<1>5. ASSUME NEW p \in Profiles
      PROVE  /\ run'[p] \in RunSet /\ Flying(run'[p])
             /\ run'[p].at = "review" => run'[p] = run[p]
  <2>1. run[p] \in RunSet /\ Flying(run[p]) /\ run'[p] = AfterBoot(run[p], p \in kept)
    BY <1>1, <1>2 DEF IInv, TypeOK
  <2>2. CASE run[p].kind = "none" \/ run[p].at = "review"
    BY <2>1, <2>2 DEF AfterBoot
  <2>3. CASE run[p].kind # "none" /\ run[p].at # "review" /\ p \in kept
    <3>1. run'[p] = Restarted(run[p])
      BY <2>1, <2>3 DEF AfterBoot
    <3>2. Restarted(run[p]) \in RunSet /\ Restarted(run[p]).now = NoDealer
          /\ Restarted(run[p]).at = run[p].at
      BY <2>1 DEF Restarted, RunSet
    <3> QED
      BY <3>1, <3>2, <2>3 DEF Flying
  <2>4. CASE run[p].kind # "none" /\ run[p].at # "review" /\ p \notin kept
    BY <2>1, <2>4, <1>4 DEF AfterBoot, Flying
  <2> QED
    BY <2>2, <2>3, <2>4
<1>6. /\ run' \in [Profiles -> RunSet] /\ gone' \in [Profiles -> [Dealers -> Nat]]
      /\ fresh' \in [Profiles -> [Dealers -> BOOLEAN]]
  <2>1. run' \in [Profiles -> RunSet]
    BY <1>2, <1>5
  <2>2. gone' \in [Profiles -> [Dealers -> Nat]]
    BY <1>1, <1>2 DEF TypeOK
  <2>3. fresh' \in [Profiles -> [Dealers -> BOOLEAN]]
    BY <1>1, <1>2 DEF TypeOK
  <2> QED
    BY <2>1, <2>2, <2>3
<1>7. ASSUME NEW q \in Profiles, NEW d \in Dealers PROVE Books(q, d)'
  <2>1. Books(q, d) /\ gone[q][d] \in Nat /\ consents[q][d] \in Nat /\ pokes[q][d] \in Nat
        /\ crashes \in Nat /\ unanswered[d] \in Nat /\ MaxUnanswered \in Nat
    BY DEF IInv, TypeOK
  <2>2. Due(q, d) \in {0, 1} /\ Owed(q, d) \in {0, 1}
        /\ Due(q, d)' \in {0, 1} /\ Owed(q, d)' \in {0, 1}
    BY DEF Due, Owed
  <2>3. gone'[q][d] \in Nat /\ gone'[q][d] <= gone[q][d] + Owed(q, d)
    <3>1. CASE q \in left /\ run[q].now = d
      <4>1. run[q].at = "send" /\ d \in run[q].agreed \ run[q].done
        BY <3>1 DEF IInv, Flying, InFlight
      <4>2. Owed(q, d) = 1
        BY <4>1 DEF Owed
      <4> QED
        BY <4>2, <3>1, <1>2, <2>1
    <3>2. CASE ~(q \in left /\ run[q].now = d)
      BY <3>2, <1>2, <2>1, <2>2
    <3> QED
      BY <3>1, <3>2
  <2> QED
    BY <2>1, <2>2, <2>3, <1>3 DEF Books
<1>8. TypeOK'
  BY <1>1, <1>3, <1>6 DEF TypeOK
<1> QED
  BY <1>5, <1>7, <1>8 DEF IInv

LEMMA Stutter == IInv /\ UNCHANGED vars => IInv'
<1> SUFFICES ASSUME IInv, UNCHANGED vars PROVE IInv'
  OBVIOUS
<1>1. TypeOK'
  BY DEF IInv, TypeOK, vars
<1> QED
  BY <1>1, BooksUntouched DEF vars, IInv

LEMMA Step == IInv /\ [Next]_vars => IInv'
BY Outside, BeforeCard, CheckWrites, Approved, Drafted, Outcome, Ended, Crashed, Stutter
   DEF Next

----------------------------------------------------------------------------
\* The books are kept in every reachable state.
THEOREM BooksKept == Spec => []IInv
<1>1. Init => IInv
  BY Initially
<1>2. IInv /\ [Next]_vars => IInv'
  BY Step
<1> QED
  BY <1>1, <1>2, PTL DEF Spec

\* Every table row and run keeps its shape, for any searches and dealers.
THEOREM CorrespondenceTypeOK == Spec => []TypeOK
<1>1. IInv => TypeOK
  BY DEF IInv
<1> QED
  BY <1>1, BooksKept, PTL

\* followupCapDecision holds across parked cards, closes, checks and crashes: a
\* silent dealer hears at most MaxUnanswered follow-ups from a search, and one
\* more for each crash.
THEOREM SilenceRespected == Spec => []NoPester
<1>1. IInv => NoPester
  <2> SUFFICES ASSUME IInv, NEW p \in Profiles, NEW d \in Dealers
               PROVE  pokes[p][d] <= MaxUnanswered + crashes
    BY DEF NoPester
  <2>1. Books(p, d) /\ pokes[p][d] \in Nat /\ crashes \in Nat /\ MaxUnanswered \in Nat
    BY DEF IInv, TypeOK
  <2> QED
    BY <2>1, OwedDue DEF Books
<1> QED
  BY <1>1, BooksKept, PTL

\* sendRecord and closeAndSuppressDealer: a mail needs an approval that named its
\* dealer, and no approval is spent twice except by a crash.
THEOREM MailsCovered == Spec => []MailsConsented
<1>1. IInv => MailsConsented
  <2> SUFFICES ASSUME IInv, NEW p \in Profiles, NEW d \in Dealers
               PROVE  gone[p][d] <= consents[p][d] + crashes
    BY DEF MailsConsented
  <2>1. Books(p, d) /\ gone[p][d] \in Nat /\ consents[p][d] \in Nat /\ crashes \in Nat
    BY DEF IInv, TypeOK
  <2> QED
    BY <2>1, OwedDue DEF Books
<1> QED
  BY <1>1, BooksKept, PTL

----------------------------------------------------------------------------
(* What every step leaves in place *)

\* A step of the run of p, other than by the death of the process.
OwnStep(p) ==
  \/ \E kind \in Kinds : Start(p, kind)
  \/ Discover(p) \/ Apply(p) \/ AdvanceWatermark(p)
  \/ Select(p) \/ Assemble(p) \/ Decline(p)
  \/ \E agreed \in SUBSET Dealers : Approve(p, agreed)
  \/ \E d \in Dealers : Draft(p, d)
  \/ Sent(p) \/ \E left \in BOOLEAN : Partial(p, left)
  \/ ConfirmFollowup(p) \/ Transition(p)

LEMMA WhoSteps ==
  ASSUME IInv, [Next]_vars
  PROVE  \/ \E p \in Profiles : OwnStep(p) /\ \A q \in Profiles \ {p} : run'[q] = run[q]
         \/ Crash
         \/ UNCHANGED <<run, thread, filed, farewell, gone>>
<1>1. ASSUME NEW p \in Profiles, OwnStep(p)
      PROVE  \A q \in Profiles \ {p} : run'[q] = run[q]
  <2>1. ASSUME \E d \in Dealers : Draft(p, d)
        PROVE  \A q \in Profiles \ {p} : run'[q] = run[q]
    BY <2>1 DEF Draft, IInv, TypeOK
  <2>2. ASSUME Start(p, "check") \/ Start(p, "follow") \/ Start(p, "close")
        PROVE  \A q \in Profiles \ {p} : run'[q] = run[q]
    BY <2>2 DEF Start, IInv, TypeOK
  <2>3. ASSUME Discover(p) \/ Apply(p) \/ AdvanceWatermark(p) \/ Select(p) \/ Assemble(p)
        PROVE  \A q \in Profiles \ {p} : run'[q] = run[q]
    BY <2>3 DEF Discover, Apply, AdvanceWatermark, Select, Assemble, IInv, TypeOK
  <2>4. ASSUME Decline(p) \/ \E agreed \in SUBSET Dealers : Approve(p, agreed)
        PROVE  \A q \in Profiles \ {p} : run'[q] = run[q]
    BY <2>4 DEF Decline, Approve, IInv, TypeOK
  <2>5. ASSUME Sent(p) \/ \E left \in BOOLEAN : Partial(p, left)
        PROVE  \A q \in Profiles \ {p} : run'[q] = run[q]
    BY <2>5 DEF Sent, Partial, SendDone, IInv, TypeOK
  <2>6. ASSUME ConfirmFollowup(p) \/ Transition(p)
        PROVE  \A q \in Profiles \ {p} : run'[q] = run[q]
    BY <2>6 DEF ConfirmFollowup, Transition, IInv, TypeOK
  <2> QED BY <1>1, <2>1, <2>2, <2>3, <2>4, <2>5, <2>6 DEF OwnStep, Kinds
<1>2. ASSUME NEW p \in Profiles, NEW d \in Dealers, Lead(p, d)
      PROVE  UNCHANGED <<run, thread, filed, farewell, gone>>
  BY <1>2 DEF Lead
<1>3. ASSUME NEW d \in Dealers, DealerWrites(d)
      PROVE  UNCHANGED <<run, thread, filed, farewell, gone>>
  BY <1>3 DEF DealerWrites
<1>4. ASSUME NEW p \in Profiles, CloseSearch(p) \/ Restore(p)
      PROVE  UNCHANGED <<run, thread, filed, farewell, gone>>
  BY <1>4 DEF CloseSearch, Restore
<1>5. CASE UNCHANGED vars
  BY <1>5 DEF vars
<1> QED BY <1>1, <1>2, <1>3, <1>4, <1>5 DEF Next, OwnStep

\* Filed replies, farewells and mails that left are never taken back.
LEMMA NothingTakenBack ==
  ASSUME IInv, [Next]_vars
  PROVE  /\ \A d \in Dealers : filed'[d] >= filed[d]
         /\ farewell \subseteq farewell'
         /\ \A p \in Profiles, d \in Dealers : gone'[p][d] >= gone[p][d]
<1>0. /\ filed \in [Dealers -> Nat] /\ filed' \in [Dealers -> Nat]
      /\ gone \in [Profiles -> [Dealers -> Nat]] /\ run \in [Profiles -> RunSet]
  BY Step DEF IInv, TypeOK
<1>1. CASE UNCHANGED <<run, thread, filed, farewell, gone>>
  BY <1>0, <1>1
<1>2. CASE Crash
  <2>1. PICK left \in SUBSET InFlight :
          gone' = [p \in Profiles |-> [d \in Dealers |->
                     IF p \in left /\ run[p].now = d THEN gone[p][d] + 1 ELSE gone[p][d]]]
    BY <1>2 DEF Crash
  <2> QED BY <1>0, <1>2, <2>1 DEF Crash
<1>3. ASSUME NEW p \in Profiles, OwnStep(p)
      PROVE  /\ \A d \in Dealers : filed'[d] >= filed[d]
             /\ farewell \subseteq farewell'
             /\ \A q \in Profiles, d \in Dealers : gone'[q][d] >= gone[q][d]
  <2>1. CASE Apply(p)
    <3>1. filed' = FiledAfter(p) /\ run[p].seen \in [Dealers -> Nat]
      BY <2>1, <1>0 DEF Apply, RunSet
    <3>2. \A d \in Dealers : FiledAfter(p)[d] >= filed[d]
      BY <3>1, <1>0 DEF FiledAfter
    <3> QED BY <3>1, <3>2, <2>1, <1>0 DEF Apply
  <2>2. CASE Sent(p) \/ \E left \in BOOLEAN : Partial(p, left)
    <3>1. gone' = gone \/ gone' = [gone EXCEPT ![p][run[p].now] = @ + 1]
      BY <2>2 DEF Sent, Partial
    <3>2. \A q \in Profiles, d \in Dealers : gone'[q][d] >= gone[q][d]
      BY <3>1, <1>0
    <3>3. UNCHANGED filed /\ farewell \subseteq farewell'
      BY <2>2 DEF Sent, Partial, Closed, KeepOpen
    <3> QED BY <3>2, <3>3, <1>0
  <2>3. CASE UNCHANGED <<filed, farewell, gone>>
    BY <2>3, <1>0
  <2> QED
    BY <1>3, <2>1, <2>2, <2>3 DEF OwnStep, Start, Discover, AdvanceWatermark, Select, Assemble,
       Decline, Approve, Draft, ConfirmFollowup, Transition, Store
<1> QED BY <1>1, <1>2, <1>3, WhoSteps

----------------------------------------------------------------------------
(* The watermark *)

\* What a discovery makes of the run, whatever its search hits.
LEMMA Discovery ==
  ASSUME NEW p \in Profiles, Discover(p)
  PROVE  \E hits \in SUBSET Dealers :
           run' = [run EXCEPT ![p].shown = Groups(p, hits),
                     ![p].seen = [d \in Dealers |->
                        IF d \in hits /\ rel[p][d] # "none" THEN arrived[d] ELSE 0],
                     ![p].at = IF Groups(p, hits) = {} /\ Unrouted(p, hits) = {} THEN "apply"
                                                                              ELSE "review"]
<1>1. PICK older \in SUBSET {d \in Dealers : arrived[d] > 0} :
        LET hits   == {d \in Dealers : fresh[p][d]} \union older
            groups == Groups(p, hits)
        IN  run' = [run EXCEPT ![p].shown = groups,
                      ![p].seen = [d \in Dealers |->
                         IF d \in hits /\ rel[p][d] # "none" THEN arrived[d] ELSE 0],
                      ![p].at = IF groups = {} /\ Unrouted(p, hits) = {} THEN "apply"
                                                                       ELSE "review"]
  BY DEF Discover
<1>2. {d \in Dealers : fresh[p][d]} \union older \in SUBSET Dealers
  OBVIOUS
<1> QED BY <1>1, <1>2

\* A check that has discovered: what it has of a dealer is filed, unless the dealer is
\* on its card or closed out; and once it has applied, so is what was approved.
Discovered(p) ==
  run[p].kind = "check" /\ run[p].at # "begin" =>
    \A d \in Dealers :
      /\ d \in run[p].shown \/ d \in SuppressedThreads \/ run[p].seen[d] <= filed[d]
      /\ run[p].at = "stamp" /\ d \in run[p].agreed => run[p].seen[d] <= filed[d]

LEMMA DiscoveredSame ==
  ASSUME IInv, [Next]_vars, NEW p \in Profiles, Discovered(p),
         \/ run'[p] = run[p]
         \/ run'[p].kind # "check" \/ run'[p].at = "begin"
  PROVE  Discovered(p)'
<1>1. \A d \in Dealers :
        /\ filed'[d] >= filed[d]
        /\ filed[d] \in Nat /\ filed'[d] \in Nat /\ run[p].seen[d] \in Nat
  <2>1. filed \in [Dealers -> Nat] /\ filed' \in [Dealers -> Nat]
    BY Step DEF IInv, TypeOK
  <2>2. run[p].seen \in [Dealers -> Nat]
    BY DEF IInv, TypeOK, RunSet
  <2> QED BY <2>1, <2>2, NothingTakenBack
<1>4. SuppressedThreads \subseteq SuppressedThreads'
  BY NothingTakenBack DEF SuppressedThreads
<1>2. CASE run'[p] = run[p]
  BY <1>1, <1>2, <1>4 DEF Discovered
<1>3. CASE run'[p].kind # "check" \/ run'[p].at = "begin"
  BY <1>3 DEF Discovered
<1> QED BY <1>2, <1>3

LEMMA DiscoveredStep ==
  ASSUME IInv, [Next]_vars, \A p \in Profiles : Discovered(p)
  PROVE  \A p \in Profiles : Discovered(p)'
<1> SUFFICES ASSUME NEW p \in Profiles PROVE Discovered(p)'
  OBVIOUS
<1>0. TypeOK /\ run \in [Profiles -> RunSet] /\ run[p] \in RunSet /\ run[p].seen \in [Dealers -> Nat]
  BY DEF IInv, TypeOK, RunSet
<1>i. Idle.kind = "none"
  BY DEF Idle, Fresh
<1>1. CASE run'[p] = run[p]
  BY <1>1, DiscoveredSame
<1>2. CASE Crash
  <2>1. run'[p] \in {run[p], Idle, Restarted(run[p])}
    BY <1>2 DEF Crash, AfterBoot
  <2>2. CASE run'[p] = Restarted(run[p])
    <3>1. /\ Restarted(run[p]).kind = run[p].kind /\ Restarted(run[p]).at = run[p].at
          /\ Restarted(run[p]).shown = run[p].shown /\ Restarted(run[p]).seen = run[p].seen
          /\ Restarted(run[p]).agreed = run[p].agreed
      BY <1>0 DEF Restarted, RunSet
    <3>2. UNCHANGED <<filed, farewell>>
      BY <1>2 DEF Crash
    <3>3. Discovered(p)
      OBVIOUS
    <3> QED BY <2>2, <3>1, <3>2, <3>3 DEF Discovered, SuppressedThreads
  <2> QED BY <2>1, <2>2, <1>1, <1>i, DiscoveredSame
<1>3. CASE OwnStep(p)
  <2>1. CASE Discover(p)
    <3>1. PICK hits \in SUBSET Dealers :
            run' = [run EXCEPT ![p].shown = Groups(p, hits),
                      ![p].seen = [d \in Dealers |->
                         IF d \in hits /\ rel[p][d] # "none" THEN arrived[d] ELSE 0],
                      ![p].at = IF Groups(p, hits) = {} /\ Unrouted(p, hits) = {} THEN "apply"
                                                                               ELSE "review"]
      BY <2>1, Discovery
    <3> DEFINE seen == [d \in Dealers |->
                          IF d \in hits /\ rel[p][d] # "none" THEN arrived[d] ELSE 0]
               step == IF Groups(p, hits) = {} /\ Unrouted(p, hits) = {} THEN "apply" ELSE "review"
               r == [run[p] EXCEPT !.shown = Groups(p, hits), !.seen = seen, !.at = step]
    <3>2. run'[p] = r
      BY <3>1, <1>0
    <3>3. step # "stamp"
      OBVIOUS
    <3>4. \A d \in Dealers : d \in Groups(p, hits) \/ d \in SuppressedThreads \/ seen[d] <= filed[d]
      BY <1>0 DEF Groups, Unfiled, TypeOK
    <3>5. seen \in [Dealers -> Nat]
      BY <1>0 DEF TypeOK
    <3> HIDE DEF seen, step
    <3>6. r.shown = Groups(p, hits) /\ r.seen = seen /\ r.at = step
      BY <1>0 DEF RunSet
    <3> HIDE DEF r
    <3>7. UNCHANGED <<filed, farewell>>
      BY <2>1 DEF Discover, Store
    <3> QED BY <3>2, <3>3, <3>4, <3>6, <3>7 DEF Discovered, SuppressedThreads
  <2>2. CASE Apply(p)
    <3> DEFINE r == [run[p] EXCEPT !.at = "stamp"]
    <3>1. run'[p] = r
      BY <2>2, <1>0 DEF Apply
    <3>2. r.shown = run[p].shown /\ r.seen = run[p].seen /\ r.agreed = run[p].agreed
      BY <1>0 DEF RunSet
    <3> HIDE DEF r
    <3>3. \A d \in Dealers : filed[d] \in Nat /\ filed'[d] = FiledAfter(p)[d]
      BY <2>2, <1>0 DEF Apply, TypeOK
    <3>4. \A d \in Dealers :
            /\ filed'[d] >= filed[d] /\ filed'[d] \in Nat
            /\ d \in run[p].agreed => run[p].seen[d] <= filed'[d]
      BY <3>3, <1>0 DEF FiledAfter
    <3>5. \A d \in Dealers :
            d \in run[p].shown \/ d \in SuppressedThreads \/ run[p].seen[d] <= filed[d]
      BY <2>2 DEF Discovered, Apply, At
    <3>6. UNCHANGED farewell
      BY <2>2 DEF Apply
    <3>7. \A d \in Dealers :
            d \in run[p].shown \/ d \in SuppressedThreads \/ run[p].seen[d] <= filed'[d]
      <4> TAKE d \in Dealers
      <4>1. filed[d] \in Nat /\ filed'[d] \in Nat /\ run[p].seen[d] \in Nat /\ filed'[d] >= filed[d]
        BY <3>3, <3>4, <1>0
      <4>2. CASE run[p].seen[d] <= filed[d]
        BY <4>1, <4>2
      <4> QED BY <4>2, <3>5
    <3>8. SuppressedThreads' = SuppressedThreads
      BY <3>6 DEF SuppressedThreads
    <3> QED BY <3>1, <3>2, <3>4, <3>7, <3>8 DEF Discovered
  <2>3. ASSUME NEW agreed \in SUBSET Dealers, Approve(p, agreed) PROVE Discovered(p)'
    <3> DEFINE r == [run[p] EXCEPT !.agreed = agreed, !.redo = FALSE,
                                   !.at = AfterApproval(run[p].kind)]
    <3>1. run'[p] = Idle \/ run'[p] = r
      BY <2>3, <1>0 DEF Approve
    <3>2. r.kind = run[p].kind /\ r.shown = run[p].shown /\ r.seen = run[p].seen
          /\ r.at = AfterApproval(run[p].kind)
      BY <1>0 DEF RunSet
    <3> HIDE DEF r
    <3>3. r.at # "stamp" /\ run[p].at = "review" /\ UNCHANGED <<filed, farewell>>
      BY <2>3, <3>2 DEF Approve, AfterApproval, Store
    <3>4. Discovered(p)
      OBVIOUS
    <3>5. CASE run'[p] = r
      BY <3>2, <3>3, <3>4, <3>5 DEF Discovered, SuppressedThreads
    <3>6. CASE run'[p] = Idle
      BY <3>6, <1>i DEF Discovered
    <3> QED BY <3>1, <3>5, <3>6
  <2>4. CASE run[p].kind # "check" /\ run'[p].kind \in {run[p].kind, "none"}
    BY <2>4, DiscoveredSame
  <2>5. CASE run'[p].kind = "none" \/ run'[p].at = "begin"
    BY <2>5, DiscoveredSame
  <2>6. ASSUME NEW kind \in Kinds, Start(p, kind) PROVE run'[p].at = "begin"
    BY <2>6, <1>0 DEF Start, Fresh
  <2>7. ASSUME AdvanceWatermark(p) \/ Decline(p) \/ ConfirmFollowup(p) \/ Transition(p)
        PROVE  run'[p].kind = "none"
    BY <2>7, <1>0, <1>i DEF AdvanceWatermark, Decline, ConfirmFollowup, Transition
  <2>8. ASSUME Select(p) \/ Assemble(p)
        PROVE  run[p].kind # "check" /\ run'[p].kind \in {run[p].kind, "none"}
    <3>1. PICK shown : run'[p] = Idle \/ run'[p] = [run[p] EXCEPT !.shown = shown, !.at = "review"]
      BY <2>8, <1>0 DEF Select, Assemble
    <3>2. [run[p] EXCEPT !.shown = shown, !.at = "review"].kind = run[p].kind
      BY <1>0 DEF RunSet
    <3> QED BY <2>8, <3>1, <3>2, <1>i DEF Select, Assemble, At
  <2>9. ASSUME (\E d \in Dealers : Draft(p, d)) \/ Sent(p) \/ \E left \in BOOLEAN : Partial(p, left)
        PROVE  run[p].kind # "check" /\ run'[p].kind = run[p].kind
    <3>1. run[p].kind # "check"
      BY <2>9 DEF Draft, Sent, Partial, IInv, Flying
    <3>2. CASE \E d \in Dealers : Draft(p, d)
      <4>1. PICK d \in Dealers : run'[p] = [run[p] EXCEPT !.now = d]
        BY <3>2, <1>0 DEF Draft
      <4> QED BY <3>1, <4>1, <1>0 DEF RunSet
    <3>3. CASE Sent(p) \/ \E left \in BOOLEAN : Partial(p, left)
      <4>1. \/ SendDone(p, run[p].now, TRUE)
            \/ run'[p] = [run[p] EXCEPT !.now = NoDealer, !.at = "confirm"]
        BY <3>3, <1>0 DEF Sent, Partial
      <4>2. CASE SendDone(p, run[p].now, TRUE)
        BY <3>1, <4>2, <1>0 DEF SendDone, RunSet
      <4>3. CASE run'[p] = [run[p] EXCEPT !.now = NoDealer, !.at = "confirm"]
        BY <3>1, <4>3, <1>0 DEF RunSet
      <4> QED BY <4>1, <4>2, <4>3
    <3> QED BY <2>9, <3>1, <3>2, <3>3
  <2> QED BY <1>3, <2>1, <2>2, <2>3, <2>4, <2>5, <2>6, <2>7, <2>8, <2>9 DEF OwnStep
<1>4. CASE UNCHANGED run
  BY <1>4, <1>1
<1> QED BY <1>1, <1>2, <1>3, <1>4, WhoSteps

\* The watermark passes an unfiled reply only if the check could not have it, the user
\* left it unapproved, or the dealer is closed out.
THEOREM WatermarkKeepsItsWord == Spec => WatermarkHonest
<1>1. Init => \A p \in Profiles : Discovered(p)
  BY DEF Init, Discovered, Idle, Fresh
<1>2. IInv /\ (\A p \in Profiles : Discovered(p)) /\ [Next]_vars =>
        (\A p \in Profiles : Discovered(p))'
  BY DiscoveredStep
<1>3. IInv /\ (\A p \in Profiles : Discovered(p)) /\ [Next]_vars =>
        [\A p \in Profiles, d \in Dealers :
           fresh[p][d] /\ ~fresh'[p][d] /\ Unfiled(d) => Excused(p, d)]_vars
  <2> SUFFICES ASSUME IInv, \A p \in Profiles : Discovered(p), [Next]_vars,
                      NEW p \in Profiles, NEW d \in Dealers,
                      fresh[p][d], ~fresh'[p][d], Unfiled(d)
               PROVE  Excused(p, d)
    OBVIOUS
  <2>1. fresh \in [Profiles -> [Dealers -> BOOLEAN]]
    BY DEF IInv, TypeOK
  <2>2. ASSUME NEW e, NewMail(e) PROVE FALSE
    BY <2>1, <2>2 DEF NewMail
  <2>3. ~ UNCHANGED fresh
    OBVIOUS
  <2>4. ~ Crash
    BY <2>1 DEF Crash
  <2>a. ASSUME NEW q \in Profiles
        PROVE  /\ ~ (CloseSearch(q) \/ Restore(q) \/ Discover(q) \/ Apply(q))
               /\ ~ (Select(q) \/ Assemble(q) \/ Decline(q))
               /\ ~ (ConfirmFollowup(q) \/ Transition(q))
    BY <2>3 DEF CloseSearch, Restore, Discover, Apply, Select, Assemble, Decline,
       ConfirmFollowup, Transition
  <2>b. ASSUME NEW q \in Profiles
        PROVE  /\ \A e \in Dealers : ~ Lead(q, e) /\ ~ Draft(q, e)
               /\ \A kind \in Kinds : ~ Start(q, kind)
               /\ \A agreed \in SUBSET Dealers : ~ Approve(q, agreed)
    BY <2>3 DEF Lead, Draft, Start, Approve
  <2>c. ASSUME NEW q \in Profiles
        PROVE  ~ Sent(q) /\ \A left \in BOOLEAN : ~ Partial(q, left)
    BY <2>2, <2>3 DEF Sent, Partial
  <2>d. \A e \in Dealers : ~ DealerWrites(e)
    BY <2>2 DEF DealerWrites
  <2>5. PICK q \in Profiles : AdvanceWatermark(q)
    BY <2>3, <2>4, <2>a, <2>b, <2>c, <2>d DEF Next, vars
  <2>6. q = p /\ At(p, "check", "stamp")
    BY <2>1, <2>5 DEF AdvanceWatermark
  <2>7. /\ d \in run[p].shown \/ d \in SuppressedThreads \/ run[p].seen[d] <= filed[d]
        /\ d \in run[p].agreed => run[p].seen[d] <= filed[d]
    BY <2>6 DEF Discovered, At
  <2>8. run[p].seen[d] \in Nat /\ filed[d] \in Nat /\ arrived[d] \in Nat /\ arrived[d] > filed[d]
    BY DEF IInv, TypeOK, RunSet, Unfiled
  <2> QED BY <2>7, <2>8 DEF Excused
<1> QED BY <1>1, <1>2, <1>3, BooksKept, PTL DEF Spec, WatermarkHonest
----------------------------------------------------------------------------
(* Closed out dealers *)

\* What is sent was approved, and nothing is sent before the approval.
Tidy(r) == r.done \subseteq r.agreed /\ (r.at \in {"begin", "review"} => r.done = {})

\* A dealer behind the send of a follow-up has its mail.
Heard(p) == run[p].kind = "follow" => \A d \in run[p].done : gone[p][d] > 0

\* The run has nothing to say to d, unless it is the closeout that parted with d.
Clear(r, d) ==
  \/ d \notin r.shown \union r.agreed
  \/ r.kind = "close" /\ r.at \in {"send", "confirm"} /\ (d \in r.done \/ r.redo)

\* p has parted with d: it cannot choose d again while its thread row says so, which
\* only another search that writes to d can change.
Parted(p, d) ==
  \/ \E q \in Profiles \ {p} : gone[q][d] > 0
  \/ (thread[d].state = "closed" \/ thread[d].owner # p) /\ Clear(run[p], d)

PartInv ==
  /\ \A p \in Profiles : Tidy(run[p]) /\ Heard(p)
  /\ \A p \in Profiles, d \in Dealers : <<p, d>> \in farewell => Parted(p, d)

Blank(r) == r.at = "begin" /\ r.kind \in Kinds \union {"none"}
            /\ r.shown = {} /\ r.agreed = {} /\ r.done = {}

\* s is r with another step, dealer in flight or mails in its window.
Same(r, s) == s.kind = r.kind /\ s.shown = r.shown /\ s.agreed = r.agreed
              /\ s.done = r.done /\ s.redo = r.redo

\* What a step makes of a run.
Chooses(p, r, s) ==
  /\ r.at = "begin" /\ s.kind = r.kind /\ s.agreed = r.agreed /\ s.done = r.done
  /\ s.at \in {"review", "apply"}
  /\ \A d \in s.shown : <<p, d>> \notin farewell \/ d \in Candidates(p)
Applies(r, s)  == Same(r, s) /\ r.kind = "check" /\ s.at = "stamp"
Approves(r, s) == r.at = "review" /\ s.kind = r.kind /\ s.shown = r.shown
                  /\ s.done = r.done /\ s.agreed \subseteq r.shown /\ s.at \in {"apply", "send"}
Moves(r, s)    == Same(r, s) /\ r.at = "send" /\ s.at \in {"send", "confirm"}
Counts(r, s)   == /\ r.at = "send" /\ s.at \in {"send", "confirm"}
                  /\ r.now \in r.agreed /\ s.kind = r.kind /\ s.shown = r.shown
                  /\ s.agreed = r.agreed /\ s.redo = r.redo /\ s.done = r.done \union {r.now}

LEMMA RunShapes ==
  ASSUME IInv, NEW p \in Profiles, OwnStep(p)
  PROVE  LET r == run[p]  s == run'[p] IN
         \/ Blank(s) \/ Chooses(p, r, s) \/ Approves(r, s)
         \/ Apply(p) /\ Applies(r, s)
         \/ Moves(r, s)
         \/ (Sent(p) \/ \E left \in BOOLEAN : Partial(p, left)) /\ Counts(r, s)
<1> DEFINE r == run[p]
           s == run'[p]
<1>0. run \in [Profiles -> RunSet] /\ run[p] \in RunSet /\ Flying(run[p])
  BY DEF IInv, TypeOK
<1>i. Blank(Idle) /\ \A kind \in Kinds : Blank(Fresh(kind))
  BY DEF Blank, Idle, Fresh, Kinds
<1>1. ASSUME \/ \E kind \in Kinds : Start(p, kind)
             \/ AdvanceWatermark(p) \/ Decline(p) \/ ConfirmFollowup(p) \/ Transition(p)
      PROVE  Blank(s)
  BY <1>1, <1>0, <1>i DEF Start, AdvanceWatermark, Decline, ConfirmFollowup, Transition
<1>2. CASE Discover(p)
  <2>1. PICK hits \in SUBSET Dealers :
          run' = [run EXCEPT ![p].shown = Groups(p, hits),
                    ![p].seen = [d \in Dealers |->
                       IF d \in hits /\ rel[p][d] # "none" THEN arrived[d] ELSE 0],
                    ![p].at = IF Groups(p, hits) = {} /\ Unrouted(p, hits) = {} THEN "apply"
                                                                             ELSE "review"]
    BY <1>2, Discovery
  <2> DEFINE seen == [d \in Dealers |->
                        IF d \in hits /\ rel[p][d] # "none" THEN arrived[d] ELSE 0]
             step == IF Groups(p, hits) = {} /\ Unrouted(p, hits) = {} THEN "apply" ELSE "review"
  <2>2. s = [r EXCEPT !.shown = Groups(p, hits), !.seen = seen, !.at = step]
    BY <2>1, <1>0
  <2>3. step \in {"review", "apply"}
    OBVIOUS
  <2> HIDE DEF seen, step
  <2>4. s.kind = r.kind /\ s.agreed = r.agreed /\ s.done = r.done /\ s.at = step
        /\ s.shown = Groups(p, hits)
    BY <2>2, <1>0 DEF RunSet
  <2>5. \A d \in Groups(p, hits) : <<p, d>> \notin farewell
    BY DEF Groups, SuppressedThreads
  <2> QED BY <1>2, <2>3, <2>4, <2>5 DEF Chooses, Discover, At
<1>3. CASE Apply(p)
  <2>1. s = [r EXCEPT !.at = "stamp"] /\ r.kind = "check"
    BY <1>3, <1>0 DEF Apply, At
  <2> QED BY <1>3, <2>1, <1>0 DEF Applies, Same, RunSet
<1>4. CASE Select(p) \/ Assemble(p)
  <2>1. PICK shown \in SUBSET Dealers :
          /\ s = Idle \/ s = [r EXCEPT !.shown = shown, !.at = "review"]
          /\ shown \subseteq Candidates(p) \/ shown = CloseoutTargets(p)
    <3>1. CASE Select(p)
      <4>1. PICK shown \in SUBSET Candidates(p) :
              s = Idle \/ s = [r EXCEPT !.shown = shown, !.at = "review"]
        BY <3>1, <1>0 DEF Select
      <4> QED BY <4>1 DEF Candidates
    <3>2. CASE Assemble(p)
      <4>1. s = Idle \/ s = [r EXCEPT !.shown = CloseoutTargets(p), !.at = "review"]
        BY <3>2, <1>0 DEF Assemble
      <4>2. CloseoutTargets(p) \in SUBSET Dealers
        BY DEF CloseoutTargets
      <4> QED BY <4>1, <4>2
    <3> QED BY <1>4, <3>1, <3>2
  <2>2. CASE s = [r EXCEPT !.shown = shown, !.at = "review"]
    <3>1. s.kind = r.kind /\ s.agreed = r.agreed /\ s.done = r.done /\ s.at = "review"
          /\ s.shown = shown
      BY <2>2, <1>0 DEF RunSet
    <3>2. \A d \in CloseoutTargets(p) : <<p, d>> \notin farewell
      BY DEF CloseoutTargets, SuppressedThreads
    <3>3. r.at = "begin"
      BY <1>4 DEF Select, Assemble, At
    <3> QED BY <2>1, <3>1, <3>2, <3>3 DEF Chooses
  <2> QED BY <2>1, <2>2, <1>i
<1>5. ASSUME NEW agreed \in SUBSET Dealers, Approve(p, agreed)
      PROVE  Blank(s) \/ Approves(r, s)
  <2> DEFINE t == [r EXCEPT !.agreed = agreed, !.redo = FALSE, !.at = AfterApproval(r.kind)]
  <2>1. s = Idle \/ s = t
    BY <1>5, <1>0 DEF Approve
  <2>2. t.kind = r.kind /\ t.shown = r.shown /\ t.done = r.done /\ t.agreed = agreed
        /\ t.at = AfterApproval(r.kind)
    BY <1>0 DEF RunSet
  <2> HIDE DEF t
  <2>3. r.at = "review" /\ agreed \subseteq r.shown
    BY <1>5 DEF Approve
  <2> QED BY <2>1, <2>2, <2>3, <1>i DEF Approves, AfterApproval
<1>6. ASSUME NEW d \in Dealers, Draft(p, d) PROVE Moves(r, s)
  <2>1. s = [r EXCEPT !.now = d] /\ r.at = "send"
    BY <1>6, <1>0 DEF Draft
  <2> QED BY <2>1, <1>0 DEF Moves, Same, RunSet
<1>7. CASE Sent(p) \/ \E left \in BOOLEAN : Partial(p, left)
  <2>1. r.at = "send" /\ r.now \in r.agreed
    BY <1>7, <1>0 DEF Sent, Partial, Flying
  <2>2. \/ SendDone(p, r.now, TRUE)
        \/ s = [r EXCEPT !.now = NoDealer, !.at = "confirm"]
    BY <1>7, <1>0 DEF Sent, Partial
  <2>3. CASE SendDone(p, r.now, TRUE)
    <3>1. PICK step \in {"send", "confirm"} :
            s = [r EXCEPT !.done = @ \union {r.now}, !.now = NoDealer, !.at = step]
      BY <2>3, <1>0 DEF SendDone
    <3> QED BY <1>7, <2>1, <3>1, <1>0 DEF Counts, RunSet
  <2>4. CASE s = [r EXCEPT !.now = NoDealer, !.at = "confirm"]
    BY <2>1, <2>4, <1>0 DEF Moves, Same, RunSet
  <2> QED BY <2>2, <2>3, <2>4
<1>8. CASE \/ \E kind \in Kinds : Start(p, kind)
           \/ AdvanceWatermark(p) \/ Decline(p) \/ ConfirmFollowup(p) \/ Transition(p)
  BY <1>1, <1>8
<1>9. CASE \E agreed \in SUBSET Dealers : Approve(p, agreed)
  BY <1>5, <1>9
<1>10. CASE \E d \in Dealers : Draft(p, d)
  BY <1>6, <1>10
<1> QED BY <1>2, <1>3, <1>4, <1>7, <1>8, <1>9, <1>10 DEF OwnStep

\* A restarted run is the run, marked; its send step forgets what it sent.
LEMMA CrashShapes ==
  ASSUME IInv, Crash, NEW p \in Profiles
  PROVE  LET r == run[p]  s == run'[p] IN
         \/ s = r \/ Blank(s)
         \/ /\ s.kind = r.kind /\ s.at = r.at /\ s.shown = r.shown /\ s.agreed = r.agreed
            /\ r.at # "review" /\ s.redo /\ s.done \in {{}, r.done}
            /\ r.at # "send" => s.done = r.done
<1>0. run[p] \in RunSet
  BY DEF IInv, TypeOK
<1>1. run'[p] \in {run[p], Idle, Restarted(run[p])}
  BY DEF Crash, AfterBoot
<1>4. run[p].at = "review" => run'[p] = run[p]
  BY DEF Crash, AfterBoot
<1>2. Blank(Idle)
  BY DEF Blank, Idle, Fresh
<1>3. LET s == Restarted(run[p]) IN
      /\ s.kind = run[p].kind /\ s.at = run[p].at /\ s.shown = run[p].shown
      /\ s.agreed = run[p].agreed /\ s.redo
      /\ s.done = IF run[p].at = "send" THEN {} ELSE run[p].done
  BY <1>0 DEF Restarted, RunSet
<1> HIDE DEF Restarted
<1> QED BY <1>1, <1>2, <1>3, <1>4

LEMMA TidyStep ==
  ASSUME IInv, PartInv, [Next]_vars
  PROVE  \A p \in Profiles : (Tidy(run[p]) /\ Heard(p))'
<1> SUFFICES ASSUME NEW p \in Profiles PROVE (Tidy(run[p]) /\ Heard(p))'
  OBVIOUS
<1>0. /\ Tidy(run[p]) /\ Heard(p) /\ run[p] \in RunSet
      /\ \A d \in Dealers : gone'[p][d] >= gone[p][d] /\ gone[p][d] \in Nat /\ gone'[p][d] \in Nat
  BY NothingTakenBack, Step DEF PartInv, IInv, TypeOK
<1>1. CASE run'[p] = run[p]
  BY <1>0, <1>1 DEF Tidy, Heard, RunSet
<1>2. CASE Blank(run'[p])
  BY <1>2 DEF Blank, Tidy, Heard
<1>3. CASE Crash
  <2>1. CASE /\ run'[p].kind = run[p].kind /\ run'[p].at = run[p].at
             /\ run'[p].agreed = run[p].agreed /\ run'[p].done \in {{}, run[p].done}
    BY <1>0, <2>1 DEF Tidy, Heard, RunSet
  <2> QED BY <1>1, <1>2, <1>3, <2>1, CrashShapes
<1>4. CASE OwnStep(p)
  <2>1. CASE Chooses(p, run[p], run'[p])
    BY <1>0, <2>1 DEF Chooses, Tidy, Heard
  <2>2. CASE Approves(run[p], run'[p])
    BY <1>0, <2>2 DEF Approves, Tidy, Heard
  <2>3. CASE Applies(run[p], run'[p])
    BY <1>0, <2>3 DEF Applies, Same, Tidy, Heard
  <2>4. CASE Moves(run[p], run'[p])
    BY <1>0, <2>4 DEF Moves, Same, Tidy, Heard, RunSet
  <2>5. CASE (Sent(p) \/ \E left \in BOOLEAN : Partial(p, left)) /\ Counts(run[p], run'[p])
    <3>1. Tidy(run'[p])
      BY <1>0, <2>5 DEF Counts, Tidy
    <3>2. CASE run[p].kind = "follow"
      <4>1. Sent(p) \/ ~ (run[p].now \in run'[p].done \ run[p].done)
        <5>1. ASSUME NEW left \in BOOLEAN, Partial(p, left) PROVE run'[p].done = run[p].done
          <6>1. run' = [run EXCEPT ![p].now = NoDealer, ![p].at = "confirm"]
            BY <5>1, <3>2 DEF Partial
          <6> QED BY <6>1, <1>0 DEF IInv, TypeOK, RunSet
        <5> QED BY <2>5, <5>1
      <4>2. Sent(p) => gone' = [gone EXCEPT ![p][run[p].now] = @ + 1]
        BY DEF Sent
      <4>3. gone \in [Profiles -> [Dealers -> Nat]] /\ run[p].now \in Dealers
        BY <1>0, <2>5 DEF Counts, IInv, TypeOK, RunSet
      <4>4. Sent(p) => gone'[p][run[p].now] > 0
        BY <4>2, <4>3
      <4> QED BY <1>0, <2>5, <3>1, <4>1, <4>4 DEF Counts, Heard, Tidy, RunSet
    <3>3. CASE run[p].kind # "follow"
      BY <2>5, <3>1, <3>3 DEF Counts, Heard
    <3> QED BY <3>2, <3>3
  <2> QED BY <1>2, <1>4, <2>1, <2>2, <2>3, <2>4, <2>5, RunShapes
<1> QED BY <1>1, <1>3, <1>4, WhoSteps

\* A run that is clear of a dealer it has parted with stays so.
LEMMA ClearStep ==
  ASSUME IInv, PartInv, [Next]_vars, NEW p \in Profiles, NEW d \in Dealers,
         <<p, d>> \in farewell, thread[d].state = "closed" \/ thread[d].owner # p,
         Clear(run[p], d)
  PROVE  Clear(run'[p], d)
<1>0. run[p] \in RunSet /\ Tidy(run[p])
  BY DEF PartInv, IInv, TypeOK
<1>1. CASE run'[p] = run[p]
  BY <1>1
<1>2. CASE Blank(run'[p])
  BY <1>2 DEF Blank, Clear
<1>3. CASE Crash
  BY <1>0, <1>1, <1>2, <1>3, CrashShapes DEF Clear
<1>4. CASE OwnStep(p)
  <2>1. CASE Chooses(p, run[p], run'[p])
    BY <1>0, <2>1 DEF Chooses, Clear, Candidates
  <2>2. CASE Approves(run[p], run'[p])
    BY <1>0, <2>2 DEF Approves, Clear
  <2>3. CASE Applies(run[p], run'[p])
    BY <1>0, <2>3 DEF Applies, Same, Clear
  <2>4. CASE Moves(run[p], run'[p])
    BY <1>0, <2>4 DEF Moves, Same, Clear
  <2>5. CASE Counts(run[p], run'[p])
    BY <1>0, <2>5 DEF Counts, Clear
  <2> QED BY <1>2, <1>4, <2>1, <2>2, <2>3, <2>4, <2>5, RunShapes
<1> QED BY <1>1, <1>3, <1>4, WhoSteps

\* What becomes of the thread row of a dealer p has parted with.
LEMMA ThreadStep ==
  ASSUME IInv, PartInv, [Next]_vars, NEW p \in Profiles, NEW d \in Dealers,
         thread[d].state = "closed" \/ thread[d].owner # p,
         Clear(run[p], d)
  PROVE  \/ thread'[d].state = "closed" \/ thread'[d].owner # p
         \/ \E q \in Profiles \ {p} : gone[q][d] > 0
<1>0. /\ thread \in [Dealers -> [state: {"none", "replied", "negotiating", "closed"},
                                 owner: Profiles \union {Nobody}]]
      /\ \A q \in Profiles : Tidy(run[q]) /\ Heard(q)
  BY DEF IInv, TypeOK, PartInv
<1>1. CASE UNCHANGED thread
  BY <1>1
<1>2. ASSUME NEW q \in Profiles, Apply(q)
      PROVE  thread'[d].state = "closed" \/ thread'[d].owner # p
  <2>1. thread'[d] = IF d \in run[q].agreed THEN [state |-> "replied", owner |-> q] ELSE thread[d]
    BY <1>2 DEF Apply
  <2>2. q = p => d \notin run[q].agreed
    BY <1>2 DEF Clear, Apply, At
  <2> QED BY <2>1, <2>2
<1>3. ASSUME NEW q \in Profiles, ConfirmFollowup(q)
      PROVE  \/ thread'[d].state = "closed" \/ thread'[d].owner # p
             \/ \E o \in Profiles \ {p} : gone[o][d] > 0
  <2>1. thread'[d] = IF d \in run[q].done THEN [thread[d] EXCEPT !.state = "negotiating"]
                                           ELSE thread[d]
    BY <1>3 DEF ConfirmFollowup
  <2>2. run[q].kind = "follow"
    BY <1>3 DEF ConfirmFollowup, At
  <2>3. q = p => d \notin run[q].done
    BY <1>0, <2>2 DEF Clear, Tidy
  <2>4. d \in run[q].done => gone[q][d] > 0
    BY <1>0, <2>2 DEF Heard
  <2> QED BY <2>1, <2>3, <2>4
<1>4. ASSUME NEW q \in Profiles, Sent(q) \/ \E left \in BOOLEAN : Partial(q, left)
      PROVE  thread'[d].state = "closed" \/ thread'[d].owner # p
  <2>1. UNCHANGED thread \/ thread' = [thread EXCEPT ![run[q].now].state = "closed"]
    BY <1>4 DEF Sent, Partial, Closed, KeepOpen
  <2> QED BY <1>0, <2>1
<1>5. CASE Crash
  BY <1>1, <1>5 DEF Crash
<1>6. ASSUME NEW q \in Profiles, OwnStep(q)
      PROVE  \/ Apply(q) \/ ConfirmFollowup(q) \/ UNCHANGED thread
             \/ Sent(q) \/ \E left \in BOOLEAN : Partial(q, left)
  BY <1>6 DEF OwnStep, Start, Discover, AdvanceWatermark, Select, Assemble, Decline, Approve,
     Draft, Transition, Store
<1> QED BY <1>1, <1>2, <1>3, <1>4, <1>5, <1>6, WhoSteps

\* A new farewell is the one of a closeout that has just sent.
LEMMA FarewellStep ==
  ASSUME IInv, [Next]_vars, NEW p \in Profiles, NEW d \in Dealers,
         <<p, d>> \in farewell', <<p, d>> \notin farewell
  PROVE  thread'[d].state = "closed" /\ Clear(run'[p], d)
<1>0. /\ thread \in [Dealers -> [state: {"none", "replied", "negotiating", "closed"},
                                 owner: Profiles \union {Nobody}]]
      /\ run \in [Profiles -> RunSet] /\ \A q \in Profiles : Flying(run[q])
  BY DEF IInv, TypeOK
<1>1. PICK q \in Profiles : OwnStep(q)
  BY WhoSteps DEF Crash
<1>2. Sent(q) \/ \E left \in BOOLEAN : Partial(q, left)
  BY <1>1 DEF OwnStep, Start, Discover, Apply, AdvanceWatermark, Select, Assemble, Decline,
     Approve, Draft, ConfirmFollowup, Transition, Store
<1>3. Closed(q, run[q].now) /\ SendDone(q, run[q].now, TRUE) /\ run[q].kind = "close"
  BY <1>2 DEF Sent, Partial, KeepOpen
<1>4. q = p /\ run[q].now = d
  BY <1>3 DEF Closed
<1>5. thread'[d].state = "closed"
  BY <1>0, <1>3, <1>4 DEF Closed
<1>6. PICK step \in {"send", "confirm"} :
        run'[p] = [run[p] EXCEPT !.done = @ \union {d}, !.now = NoDealer, !.at = step]
  BY <1>0, <1>3, <1>4 DEF SendDone
<1>7. run'[p].kind = "close" /\ run'[p].at = step /\ d \in run'[p].done
  BY <1>0, <1>3, <1>4, <1>6 DEF RunSet
<1> QED BY <1>5, <1>7 DEF Clear

LEMMA PartStep ==
  ASSUME IInv, PartInv, [Next]_vars
  PROVE  PartInv'
<1>1. ASSUME NEW p \in Profiles, NEW d \in Dealers, <<p, d>> \in farewell'
      PROVE  Parted(p, d)'
  <2>1. \A q \in Profiles : /\ gone'[q][d] >= gone[q][d]
                            /\ gone[q][d] \in Nat /\ gone'[q][d] \in Nat
    BY NothingTakenBack, Step DEF IInv, TypeOK
  <2>2. CASE <<p, d>> \notin farewell
    BY <1>1, <2>2, FarewellStep DEF Parted
  <2>3. CASE \E q \in Profiles \ {p} : gone[q][d] > 0
    BY <2>1, <2>3 DEF Parted
  <2>4. CASE /\ <<p, d>> \in farewell /\ Clear(run[p], d)
             /\ thread[d].state = "closed" \/ thread[d].owner # p
    BY <2>3, <2>4, ClearStep, ThreadStep DEF Parted
  <2> QED BY <2>2, <2>3, <2>4 DEF PartInv, Parted
<1> QED BY <1>1, TidyStep DEF PartInv

\* A mail of p to d leaves only from a run that has d on its card.
LEMMA WhoMails ==
  ASSUME IInv, [Next]_vars, NEW p \in Profiles, NEW d \in Dealers, gone'[p][d] > gone[p][d]
  PROVE  run[p].now = d /\ d \in run[p].agreed \ run[p].done
<1>0. gone \in [Profiles -> [Dealers -> Nat]] /\ \A q \in Profiles : Flying(run[q])
  BY DEF IInv, TypeOK
<1>1. ~ UNCHANGED gone
  BY <1>0
<1>2. run[p].now = d
  <2>1. CASE Crash
    BY <1>0, <2>1 DEF Crash
  <2>2. ASSUME NEW q \in Profiles, OwnStep(q) PROVE run[p].now = d
    <3>1. Sent(q) \/ \E left \in BOOLEAN : Partial(q, left)
      BY <1>1, <2>2 DEF OwnStep, Start, Discover, Apply, AdvanceWatermark, Select, Assemble,
         Decline, Approve, Draft, ConfirmFollowup, Transition, Store
    <3>2. gone' = [gone EXCEPT ![q][run[q].now] = @ + 1]
      BY <1>1, <3>1 DEF Sent, Partial
    <3> QED BY <1>0, <3>2
  <2> QED BY <1>1, <2>1, <2>2, WhoSteps
<1> QED BY <1>0, <1>2, CorrespondenceAssumption DEF Flying

\* A search that has closed a dealer out does not write to it again, except by the same
\* closeout executed again, unless another search has written to the dealer.
THEOREM FarewellHolds == Spec => ClosedOutIsLeftAlone
<1>1. Init => PartInv
  BY DEF Init, PartInv, Tidy, Heard, Idle, Fresh
<1>2. IInv /\ PartInv /\ [Next]_vars => PartInv'
  BY PartStep
<1>3. IInv /\ PartInv /\ [Next]_vars =>
        [\A pd \in farewell :
           LET p == pd[1]  d == pd[2] IN
           gone'[p][d] > gone[p][d] =>
             \/ run[p].kind = "close" /\ run[p].redo
             \/ \E q \in Profiles \ {p} : gone[q][d] > 0]_vars
  <2> SUFFICES ASSUME IInv, PartInv, [Next]_vars, NEW pd \in farewell,
                      gone'[pd[1]][pd[2]] > gone[pd[1]][pd[2]]
               PROVE  \/ run[pd[1]].kind = "close" /\ run[pd[1]].redo
                      \/ \E q \in Profiles \ {pd[1]} : gone[q][pd[2]] > 0
    OBVIOUS
  <2>1. pd = <<pd[1], pd[2]>> /\ pd[1] \in Profiles /\ pd[2] \in Dealers
    BY DEF IInv, TypeOK
  <2>2. Parted(pd[1], pd[2])
    BY <2>1 DEF PartInv
  <2>3. pd[2] \in run[pd[1]].agreed \ run[pd[1]].done
    BY <2>1, WhoMails
  <2> QED BY <2>2, <2>3 DEF Parted, Clear
<1> QED BY <1>1, <1>2, <1>3, BooksKept, PTL DEF Spec, ClosedOutIsLeftAlone
=============================================================================
