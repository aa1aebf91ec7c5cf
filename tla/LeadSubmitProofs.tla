-------------------------- MODULE LeadSubmitProofs --------------------------
(* Proofs about LeadSubmit, for any number of dealers, runs and crashes.    *)
EXTENDS LeadSubmit, WellFoundedInduction, TLAPS

(***************************************************************************)
(* Rows are true because every verdict is backed by what it reports from   *)
(* the moment it is decided, in memory or saved.                           *)
(***************************************************************************)
Backed(channels) ==
  \A d \in Dealer :
    /\ channels[d] = "web_form" => clicks[d] > 0
    /\ channels[d] = "email" => d \in Range(mails)

BackedInv == TypeOK /\ RowsTruthful /\ Backed(decided) /\ Backed(work)

(***************************************************************************)
(* A recorded dealer is left alone because a run decides only approved     *)
(* dealers, and until it records it has approved only dealers without rows.*)
(***************************************************************************)
Contacting == {"submit", "email", "ask"}

OnlyApproved(channels) == \A d \in Dealer : channels[d] # "none" => d \in approved

UnrecordedInv ==
  /\ TypeOK
  /\ step = "review" => decided = Undecided /\ work = Undecided
  /\ step \in Contacting =>
       /\ \A d \in approved : rows[d] = {}
       /\ OnlyApproved(decided) /\ OnlyApproved(work)

(***************************************************************************)
(* A mail is paid for by the approval in hand, and taking the answer is    *)
(* what spends it: an answer in hand is an approval no mail has left for.  *)
(***************************************************************************)
PaidInv ==
  /\ TypeOK
  /\ Len(mails) + (IF pending = "approve" THEN 1 ELSE 0) <= approvals

(* Mailing a dealer adds it to those mailed, and only one mail.             *)
LEMMA OneMore ==
  ASSUME mails \in Seq(Dealer), NEW d \in Dealer, NEW left \in BOOLEAN,
         mails' = IF left THEN Append(mails, d) ELSE mails
  PROVE  /\ mails' \in Seq(Dealer)
         /\ Len(mails') <= Len(mails) + 1
         /\ Range(mails) \subseteq Range(mails')
         /\ left => d \in Range(mails')
         /\ mails' # mails => mails'[Len(mails')] = d
<1>1. CASE left
  <2>1. /\ mails' \in Seq(Dealer) /\ Len(mails') = Len(mails) + 1
        /\ DOMAIN mails = 1..Len(mails) /\ DOMAIN mails' = 1..Len(mails')
        /\ Len(mails) \in Nat /\ mails'[Len(mails) + 1] = d
        /\ \A i \in 1..Len(mails) : mails'[i] = mails[i]
    BY <1>1
  <2>2. Range(mails) \subseteq Range(mails')
    BY <2>1 DEF Range
  <2>3. d \in Range(mails')
    BY <2>1 DEF Range
  <2>4. Len(mails') <= Len(mails) + 1 /\ mails'[Len(mails')] = d
    BY <2>1
  <2> QED BY <2>1, <2>2, <2>3, <2>4
<1>2. CASE ~ left
  BY <1>2
<1> QED BY <1>1, <1>2

LEMMA UndecidedType == Undecided \in [Dealer -> Channel]
  BY DEF Undecided, Channel

LEMMA ReroutedType == \A d \in Dealer : Rerouted(d) \in {"needs_fallback", "failed"}
  BY DEF Rerouted

LEMMA RowOfType == \A ch \in Channel : RowOf(ch) \subseteq {"web_form", "email", "failed"}
  BY DEF RowOf, Channel

LEMMA TypeInit == Init => TypeOK
  BY LeadAssumption, UndecidedType DEF Init, TypeOK, Dealer

(* Recording keeps the rows well formed.                                   *)
LEMMA RecordType ==
  ASSUME TypeOK, NEW n \in Nat, RecordUpTo(n)
  PROVE  rows' \in [Dealer -> SUBSET {"web_form", "email", "failed"}]
  BY RowOfType DEF RecordUpTo, TypeOK

LEMMA TypeStep == TypeOK /\ [Next]_vars => TypeOK'
<1> SUFFICES ASSUME TypeOK, [Next]_vars PROVE TypeOK'
  OBVIOUS
<1> USE DEF TypeOK, scouted, decisions, memory, world, answered
<1>1. CASE Start
  BY <1>1, UndecidedType DEF Start, Forget
<1>2. CASE DeclineBatch
  BY <1>2 DEF DeclineBatch
<1>3. CASE SubmitDone
  BY <1>3 DEF SubmitDone
<1>4. CASE EmailDone
  BY <1>4 DEF EmailDone
<1>5. CASE Record
  <2>1. rows' \in [Dealer -> SUBSET {"web_form", "email", "failed"}]
    BY <1>5, RecordType, LeadAssumption DEF Record
  <2> QED BY <1>5, <2>1 DEF Record
<1>6. CASE CrashAndBoot
  <2>1. rows' \in [Dealer -> SUBSET {"web_form", "email", "failed"}]
    <3>1. CASE step = "record"
      <4>1. PICK n \in 0..NumDealers : RecordUpTo(n)
        BY <1>6, <3>1 DEF CrashAndBoot
      <4> QED BY <4>1, RecordType, LeadAssumption
    <3>2. CASE step # "record"
      BY <1>6, <3>2 DEF CrashAndBoot
    <3> QED BY <3>1, <3>2
  <2>2. work' \in [Dealer -> Channel] /\ seen' \in SUBSET Dealer /\ carry' \in SUBSET Dealer
          /\ pending' \in {"none", "approve", "decline"}
    BY <1>6, UndecidedType DEF CrashAndBoot, Forget
  <2>3. step' \in {"idle", "review", "submit", "email", "ask", "record", "ended"}
    BY <1>6 DEF CrashAndBoot
  <2> QED BY <1>6, <2>1, <2>2, <2>3 DEF CrashAndBoot
<1>7. ASSUME NEW A \in SUBSET Dealer, ApproveBatch(A) PROVE TypeOK'
  BY <1>7 DEF ApproveBatch
<1>8. ASSUME NEW x \in {"approve", "decline"}, Answer(x) PROVE TypeOK'
  <2>1. approvals' \in Nat /\ answers' \in Nat
    BY <1>8 DEF Answer
  <2> QED BY <1>8, <2>1 DEF Answer
<1>9. ASSUME NEW d \in Dealer, SubmitOne(d) PROVE TypeOK'
  <2>1. PICK verdict \in {"web_form", "failed", Rerouted(d)}, clicked \in BOOLEAN :
          /\ work' = [work EXCEPT ![d] = verdict]
          /\ clicks' = [clicks EXCEPT ![d] = IF clicked THEN @ + 1 ELSE @]
    BY <1>9 DEF SubmitOne
  <2>2. verdict \in Channel
    BY ReroutedType DEF Channel
  <2>3. clicks' \in [Dealer -> Nat]
    BY <2>1
  <2> QED BY <1>9, <2>1, <2>2, <2>3 DEF SubmitOne
<1>10. ASSUME NEW d \in Dealer, SkipCarried(d) PROVE TypeOK'
  BY <1>10 DEF SkipCarried, Channel
<1>11. ASSUME NEW d \in Dealer, Ask(d) PROVE TypeOK'
  BY <1>11, UndecidedType DEF Ask
<1>12. ASSUME NEW d \in Dealer, TakeDecline(d) PROVE TypeOK'
  BY <1>12 DEF TakeDecline, Channel
<1>13. ASSUME NEW d \in Dealer, Send(d) PROVE TypeOK'
  <2>1. PICK sent \in BOOLEAN, left \in BOOLEAN :
          /\ mails' = IF left THEN Append(mails, d) ELSE mails
          /\ work' = [work EXCEPT ![d] = IF sent THEN "email" ELSE @]
    BY <1>13 DEF Send
  <2>2. mails' \in Seq(Dealer)
    BY <2>1, OneMore
  <2>3. work' \in [Dealer -> Channel]
    BY <2>1 DEF Channel
  <2> QED BY <1>13, <2>2, <2>3 DEF Send
<1>14. ASSUME NEW d \in Dealer, SendThrows(d) PROVE TypeOK'
  BY <1>14, UndecidedType DEF SendThrows, Forget
<1>15. CASE UNCHANGED vars
  BY <1>15 DEF vars
<1> QED BY <1>1, <1>2, <1>3, <1>4, <1>5, <1>6, <1>7, <1>8, <1>9, <1>10, <1>11,
           <1>12, <1>13, <1>14, <1>15 DEF Next

(* The state has its shape, for any number of dealers.                      *)
THEOREM LeadTypeOK == Spec => []TypeOK
<1>1. Init => TypeOK
  BY TypeInit
<1>2. TypeOK /\ [Next]_vars => TypeOK'
  BY TypeStep
<1> QED BY <1>1, <1>2, PTL DEF Spec

-----------------------------------------------------------------------------
(* Rows *)

(* Writing rows from backed decisions leaves the rows true.                 *)
LEMMA RecordTrue ==
  ASSUME TypeOK, RowsTruthful, Backed(decided), NEW n \in Nat, RecordUpTo(n),
         UNCHANGED <<clicks, mails>>
  PROVE  RowsTruthful'
<1> SUFFICES ASSUME NEW d \in Dealer
             PROVE  /\ "web_form" \in rows'[d] => clicks[d] > 0
                    /\ "email" \in rows'[d] => d \in Range(mails)
  BY DEF RowsTruthful
<1>1. rows'[d] \in {rows[d], rows[d] \cup RowOf(decided[d])}
  BY DEF RecordUpTo
<1>2. /\ "web_form" \in RowOf(decided[d]) => decided[d] = "web_form"
      /\ "email" \in RowOf(decided[d]) => decided[d] = "email"
  BY DEF RowOf
<1> QED BY <1>1, <1>2 DEF RowsTruthful, Backed

LEMMA BackedInit == Init => BackedInv
  BY TypeInit DEF Init, BackedInv, RowsTruthful, Backed, Undecided

LEMMA UndecidedBacked == \A d \in Dealer : Undecided[d] = "none"
  BY DEF Undecided

LEMMA BackedStep == BackedInv /\ [Next]_vars => BackedInv'
<1> SUFFICES ASSUME BackedInv, [Next]_vars PROVE RowsTruthful' /\ Backed(decided)' /\ Backed(work)'
  BY TypeStep DEF BackedInv
<1> USE UndecidedBacked DEF BackedInv, RowsTruthful, Backed, scouted, decisions, memory, world, answered
<1>1. CASE Start
  BY <1>1 DEF Start, Forget
<1>2. CASE DeclineBatch
  BY <1>2 DEF DeclineBatch
<1>3. CASE SubmitDone
  BY <1>3 DEF SubmitDone
<1>4. CASE EmailDone
  BY <1>4 DEF EmailDone
<1>5. CASE Record
  <2>1. RowsTruthful'
    BY <1>5, RecordTrue, LeadAssumption DEF Record
  <2> QED BY <1>5, <2>1 DEF Record
<1>6. CASE CrashAndBoot
  <2>1. RowsTruthful'
    <3>1. CASE step = "record"
      <4>1. PICK n \in 0..NumDealers : RecordUpTo(n)
        BY <1>6, <3>1 DEF CrashAndBoot
      <4> QED BY <1>6, <4>1, RecordTrue, LeadAssumption DEF CrashAndBoot
    <3>2. CASE step # "record"
      BY <1>6, <3>2 DEF CrashAndBoot
    <3> QED BY <3>1, <3>2
  <2>2. work' = Undecided \/ work' = decided
    BY <1>6 DEF CrashAndBoot, Forget
  <2> QED BY <1>6, <2>1, <2>2 DEF CrashAndBoot
<1>7. ASSUME NEW A \in SUBSET Dealer, ApproveBatch(A) PROVE RowsTruthful' /\ Backed(decided)' /\ Backed(work)'
  BY <1>7 DEF ApproveBatch
<1>8. ASSUME NEW x \in {"approve", "decline"}, Answer(x) PROVE RowsTruthful' /\ Backed(decided)' /\ Backed(work)'
  BY <1>8 DEF Answer
<1>9. ASSUME NEW d \in Dealer, SubmitOne(d) PROVE RowsTruthful' /\ Backed(decided)' /\ Backed(work)'
  <2>1. PICK verdict \in {"web_form", "failed", Rerouted(d)}, clicked \in BOOLEAN :
          /\ verdict = "web_form" => clicked
          /\ work' = [work EXCEPT ![d] = verdict]
          /\ clicks' = [clicks EXCEPT ![d] = IF clicked THEN @ + 1 ELSE @]
    BY <1>9 DEF SubmitOne
  <2>2. \A e \in Dealer : clicks'[e] >= clicks[e]
    BY <2>1 DEF TypeOK
  <2>3. clicks \in [Dealer -> Nat] /\ clicks' \in [Dealer -> Nat]
    BY <2>1 DEF TypeOK
  <2>4. \A e \in Dealer : clicks[e] > 0 => clicks'[e] > 0
    BY <2>2, <2>3
  <2>5. verdict # "email"
    BY ReroutedType
  <2>6. verdict = "web_form" => clicks'[d] > 0
    BY <2>1, <2>3
  <2>7. UNCHANGED <<mails, rows, decided>>
    BY <1>9 DEF SubmitOne
  <2>8. work'[d] = verdict /\ \A e \in Dealer \ {d} : work'[e] = work[e]
    BY <2>1 DEF TypeOK
  <2> QED BY <2>4, <2>5, <2>6, <2>7, <2>8
<1>10. ASSUME NEW d \in Dealer, SkipCarried(d) PROVE RowsTruthful' /\ Backed(decided)' /\ Backed(work)'
  BY <1>10 DEF SkipCarried, TypeOK
<1>11. ASSUME NEW d \in Dealer, Ask(d) PROVE RowsTruthful' /\ Backed(decided)' /\ Backed(work)'
  BY <1>11 DEF Ask
<1>12. ASSUME NEW d \in Dealer, TakeDecline(d) PROVE RowsTruthful' /\ Backed(decided)' /\ Backed(work)'
  BY <1>12 DEF TakeDecline, TypeOK
<1>13. ASSUME NEW d \in Dealer, Send(d) PROVE RowsTruthful' /\ Backed(decided)' /\ Backed(work)'
  <2>1. PICK sent \in BOOLEAN, left \in BOOLEAN :
          /\ sent => left
          /\ mails' = IF left THEN Append(mails, d) ELSE mails
          /\ work' = [work EXCEPT ![d] = IF sent THEN "email" ELSE @]
    BY <1>13 DEF Send
  <2>2. mails \in Seq(Dealer)
    BY DEF TypeOK
  <2>3. \A e \in Dealer : e \in Range(mails) => e \in Range(mails')
    BY <2>1, <2>2, OneMore
  <2>4. sent => d \in Range(mails')
    BY <2>1, <2>2, OneMore
  <2>5. work'[d] \in {work[d], "email"} /\ (work'[d] # work[d] => sent)
          /\ \A e \in Dealer \ {d} : work'[e] = work[e]
    BY <2>1 DEF TypeOK
  <2>6. UNCHANGED <<clicks, rows, decided>>
    BY <1>13 DEF Send
  <2> QED BY <2>3, <2>4, <2>5, <2>6
<1>14. ASSUME NEW d \in Dealer, SendThrows(d) PROVE RowsTruthful' /\ Backed(decided)' /\ Backed(work)'
  BY <1>14 DEF SendThrows, Forget
<1>15. CASE UNCHANGED vars
  BY <1>15 DEF vars
<1> QED BY <1>1, <1>2, <1>3, <1>4, <1>5, <1>6, <1>7, <1>8, <1>9, <1>10, <1>11,
           <1>12, <1>13, <1>14, <1>15 DEF Next

(* A stored row that says a dealer was reached is never a lie: over every   *)
(* interleaving of answers, failures, crashes and partial recordings.       *)
THEOREM RowsAreTrue == Spec => []RowsTruthful
<1>1. Init => BackedInv
  BY BackedInit
<1>2. BackedInv /\ [Next]_vars => BackedInv'
  BY BackedStep
<1>3. BackedInv => RowsTruthful
  BY DEF BackedInv
<1> QED BY <1>1, <1>2, <1>3, PTL DEF Spec

-----------------------------------------------------------------------------
(* A recorded dealer is left alone *)

LEMMA UnrecordedInit == Init => UnrecordedInv
  BY TypeInit DEF Init, UnrecordedInv, Contacting

Before == {p \in Nat \X Nat : p[1] < p[2]}

LEMMA BeforeWellFounded == IsWellFoundedOn(Before, Nat)
  BY NatLessThanWellFounded, Zenon DEF OpToRel, Before

(* The first of some dealers is one of them.                                *)
LEMMA FirstIsIn ==
  ASSUME NEW S \in SUBSET Dealer, S # {}
  PROVE  First(S) \in S
<1>1. S \subseteq Nat
  BY LeadAssumption DEF Dealer
<1>2. PICK x \in S : \A y \in S : ~ (<<y, x>> \in Before)
  BY <1>1, WFMin, BeforeWellFounded
<1>3. \A y \in S : ~ (y < x)
  BY <1>1, <1>2 DEF Before
<1>4. \A y \in S : x <= y
  BY <1>1, <1>3
<1> QED BY <1>4 DEF First

(* A step of the run touches approved dealers only.                         *)
LEMMA NextIsApproved ==
  ASSUME UnrecordedInv, NEW d \in Dealer
  PROVE  SubmitOne(d) \/ Turn(d) => d \in approved
<1>1. ASSUME SubmitOne(d) PROVE d \in approved
  <2>1. {e \in approved : work[e] = "none"} \in SUBSET Dealer
    BY DEF UnrecordedInv, TypeOK
  <2> QED BY <1>1, <2>1, FirstIsIn DEF SubmitOne
<1>2. ASSUME Turn(d) PROVE d \in approved
  <2>1. d \in Undone
    BY <1>2, FirstIsIn DEF Turn, Undone
  <2> QED BY <1>2, <2>1 DEF Turn, Undone, UnrecordedInv, Contacting, OnlyApproved
<1> QED BY <1>1, <1>2

LEMMA UnrecordedStep == UnrecordedInv /\ [Next]_vars => UnrecordedInv'
<1> SUFFICES ASSUME UnrecordedInv, [Next]_vars PROVE UnrecordedInv'
  OBVIOUS
<1>0. TypeOK'
  BY TypeStep DEF UnrecordedInv
<1> USE <1>0, UndecidedBacked
    DEF UnrecordedInv, Contacting, OnlyApproved, scouted, decisions, memory, world, answered
<1>1. CASE Start
  BY <1>1 DEF Start, Forget
<1>2. CASE DeclineBatch
  BY <1>2 DEF DeclineBatch
<1>3. CASE SubmitDone
  BY <1>3 DEF SubmitDone
<1>4. CASE EmailDone
  BY <1>4 DEF EmailDone
<1>5. CASE Record
  BY <1>5 DEF Record
<1>6. CASE CrashAndBoot
  BY <1>6 DEF CrashAndBoot, Forget
<1>7. ASSUME NEW A \in SUBSET Dealer, ApproveBatch(A) PROVE UnrecordedInv'
  BY <1>7 DEF ApproveBatch, Eligible
<1>8. ASSUME NEW x \in {"approve", "decline"}, Answer(x) PROVE UnrecordedInv'
  BY <1>8 DEF Answer
<1>9. ASSUME NEW d \in Dealer, SubmitOne(d) PROVE UnrecordedInv'
  <2>1. d \in approved
    BY <1>9, NextIsApproved
  <2>2. \A e \in Dealer \ {d} : work'[e] = work[e]
    BY <1>9 DEF SubmitOne, TypeOK
  <2> QED BY <1>9, <2>1, <2>2 DEF SubmitOne
<1>10. ASSUME NEW d \in Dealer, SkipCarried(d) PROVE UnrecordedInv'
  BY <1>10, NextIsApproved DEF SkipCarried, Turn, TypeOK
<1>11. ASSUME NEW d \in Dealer, Ask(d) PROVE UnrecordedInv'
  BY <1>11 DEF Ask, Turn
<1>12. ASSUME NEW d \in Dealer, TakeDecline(d) PROVE UnrecordedInv'
  BY <1>12, NextIsApproved DEF TakeDecline, Turn, TypeOK
<1>13. ASSUME NEW d \in Dealer, Send(d) PROVE UnrecordedInv'
  <2>1. d \in approved
    BY <1>13, NextIsApproved DEF Send
  <2>2. \A e \in Dealer \ {d} : work'[e] = work[e]
    BY <1>13 DEF Send, TypeOK
  <2>3. step = "email" /\ UNCHANGED <<step, approved, decided, rows>>
    BY <1>13 DEF Send, Turn
  <2> QED BY <2>1, <2>2, <2>3
<1>14. ASSUME NEW d \in Dealer, SendThrows(d) PROVE UnrecordedInv'
  BY <1>14 DEF SendThrows, Forget
<1>15. CASE UNCHANGED vars
  BY <1>15 DEF vars
<1> QED BY <1>1, <1>2, <1>3, <1>4, <1>5, <1>6, <1>7, <1>8, <1>9, <1>10, <1>11,
           <1>12, <1>13, <1>14, <1>15 DEF Next

(* No step clicks or mails for a dealer that has a row.                     *)
LEMMA UntouchedStep ==
  ASSUME UnrecordedInv, [Next]_vars
  PROVE  \A d \in Dealer : rows[d] # {} => clicks'[d] = clicks[d] /\ ~ Mailing(d)
<1> USE DEF scouted, decisions, memory, world, answered
<1> SUFFICES ASSUME ~ UNCHANGED <<clicks, mails>>
             PROVE  \A d \in Dealer : rows[d] # {} => clicks'[d] = clicks[d] /\ ~ Mailing(d)
  BY DEF Mailing
<1>1. PICK d \in Dealer : SubmitOne(d) \/ Send(d)
  BY DEF Next, vars, Start, DeclineBatch, SubmitDone, EmailDone, Record, CrashAndBoot,
         ApproveBatch, Answer, SkipCarried, Ask, TakeDecline, SendThrows
<1>2. d \in approved /\ rows[d] = {}
  BY <1>1, NextIsApproved DEF Send, SubmitOne, Turn, UnrecordedInv, Contacting
<1>3. \A e \in Dealer \ {d} : clicks'[e] = clicks[e]
  BY <1>1 DEF SubmitOne, Send, UnrecordedInv, TypeOK
<1>4. \A e \in Dealer \ {d} : ~ Mailing(e)
  <2>1. CASE SubmitOne(d)
    BY <2>1 DEF SubmitOne, Mailing
  <2>2. CASE Send(d)
    <3>1. PICK left \in BOOLEAN : mails' = IF left THEN Append(mails, d) ELSE mails
      BY <2>2 DEF Send
    <3>2. mails' # mails => mails'[Len(mails')] = d
      BY <3>1, OneMore DEF UnrecordedInv, TypeOK
    <3> QED BY <3>2 DEF Mailing
  <2> QED BY <1>1, <2>1, <2>2
<1> QED BY <1>2, <1>3, <1>4

(* Once any row of a dealer is stored no later step contacts it: not the    *)
(* rest of the run, not a restart of it, not a second run.                  *)
THEOREM RecordedLeftAlone == Spec => RecordedStaysUntouched
<1>1. Init => UnrecordedInv
  BY UnrecordedInit
<1>2. UnrecordedInv /\ [Next]_vars => UnrecordedInv'
  BY UnrecordedStep
<1>3. UnrecordedInv /\ [Next]_vars =>
        [\A d \in Dealer : rows[d] # {} => clicks'[d] = clicks[d] /\ ~ Mailing(d)]_vars
  BY UntouchedStep
<1> QED BY <1>1, <1>2, <1>3, PTL DEF Spec, RecordedStaysUntouched

-----------------------------------------------------------------------------
(* One e-mail per approval *)

LEMMA PaidInit == Init => PaidInv
  BY TypeInit DEF Init, PaidInv

LEMMA PaidStep == PaidInv /\ [Next]_vars => PaidInv'
<1> SUFFICES ASSUME PaidInv, [Next]_vars PROVE PaidInv'
  OBVIOUS
<1>0. /\ TypeOK /\ TypeOK'
      /\ {approvals, Len(mails)} \subseteq Nat /\ {approvals', Len(mails')} \subseteq Nat
  <2>1. TypeOK /\ TypeOK'
    BY TypeStep DEF PaidInv
  <2>2. /\ mails \in Seq(Dealer) /\ mails' \in Seq(Dealer)
        /\ approvals \in Nat /\ approvals' \in Nat
    BY <2>1 DEF TypeOK
  <2> QED BY <2>1, <2>2
\* A step that sends nothing and hears nothing may only lose the answer in hand.
<1>a. ASSUME UNCHANGED <<mails, approvals>>, pending' \in {pending, "none", "decline"}
      PROVE  PaidInv'
  BY <1>a, <1>0 DEF PaidInv
<1> USE DEF scouted, decisions, memory, world, answered, Forget
<1>1. CASE Start
  BY <1>1, <1>a DEF Start
<1>2. CASE DeclineBatch \/ SubmitDone \/ EmailDone \/ Record
  BY <1>2, <1>a DEF DeclineBatch, SubmitDone, EmailDone, Record
<1>3. CASE CrashAndBoot
  BY <1>3, <1>a DEF CrashAndBoot
<1>4. ASSUME NEW A \in SUBSET Dealer, ApproveBatch(A) PROVE PaidInv'
  BY <1>4, <1>a DEF ApproveBatch
<1>5. ASSUME NEW x \in {"approve", "decline"}, Answer(x) PROVE PaidInv'
  BY <1>5, <1>0 DEF Answer, PaidInv
<1>6. ASSUME NEW d \in Dealer, SubmitOne(d) \/ SkipCarried(d) \/ Ask(d) \/ TakeDecline(d)
                                \/ SendThrows(d)
      PROVE PaidInv'
  BY <1>6, <1>a DEF SubmitOne, SkipCarried, Ask, TakeDecline, SendThrows
<1>7. ASSUME NEW d \in Dealer, Send(d) PROVE PaidInv'
  <2>1. PICK left \in BOOLEAN : mails' = IF left THEN Append(mails, d) ELSE mails
    BY <1>7 DEF Send
  <2>2. Len(mails') <= Len(mails) + 1
    BY <2>1, <1>0, OneMore DEF TypeOK
  <2>3. pending = "approve" /\ pending' = "none" /\ approvals' = approvals
    BY <1>7 DEF Send
  <2> QED BY <2>2, <2>3, <1>0 DEF PaidInv
<1>8. CASE UNCHANGED vars
  BY <1>8, <1>a DEF vars
<1> QED BY <1>1, <1>2, <1>3, <1>4, <1>5, <1>6, <1>7, <1>8 DEF Next

(* One approval pays for at most one e-mail, whatever is re-executed,       *)
(* crashed or restarted: the loop takes the answer in the step that mails.  *)
THEOREM MailsArePaid == Spec => []OneMailPerApproval
<1>1. Init => PaidInv
  BY PaidInit
<1>2. PaidInv /\ [Next]_vars => PaidInv'
  BY PaidStep
<1>3. PaidInv => OneMailPerApproval
  BY DEF PaidInv, TypeOK, OneMailPerApproval
<1> QED BY <1>1, <1>2, <1>3, PTL DEF Spec
=============================================================================
