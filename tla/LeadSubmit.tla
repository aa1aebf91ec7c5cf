----------------------------- MODULE LeadSubmit -----------------------------
(***************************************************************************)
(* What the dealer_web_lead_submit runs of one search profile do to the    *)
(* outside world: the submit step that clicks web forms, the emailFallback *)
(* step that re-executes from its input on every answer and remembers only *)
(* in process memory whom the user declined, and the recordConfirm step    *)
(* that writes lead_submissions at the very end - with crashes between.    *)
(*                                                                         *)
(* Dealers are numbered in the order of the eligible list.  Buyer mode:    *)
(* the test-mode brake (fuse_blocked) is left out.  Claims are DealerClaims.*)
(* Definitions named ...Bug are seeded faults: no action uses them.        *)
(***************************************************************************)
EXTENDS Naturals, Sequences, Functions

CONSTANTS
  NumDealers,   \* length of the eligible list
  MaxRuns,      \* bound: runs of the skill for this profile
  MaxAnswers,   \* bound: answers to e-mail cards, over all runs
  MaxCrashes    \* bound: crashes

ASSUME LeadAssumption == {NumDealers, MaxRuns, MaxAnswers, MaxCrashes} \subseteq Nat

Dealer == 1..NumDealers

VARIABLES
  form, email,  \* what scouting found: a usable web form, a contact e-mail
  step,         \* where the run stands, as its stored row says
  approved,     \* approvedDealerIds, saved
  decided,      \* submitDecisions, saved: the channel of each approved dealer
  card,         \* the dealer named on the parked e-mail card
  work,         \* in memory: the executing step's own copy of the decisions
  seen,         \* in memory: dealers this execution of emailFallback has passed
  pending,      \* in memory: the resume answer not yet consumed
  carry,        \* in memory: fallbackDecisionsByRun, dealers declined
  clicks,       \* history: form clicks that landed, by dealer
  mails,        \* history: the dealers e-mailed, in the order the mails left
  rows,         \* lead_submissions: the kinds of row each dealer has
  latest,       \* history: the last answer given on each dealer's card
  approvals, answers, runs, crashes   \* history and bounds

decisions == <<approved, decided, card>>
memory == <<work, seen, pending, carry>>
world == <<clicks, mails, rows>>
answered == <<latest, approvals, answers>>
scouted == <<form, email>>
vars == <<scouted, step, decisions, memory, world, answered, runs, crashes>>

Channel == {"none", "web_form", "needs_fallback", "email", "skipped_fallback", "failed"}
Undecided == [d \in Dealer |-> "none"]

First(S) == CHOOSE d \in S : \A e \in S : d <= e

\* Nothing of the emailFallback loop outlives the process.
Forget ==
  /\ work' = Undecided /\ seen' = {} /\ pending' = "none" /\ carry' = {}

Init ==
  /\ form \in [Dealer -> BOOLEAN] /\ email \in [Dealer -> BOOLEAN]
  /\ \A d \in Dealer : form[d] \/ email[d]    \* others never become eligible
  /\ step = "idle"
  /\ approved = {} /\ decided = Undecided /\ card = 0
  /\ work = Undecided /\ seen = {} /\ pending = "none" /\ carry = {}
  /\ clicks = [d \in Dealer |-> 0] /\ mails = <<>>
  /\ rows = [d \in Dealer |-> {}]
  /\ latest = [d \in Dealer |-> "none"] /\ approvals = 0 /\ answers = 0
  /\ runs = 0 /\ crashes = 0

----------------------------------------------------------------------------
(* Start and review *)

\* buildPayloads: a dealer with any prior row is skipped (no force_retry).
\* Seeded fault: only a prior web-form submission counts.
EligibleBug == {d \in Dealer : "web_form" \notin rows[d]}
Eligible == {d \in Dealer : rows[d] = {}}

Start ==
  /\ step \in {"idle", "ended"} /\ runs < MaxRuns /\ Eligible # {}
  /\ step' = "review" /\ runs' = runs + 1
  /\ approved' = {} /\ decided' = Undecided /\ card' = 0
  /\ Forget
  /\ latest' = [d \in Dealer |-> "none"]
  /\ UNCHANGED <<scouted, world, approvals, answers, crashes>>

\* The batch_review card: an explicit non-empty subset of the reviewed dealers.
ApproveBatch(A) ==
  /\ step = "review" /\ A # {} /\ A \subseteq Eligible
  /\ step' = "submit" /\ approved' = A
  /\ UNCHANGED <<scouted, decided, card, memory, world, answered, runs, crashes>>

DeclineBatch ==
  /\ step = "review" /\ step' = "ended"
  /\ UNCHANGED <<scouted, decisions, memory, world, answered, runs, crashes>>

----------------------------------------------------------------------------
(* The submit step *)

\* No web form (any more): e-mail it is, if there is an address.
\* Seeded fault: the fallback reason is stored where the channel belongs.
ReroutedBug(d) == IF email[d] THEN "no_form" ELSE "failed"
Rerouted(d) == IF email[d] THEN "needs_fallback" ELSE "failed"

\* The verdict on the next approved dealer.  A failed attempt - a throw, or the
\* per-dealer deadline - does not tell whether its click had landed.
SubmitOne(d) ==
  /\ step = "submit"
  /\ {e \in approved : work[e] = "none"} # {}
  /\ d = First({e \in approved : work[e] = "none"})
  /\ \E verdict \in {"web_form", "failed", Rerouted(d)}, clicked \in BOOLEAN :
       /\ ~ form[d] => verdict = Rerouted(d)
       /\ clicked => form[d] /\ verdict \in {"web_form", "failed"}
       /\ verdict = "web_form" => clicked
       /\ work' = [work EXCEPT ![d] = verdict]
       /\ clicks' = [clicks EXCEPT ![d] = IF clicked THEN @ + 1 ELSE @]
  /\ UNCHANGED <<scouted, step, decisions, seen, pending, carry, mails, rows,
                 answered, runs, crashes>>

SubmitDone ==
  /\ step = "submit" /\ \A d \in approved : work[d] # "none"
  /\ step' = "email" /\ decided' = work
  /\ UNCHANGED <<scouted, approved, card, memory, world, answered, runs, crashes>>

----------------------------------------------------------------------------
(* The emailFallback step: one action per turn of its loop *)

\* The dealers this execution has still to deal with.
Undone == {d \in Dealer : work[d] = "needs_fallback" /\ d \notin seen}
Turn(d) == step = "email" /\ Undone # {} /\ d = First(Undone)

SkipCarried(d) ==
  /\ Turn(d) /\ d \in carry
  /\ work' = [work EXCEPT ![d] = "skipped_fallback"]
  /\ UNCHANGED <<scouted, step, decisions, seen, pending, carry, world, answered,
                 runs, crashes>>

\* No answer in hand: park the run at a card for this dealer.  What this
\* execution decided so far is dropped with its work copy.
Ask(d) ==
  /\ Turn(d) /\ d \notin carry /\ pending = "none"
  /\ step' = "ask" /\ card' = d
  /\ work' = Undecided /\ seen' = {}
  /\ UNCHANGED <<scouted, approved, decided, pending, carry, world, answered,
                 runs, crashes>>

TakeDecline(d) ==
  /\ Turn(d) /\ d \notin carry /\ pending = "decline"
  /\ work' = [work EXCEPT ![d] = "skipped_fallback"]
  /\ carry' = carry \cup {d}
  /\ pending' = "none"
  /\ UNCHANGED <<scouted, step, decisions, seen, world, answered, runs, crashes>>

\* An approval sends.  A "partial" outcome - the adapter threw, with or without
\* the mail gone - leaves the channel as it was and is not retried.
\* Seeded fault: the answer is not consumed.
SendBug(d) ==
  /\ Turn(d) /\ d \notin carry /\ pending = "approve"
  /\ mails' = Append(mails, d)
  /\ work' = [work EXCEPT ![d] = "email"]
  /\ UNCHANGED <<scouted, step, decisions, seen, carry, pending, clicks, rows,
                 answered, runs, crashes>>
Send(d) ==
  /\ Turn(d) /\ d \notin carry /\ pending = "approve"
  /\ \E sent, left \in BOOLEAN :
       /\ sent => left
       /\ mails' = IF left THEN Append(mails, d) ELSE mails
       /\ work' = [work EXCEPT ![d] = IF sent THEN "email" ELSE @]
  /\ seen' = seen \cup {d}
  /\ pending' = "none"
  /\ UNCHANGED <<scouted, step, decisions, carry, clicks, rows, answered,
                 runs, crashes>>

\* sendAndRecord threw before it had a draft: the step fails and the run ends.
SendThrows(d) ==
  /\ Turn(d) /\ d \notin carry /\ pending = "approve"
  /\ step' = "ended" /\ Forget
  /\ UNCHANGED <<scouted, decisions, world, answered, runs, crashes>>

EmailDone ==
  /\ step = "email" /\ Undone = {}
  /\ step' = "record" /\ decided' = work
  /\ UNCHANGED <<scouted, approved, card, memory, world, answered, runs, crashes>>

\* The user answers the parked card; emailFallback runs again from its input.
Answer(x) ==
  /\ step = "ask" /\ answers < MaxAnswers
  /\ step' = "email"
  /\ work' = decided /\ seen' = {} /\ pending' = x
  /\ latest' = [latest EXCEPT ![card] = x]
  /\ approvals' = approvals + (IF x = "approve" THEN 1 ELSE 0)
  /\ answers' = answers + 1
  /\ UNCHANGED <<scouted, decisions, carry, world, runs, crashes>>

----------------------------------------------------------------------------
(* recordConfirm, crash and boot *)

\* The row recordConfirm writes for a decision; an undelivered fallback has none.
\* Seeded fault: an undelivered fallback is recorded as sent.
RowOfBug(channel) ==
  CASE channel \in {"web_form", "email", "failed"} -> {channel}
    [] channel = "skipped_fallback" -> {"failed"}
    [] channel = "needs_fallback" -> {"email"}
    [] OTHER -> {}
RowOf(channel) ==
  CASE channel \in {"web_form", "email", "failed"} -> {channel}
    [] channel = "skipped_fallback" -> {"failed"}
    [] OTHER -> {}

RecordUpTo(n) ==
  rows' = [d \in Dealer |-> IF d <= n THEN rows[d] \cup RowOf(decided[d]) ELSE rows[d]]

Record ==
  /\ step = "record"
  /\ RecordUpTo(NumDealers)
  /\ step' = "ended"
  /\ UNCHANGED <<scouted, decisions, memory, clicks, mails, answered, runs, crashes>>

\* The process dies and boots.  A parked run survives without its carry; an
\* executing step is run again from scratch, without the answer that had
\* resumed it, or canceled if it is too old.  Rows are inserted one by one.
CrashAndBoot ==
  /\ crashes < MaxCrashes /\ crashes' = crashes + 1
  /\ \/ step \in {"review", "ask"} /\ step' = step /\ Forget
     \/ step \in {"submit", "email", "record"} /\ step' = "ended" /\ Forget
     \/ step \in {"submit", "record"} /\ step' = step /\ Forget
     \/ /\ step = "email" /\ step' = step
        /\ work' = decided /\ seen' = {} /\ pending' = "none" /\ carry' = {}
  /\ IF step = "record" THEN \E n \in 0..NumDealers : RecordUpTo(n) ELSE rows' = rows
  /\ UNCHANGED <<scouted, decisions, clicks, mails, answered, runs>>

Next ==
  \/ Start \/ DeclineBatch \/ SubmitDone \/ EmailDone \/ Record \/ CrashAndBoot
  \/ \E A \in SUBSET Dealer : ApproveBatch(A)
  \/ \E x \in {"approve", "decline"} : Answer(x)
  \/ \E d \in Dealer :
       \/ SubmitOne(d) \/ SkipCarried(d) \/ Ask(d) \/ TakeDecline(d)
       \/ Send(d) \/ SendThrows(d)

Spec == Init /\ [][Next]_vars

----------------------------------------------------------------------------
(* Properties *)

\* The shape of the state.
TypeOK ==
  /\ form \in [Dealer -> BOOLEAN] /\ email \in [Dealer -> BOOLEAN]
  /\ step \in {"idle", "review", "submit", "email", "ask", "record", "ended"}
  /\ approved \in SUBSET Dealer /\ card \in Dealer \cup {0}
  /\ decided \in [Dealer -> Channel] /\ work \in [Dealer -> Channel]
  /\ seen \in SUBSET Dealer /\ carry \in SUBSET Dealer
  /\ pending \in {"none", "approve", "decline"}
  /\ clicks \in [Dealer -> Nat] /\ mails \in Seq(Dealer)
  /\ rows \in [Dealer -> SUBSET {"web_form", "email", "failed"}]
  /\ latest \in [Dealer -> {"none", "approve", "decline"}]
  /\ {approvals, answers, runs, crashes} \subseteq Nat

\* The independent approval of the e-mail scope: whatever is re-executed,
\* crashed or restarted, one approval pays for at most one e-mail.
OneMailPerApproval == Len(mails) <= approvals

\* A row that says a dealer was reached is never a lie: a click landed, or an
\* e-mail left, on that channel.
RowsTruthful ==
  \A d \in Dealer :
    /\ "web_form" \in rows[d] => clicks[d] > 0
    /\ "email" \in rows[d] => d \in Range(mails)

\* In this step a mail leaves for dealer d.
Mailing(d) == mails' # mails /\ mails'[Len(mails')] = d

\* Once any row of a dealer is stored no later step contacts it: not the rest
\* of the run, not a restart of it, not a second run.
RecordedStaysUntouched ==
  [][\A d \in Dealer : rows[d] # {} => clicks'[d] = clicks[d] /\ ~ Mailing(d)]_vars

\* dealerWebLeadSubmit.ts:1329-1331: the single resume answers the first
\* undecided fallback, "so a re-execution re-derives the same order": an e-mail
\* goes to the dealer on the card that was approved.  Violated: an approved
\* dealer is not remembered, so the next approval is spent on it again.
AnswerGoesToItsCard ==
  [][\A d \in Dealer : Mailing(d) => d = card]_vars

\* dealerWebLeadSubmit.ts:581-583: "a crash mid-run simply re-asks,
\* fail-closed, never fail-open".  Violated: the carry is lost in the crash, and
\* the answer to another dealer's card mails the dealer the user declined.
DeclineHolds ==
  [][\A d \in Dealer : Mailing(d) => latest[d] # "decline"]_vars
=============================================================================
