# AutoBroker in TLA+

AutoBroker finds car dealers for a buyer's search, contacts them by web form or
e-mail behind human approval gates, reads what they answer and compares their
quotes. The interesting part is not any one of these but that they are
long-running workflows: they suspend for weeks at a gate, survive restarts of the
server, share dealers and mail threads with other searches, and are started by
people, by timers and by a scheduler at once. These modules model that machinery,
check it with TLC on small instances, and prove the results that matter most with
TLAPS for every value of the constants.

Run a check with `tlc -workers 2 -config <cfg> <module>` and the proofs with
`tlapm <module>Proofs.tla`. `PROJECT.json` holds the runs, the seeded faults that
show each property can fail, the line-by-line map to the source, the hazards and
the findings.

## 1. The system and its parts

| part | state | operations | modelled in |
|---|---|---|---|
| Skill runs (`apps/server/src/skillRuns.ts`) | `runs` (pending gate, terminal flags, decision claims) | start, formDecision, translate, reattach, terminal hook | SkillRuns |
| Ownership guard and boot (`packages/workflows/src/runtimeGlue.ts`, `apps/server/src/boot.ts`) | `ownedRunIds`; the stored rows of the engine | beginRunGuarded, recoverOnBoot, restart or cancel of stale runs | SkillRuns; restarted steps also in Correspondence, QuotePipeline, ListingStore |
| Activation registry (`packages/tools/src/pipeline/activationRegistry.ts`) | `pipeline.active_run.<profile>` rows | claim, clear by run, boot reconcile | SkillRuns |
| Event streams and the page (`apps/server/src/runPubSub.ts`, `streamV2.ts`, `apps/ui/src/chat/transport.ts`) | a run's frames in memory; a connection's queue; what the page was given | append, replay on subscribe, translate, reconnect, fallback | RunStream |
| Dealership exclusivity (`packages/tools/src/leadSubmissions/claimDealer.ts`) | `profile_dealers.status` | claim; release on close, purge, closeout and dormancy | DealerClaims |
| Progress watermark and dormancy sweep (`packages/tools/src/pipeline/`) | the progress marker of a profile | mark, age, sweep at boot | DealerClaims |
| Profile lifecycle (`packages/tools/src/profile/profileService.ts`) | `search_profiles.status` | close, restore, purge (create, update, replace left out) | DealerClaims, Correspondence |
| Lead-submit run (`packages/workflows/src/dealerWebLeadSubmit.ts`) | approved dealers, channel decisions, `fallbackDecisionsByRun`, `lead_submissions` rows | review, submit, emailFallback, recordConfirm | LeadSubmit; its claims in DealerClaims |
| Inbox check, follow-up, closeout (`dealerInboxCheck.ts`, `negotiationFollowup.ts`, `dealerCloseoutEmail.ts`) | messages, threads, suppressions, the inbox watermark, `profile_dealers` | discover, review, apply, stamp; select, approve, send, confirm; close and suppress | Correspondence; the closeout's claims in DealerClaims |
| Quote pipeline and reply extraction (`quotePipeline.ts`, `dealerReplyExtract.ts`, `packages/tools/src/pipeline/`) | extraction status of messages, quotes, audits, compared and admission watermarks | detect, four children, verdict, targeted ask; the tick's admission | QuotePipeline |
| Inventory scans (`inventorySiteScan.ts`, `inventoryLinkScan.ts`, `inventoryAggregatorScan.ts`, `packages/tools/src/inventory/persist.ts`) | inventory rows by VIN or page; captures in memory | capture, extract, review, persist with promotion and sweep | ListingStore |
| Gmail limiter (`packages/tools/src/limiter/`) | budget, arrival time, permits, circuit | runGmailSend and its retries | SendLimiter |
| Portfolio scheduler (`apps/server/src/portfolio/portfolioScheduler.ts`) | running set, recency, the tick in flight | tick, onRunTerminal, onRunSuspended, onRunResumed | PortfolioScheduler |
| Scheduled jobs (`apps/server/src/scheduler.ts`, `packages/tools/src/scheduler/watermark.ts`) | job claim rows, success watermarks, in-flight set, power blocker | croner fire, catch-up pass, claim, release | JobLease |
| Pipeline reset, approval inbox, browser, desktop freshness, quote arithmetic, LLM, schema, harness | - | - | not modelled (section 6) |

How they interact. An HTTP client, the portfolio scheduler or a scheduled job
calls `SkillRunService.start`, which claims the profile's activation row, awaits
the ownership guard and lets the engine (Mastra, external) drive. The engine's
promise settles at a gate or at the end; `translate` publishes it on the run's
stream, and the terminal hook frees the row, the ownership and the scheduler's
slot. A client answers a gate through `formDecision`, which resumes the engine.
The bodies of the runs share the product database: lead and closeout runs claim
and free dealers, checks and closeouts write threads, passes and extractions write
quotes, scans write inventory. A crash loses the streams, `runs`, claims of
decisions, ownership, slots, captures and the `fallbackDecisionsByRun` carry; the
engine's rows and the product database stay, and `boot` reconciles them:
suspended runs are reattached, young stale ones restarted at their interrupted
step, old ones canceled.

What is hard: steps of other actors across every `await` (start, resume, tick,
send loops); refusals that roll back what another call owns; restarts, where
memory, engine rows and product rows disagree; re-execution of a step; weeks at a
gate while sweeps, mails and routes run; leases that run out under a slow handler;
flags and frontiers computed before a child run and used after it; connections
that drop with chunks on the wire. What makes each part correct:

* skill runs: one live run per profile and per id; an answer drives the gate it
  was given for and is acknowledged only if it did; terminals free everything;
  streams end;
* streams: one end frame, nothing lost or doubled, a page that gets to the truth;
* claims: a dealer is bound to one search; a run contacts only what it holds;
* lead submit and correspondence: no mail without an approval of its own, rows tell
  the truth, silence and closeouts are respected, no reply is passed over;
* quote pipeline: watermarks name only what was read, `ok` is true, work is done;
* inventory: one row per car, nothing just seen goes off sale;
* limiter: permits, the daily budget, every call settles;
* portfolio scheduler: no slot without a run, the cap;
* scheduled jobs: one run of a job at a time, no fire run twice or lost.

The hazards, each at its line, are in `PROJECT.json`.

## 2. The modules

**VirtualActor** says what a client may rely on: a set of live runs and a set of
ended ones; a run begins only with a fresh id and on a free profile.

**SkillRuns** is the implementation, at the grain of the Node event loop: one
action per stretch between two awaits. `start` is StartRun (claim, then the await
of the guard) and StartAccepted or StartRefused; the engine settles (Settle) or
rejects (Reject) a drive; DeliverStart and DeliverResume are the `.then` handlers with
`translate` and the terminal hook inside, and the ...Fault variants are the same
handlers when the activation DELETE throws. `formDecision` is ReplayDecision and
SubmitDecision, and the dispatched resume is ResumeEngine, ResumeThrows and
ResumeRejected. The ...Fault variants end before the row is gone; a write after the
DELETE (the progress mark of a completed run) may throw too, which PortfolioScheduler
and RunStream have. Crash empties memory; BootRecover and BootServe are the two
halves of the boot, between which stale runs may already have moved on. Variables: `act`
(activation rows), `wf` and `gate` (engine rows), `owned`, `mem` (RunState), `claims`
(the decision table), `drive` (the promise awaited), and the histories `minted`,
`answer`, `acked`.

**RunStream**: one run, its channel, one page. The server side is AppendFrames (wire
wins: nothing follows a terminal frame), Subscribed (replay of the log, then live) and
the translator whose ids count the frames of its own connection; screenshots go to live
connections and are in no replay. TranslateResult is the whole of `translate`,
TranslateFails one that throws after it marked the run as terminal, at the DELETE or at
the progress mark, and ResumeRejected a resume that fails after the engine took it:
then no end frame ever comes (Muted). The page side is the resilient transport: Read
skips as many chunks as it was given before, Drop and Leave cut it, Reconnect and
AttemptFails use up its attempts, FallBack asks for the status. Place is what the page
keeps: a chunk under the id of an earlier part replaces it.

**DealerLock** and **DealerClaims**: a lock per dealer, and the rows that implement it.
Rows have the four values of `profile_dealers.status`, or are not there (`none`);
ClaimDealer is one SQL statement with its unique index, Claim the loop over the
approved dealers in any order; each run is a phase with the dealers it planned (`plan`)
and still has to contact (`todo`); Close, Restore and Purge are the routes; Tick lets
days pass; Boot sweeps dormant profiles. `ousted` records that the user closed or
purged a search under its run.

**LeadSubmit**: the steps of one profile's lead runs as the outside world sees
them. `work`, `seen` and `pending` are the local variables of the executing
emailFallback step, `carry` the process-wide map of declines; a crash forgets all
four. `clicks` and `mails` are what really left (a count per dealer, and the dealers
mailed in order), `rows` what was stored.

**Correspondence**: the mail between searches and dealers. An inbox check fetches
and routes (Discover), parks at its card, files (Apply) and moves the watermark
(AdvanceWatermark); a follow-up selects by the caps (Select), parks, sends one
dealer after another (Draft, Sent or Partial) and confirms; a closeout assembles,
parks, sends, closes and suppresses each thread in one transaction, and
transitions. `fresh` says whether a thread has mail inside the search's next
window; `gone`, `consents` and `pokes` are histories. Crash sends every executing
run back to its step with `redo`, or ends it, with a mail in flight landing or not.

**QuotePipeline**: one search's passes, extractions and admissions. Detect computes
the flags once; StartExtract, ScrapeChild, StartAudit and StartCompare run the
children in canonical order, each with the point at which it reads (RankQuotes,
PersistAudits); LogCompletion derives the verdict from the flags. A targeted pass goes
from its gate over SendAsk to RecordAsk or RecordCollides. TickDecides, TickStarts and
TickRecords are the scheduler's evaluation, start and record, with its six-hour
floor. A restart may leave a pass and its former child running side by side.

**ListingStore**: the rows of one dealer's cars, by VIN (`vinRow`) and without VIN by
page (`urlRow`), and overlapping scans of the three kinds. A capture reads each car's
VIN, page or both, or misses it; Persist is the one transaction of
`persistScanResults`: VIN arm, VIN-absent arm, promotion of a page's row to its VIN,
refresh, collapse guard and sweep of what was not observed since the scan's
watermark. The watermark is the set of rows other scans wrote since.

**SendLimiter**: `runGmailSend` between its awaits: admission and reservation, the
pace wait, the semaphore (Enter, Released with hand-over), attempts, backoff,
recheck of the circuit, re-pacing, refund. Time is in ticks, a day a few of them.

**PortfolioScheduler**: a tick that keeps its candidate queue and the number of
free slots across awaits, beside the lifecycle callbacks, HTTP starts and a
restart. A run keeps its id (`gen`), since the code compares ids after the await.
`mute` are runs reattached after a boot: their events carry no profile. Resume takes
the slot before the engine is asked; ResumeRejected leaves it, with the run back at
its gate or over and its gate still listed ("stuck", so ResumeAgain may answer it once
more). TerminalThrows is an end whose hook throws before it reaches the scheduler,
with the activation row still there ("dead") or gone. `leaked` records the slots that
are kept this way, and those a tick takes for a run that parked, was stuck or died
while it awaited the start; the profile's next parking, resume or heard end clears them.

**JobLease**: several processes over one database. Time is relative: a lease is
the ticks it has left, a watermark the number of fires it covers. TryClaim is the
UPSERT with its expiry test, Recheck the second look at the watermark, Succeed and
Throw the handler, Finish the `finally` block. A dead process's claim row belongs
to nobody who could release it (`Gone`).

The MC modules define the structured constants and the symmetry sets; the other
modules are checked as they are. Symmetry is used in dealer_claims, listing_store
and correspondence, which check no liveness property. Definitions named ...Bug are
seeded faults that no action uses: each shows that some property notices the
corresponding mistake in the code.

The modules are not composed into one state space. They meet at narrow places,
and each takes the other side in its most general form: a run is a phase that may
change whenever SkillRuns allows it, one live run per search is what VirtualActor
promises, `sendAndRecord` may succeed, fail or stop half-way, a page may show
anything.

## 3. The runs

| run | checks | bounds | distinct states |
|---|---|---|---|
| skill_runs | AtMostOneLive, AckHonest, AnswersSeenGate, TerminalFreesProfile, refinement of VirtualActor; StreamsTerminate, DecisionsSettle | 2 run ids of one profile, 2 gates, 2 answers, 1 crash, failing DELETEs, rejected drives | 93,504 |
| dealer_claims | Exclusivity, SendsOnlyHeld, HolderUndisturbed, refinement of DealerLock | 2 searches, 2 dealers, any number of runs, crashes and days | 1.0 M |
| lead_submit | OneMailPerApproval, RowsTruthful, RecordedStaysUntouched | 2 dealers with any form/e-mail mix, 2 runs, 3 answers, 1 crash | 71 k |
| scheduler | NoGhostSlot, AdmissionsWithinCap | 2 profiles, 1 slot, 3 runs each, 1 restart, any resume rejected, any hook throwing | 106 k |
| job_lease | OneInLease, NoDoubleRun, BlockerNotLeaked; FiresCatchUp | 2 processes, 3 fires, lease of 2 ticks, 1 throw, 2 deaths | 25 k |
| listing_store | NoTwinsMade, SeenStaysLive, RetiredWasAbsent | 2 cars, 2 scans at a time, 3 in all, 1 crash, collapse floor 2 | 819 k |
| run_stream | OneEnd, NothingLostOrDoubled, TrueEnding; TurnLands, GateShows | 3 frames, 1 of them a screenshot, 1 gate, 2 drops, 2 attempts, 1 crash, throwing translations, rejected resumes | 677 k |
| correspondence | NoPester, MailsConsented, ClosedOutIsLeftAlone, WatermarkHonest | 2 searches, 1 dealer, 2 replies, 4 runs, caps 2 and 3, 1 crash | 1.03 M |
| quote_pipeline | ComparedWasRanked, NoInputSwallowed, AsksApproved, OkIsTrue; CatchesUp | 1 reply, 3 modes, 1 listing, 1 extraction at a time, 1 targeted ask or lone extraction, 1 failed child or crash | 1.33 M |
| send_limiter | PermitsKept, BudgetKept; CallsSettle | 4 calls, 1 permit, budget 2, 1 retry, 3 ticks with a midnight | 126 k |
| answer_goes_to_its_card | AnswerGoesToItsCard (violated) | as lead_submit, no crash | |
| sent_asks_recorded | SentAsksRecorded (violated) | 1 reply, 1 mode, 1 listing, no fault | |

Why the bounds are enough: every contract relates two parties (two runs of a profile,
two searches of a dealer, two processes of a job, two scans of a car, a page and its
server, a pass and an extraction), so two of each with every interleaving show each
conflict; a second gate is needed for a stale answer to meet a later gate; two profiles
with one slot give an admission to lose and one to keep, and three runs each let a
leaked slot meet the next run and the one after it; a lease of two ticks lets a handler
be overtaken while its successor is still inside its own; two drops let a reconnect be
cut again; a cap of two lets one follow-up be counted before and one after a parked
card; one reply in three modes gives quotes that arrive before, during and after a
compare; a floor of two and two cars reach both sides of the collapse guard; one permit
and four calls let a waiter wait behind a backoff across midnight. skill_runs also
holds with two crashes (a boot that interrupts a boot), at eight times the time.
DealerClaims has no bound on runs or crashes at all: its state space is finite, with
the days since the last progress cut off one past the window. The constants named
Max..., CallCount, LastSubmit and the slots and readers are the only bounds put into
guards; MaxUnanswered, MaxTotal, MaxAttempts, MaxRetries, MaxBackoff are the code's
own. `CHECK_DEADLOCK FALSE` is set where these counters (or a finished workload) really
let the system stop.

Fairness. skill_runs assumes that the event loop turns: a start in flight is answered,
a dispatched resume reaches the engine, an executing engine settles, a settled promise
is delivered. Nothing is assumed of clients or of a restart; StreamsTerminate excuses a
dead process, and a run whose DELETE failed in the terminal hook (Muted: all its later
frames are dropped, the end frame included). run_stream assumes the page's reader and
timers, that a settled promise is translated or its translation throws (TranslateResult
or TranslateFails), and that a dead process is booted again; nothing makes the run go
on or the network hold. TurnLands excuses a muted run: the code leaves its channel open
without an end until the process dies. quote_pipeline assumes that passes, ticks and
extractions take their steps, and that six hours elapse; users owe no answer, so
CatchesUp excuses a parked ask. It has one reader and one attempt per reply, so
CatchesUp says nothing of retries or of extractions side by side (OkIsTrue is proved
for any readers). send_limiter assumes that timers fire and Gmail answers. job_lease
assumes that the heartbeat asks again every minute (`setInterval`), that handlers
return, that the clock runs, and that a dead server is relaunched (the desktop host
does; without a process there is nobody to catch up).

## 4. What the code does not keep

Two defects have a run of their own:

* **answer_goes_to_its_card**: with two dealers to e-mail, the answer to the second
  card e-mails the first dealer again and never reaches the second: the loop
  remembers declines but not approvals.
* **sent_asks_recorded**: when the reply already has a quote of the preferred mode,
  the targeted ask's mail leaves, the plain INSERT meets the unique index and the run
  fails with nothing recorded. Neither a crash nor concurrency is needed.

### Counterexamples kept beside the runs

Statements of the repository that the modules refute; each has a configuration that
reproduces the trace (`tlc -config <cfg> <module>`).

| cfg and property | module | says | what happens |
|---|---|---|---|
| NoZombieActivation | MCSkillRuns | `activationRegistry.ts:14-15` "abandoned/terminal runs leave no zombie entry" | boot takes its report of stale runs before it cancels some of them and keeps the activation rows of all (`boot.ts:217-220`): the profile refuses new runs until the next boot |
| ParkedGatesListed | MCSkillRuns | `skillRuns.ts:1795` "Every currently parked gate across ALL runs" | a stale run that boot restarts and that parks again has no RunState: its gate is listed nowhere and cannot be answered before another boot |
| ClosedHoldsNothing | MCDealerClaims | `profileService.ts:508-512` closing releases, or "a closed search would hold its dealers bound forever" | an approval given after the close claims dealers for the closed search |
| DeclineHolds | LeadSubmit | `dealerWebLeadSubmit.ts:581-583` "a crash mid-run simply re-asks, fail-closed, never fail-open" | the declines are lost, and the approval of the next card is spent on the dealer that was declined |
| CapHeld | MCPortfolioScheduler | `portfolioScheduler.ts:5-6` "under a hard concurrency cap" | the slot of a parked run is given away and its resume takes another, above the cap |
| SuspendedHoldsNoSlot | MCPortfolioScheduler | `portfolioScheduler.ts:19-20` "A run parked at a human gate (suspended) holds ZERO slots" | the run parks before the tick that started it is back from its await, and the tick then takes the slot (the activation row is still there); or its resume was rejected after the slot was taken |
| ResumedSlotFreed | MCPortfolioScheduler | `skillRuns.ts:2133-2134` "a re-suspend / terminal below frees it again" | a rejected resume is followed by neither: the slot stays taken, for ever if the run has failed |
| NoPartOverwritten | RunStream | `streamV2.ts:29-30`, ids from the backlog position are the same in a replay | a screenshot takes a position on a live connection and none in a replay: after a reconnect a new frame comes under the id of an old part and replaces it |
| ObservedIsLive | MCListingStore | `persist.ts:205-208`, a row re-observed "must never linger as a zombie" | the page's row of a car stays `vin_promoted` when its VIN row was retired, so a reading without the VIN ends there; the comment names the exception, its effect is a car on the lot and in no list |
| ContactsHeld | MCCorrespondence | `claimDealer.ts:5`, `routing.ts:80-83`: a dealer belongs to one search, replies are matched to the search it is bound to | the join asks for any `profile_dealers` row, whatever its status: a search that lost the conflict for a dealer takes the dealer's reply, owns the thread, and its follow-up writes to the dealer another search holds |
| ClosedNotRecontacted | MCCorrespondence | `replyTargets.ts:36` threads in a closed state "are excluded outright" | the check is made when the card is drafted; another search that takes the thread over and closes it out meanwhile does not stop the approved send |
| RestartSendsNothing | MCCorrespondence | `boot.ts:23-28` side effects "stay safe under a restart" since the gate fails closed | the send step carries its approver itself (a constant that always approves): a restarted send step mails the card without anybody's answer in that process, dealers already mailed included |

Three more are stated in the modules without a configuration: HardCap
(SendLimiter; `gmailLimiter.ts:143-144`), broken by a call admitted before midnight
whose failure is refunded to the new day; SucceededIsTerminal (QuotePipeline;
`candidates.ts:12-13`), broken by two extractions of one reply; ExtractMeansUnread
(QuotePipeline; `detectPipelineState.ts:14-15`), broken by drafts, which are
`pending` rows too.

### Behaviour worth knowing

Not contradicted by any line of the repository, but visible in the models:

* After a reattach the channel's backlog may be shorter than what a page has already
  counted; it then skips new frames, the gate and the end among them, and goes on
  reconnecting. TurnLands and GateShows except this case.
* The inbox watermark is the time after the human gate: replies that came while the
  card was parked are outside the next window.
* A batch UPSERT of one search re-opens and takes over a thread another search has
  ended.
* A row's source follows the last scan that saw it; a link scan or another SRP
  address re-homes a row, and its car is then not swept after it was sold. A page
  rendered without rows retires a lot of fewer than six cars.
* The audit flag stays up for quotes older than a week or of a message that failed
  later, and an in-place re-extraction keeps the quote id, so audit and comparison
  of the old content stand for the new one.
* A parent pass and its former child, both restarted, extract side by side.
* A shopping site that observes a car on its retired row only does not keep the
  car's other row on sale: SeenStaysLive counts an observation on a row on sale.
* Circuit and budget are checked at admission (the circuit also after a backoff):
  calls already admitted still go out.

## 5. The proofs

Every safety property that a run checks, invariant, action property or refinement,
is also a theorem: TLC shows it on the instance of section 3, the theorem for every
value of the constants, from the assumptions named in the modules. What each proof
rests on:

`SkillRunsProofs`, for any runs, profiles, answers, gates and crashes:
TypeCorrect; Inductive (`[]IInv`); OneRunPerProfile (`[]AtMostOneLive`);
ImplementsVirtualActor (`Spec => ActorSpec`); AcksAreHonest (`[]AckHonest`);
AnswersMeetTheirGate (AnswersSeenGate) and TerminalsRelease
(`[]TerminalFreesProfile`). AtMostOneLive is not inductive: two starts could both be
past the guard. IInv adds that the activation row follows the run, from before the
first await of `start` (ActivationFollowsRun) to the delivery of its end; that a
promise never outlives the row it drives (DriveMatchesRow), so the delivery which
clears the row comes after the run is over; that a tracked run exists in the engine
(TrackedExists), so a dispatched resume cannot create one; and what memory holds
while the process is down or booting (ProcessMemory), which makes the rows that boot
keeps cover every live run. Besides RunsAssumption (the shape of the constants),
Inductive, OneRunPerProfile and ImplementsVirtualActor assume NoOrphanRow: a drive
that rejects does not leave the engine's row at "running". If it did, the error path
of `start` would free the profile of a run whose row still says it is running, and a
boot could restart that run beside its successor. This is an assumption about the
engine, which is outside the repository; skill_runs checks the rejections that leave
a failed row. The other three do without it. AcksAreHonest rests on an invariant of
the claim table (HonestInv). AnswersMeetTheirGate needs the way a decision and its
gate stay together (SeenInv): a pending decision names the suspension it was minted
for until the engine suspends again, and a run executes only while its row says so.

`DealerClaimsProofs`, for any searches, dealers and dormancy window, from
ClaimsAssumption alone: ClaimsTypeCorrect; ClaimsExclusive; ClaimsUndisturbed (an
action property: from type correctness and the action's guard); ClaimsSendsHeld,
inductive with the type invariant because plan and todo are taken from the claims
just won and every release outside a close, purge or closeout requires that the
search has no live run; ClaimsImplementLock, whose mapping names the owner of each
dealer by a CHOOSE that exclusivity makes unique.

`LimitsProofs` has the three components that ration something; their specifications
share no name.

* JobLease, for any processes, jobs, lease and fires: LeaseInductive (`[]LeaseInv`),
  LeaseExclusive (`[]OneInLease`), LeaseNoDoubleRun (`[]NoDoubleRun`) and LeaseBlocker
  (`[]BlockerNotLeaked`). The strengthening is that a claim which has not run out is
  the stored row (ClaimIsStored): a takeover needs an expired row, so it finds no
  unexpired claim of anyone. Then nobody else succeeds within a lease while a run is
  inside its own, and the due decision taken after the claim still holds when the
  handler ends (RunsAreDue).
* PortfolioScheduler, for any profiles, cap and runs: SchedulerSlots (`[]SlotInv`),
  SchedulerNoGhost (`[]NoGhostSlot`) and SchedulerWithinCap (`[]AdmissionsWithinCap`).
  NoGhostSlot excepts the slots in `leaked`: after a rejected resume, a throwing hook,
  or a tick back to a run no longer executing. The rest follows from SlotOf: a slot
  stands for an executing run or is leaked, and the runs whose end would go unheard -
  reattached without a profile, or left behind by a boot - have no slot and no tick
  awaits them. The cap needs what the tick in flight has computed before its awaits:
  slots taken by ticks plus those it may still take stay within it (AdmittedInv).
* SendLimiter, for any calls, clock, budget and retries: LimiterTypes
  (`[]LimiterTypeOK`), LimiterPermits (`[]PermitsKept`) and LimiterBudget
  (`[]BudgetKept`). Permits are counted over the finite set of calls at each stage,
  with nobody twice in the queue (SemaphoreInv); the day's budget over the calls that
  count against the current day, with a late refund for each unit that went to a day
  that was over (BudgetInv).

`LeadSubmitProofs`: LeadTypeOK; RowsAreTrue (`[]RowsTruthful`), with what the step's
local decisions and the stored ones claim backed by clicks and mails (BackedInv);
RecordedLeftAlone (RecordedStaysUntouched), since a run that still contacts works
only on dealers that had no row when it was reviewed, and rows come at its very end
(UnrecordedInv); MailsArePaid (`[]OneMailPerApproval`), since an answer in hand is an
approval no mail has left for, and taking it is what spends it (PaidInv).

`CorrespondenceProofs`: CorrespondenceTypeOK; SilenceRespected (`[]NoPester`) and
MailsCovered (`[]MailsConsented`), from the books of each search and dealer
(BooksKept): mails gone plus the mail an approved card still owes stay within
consents and crashes, and follow-ups written plus the one a shown or approved card
may still add stay within the cap and crashes. Without the debts neither is
inductive: a parked card is spent later. WatermarkKeepsItsWord (WatermarkHonest)
follows a check from its discovery: what it has of a dealer is filed unless the
dealer is on its card or closed out, and once it applied, so is what was approved
(Discovered); this stays true under every other search's run. FarewellHolds
(ClosedOutIsLeftAlone) says why a search cannot come back to a dealer it parted with:
the thread is closed, or another search's, and its run has nothing more to say to the
dealer unless it is the closeout itself (Parted, PartInv), until another search
writes.

`QuotePipelineProofs`: ComparedIsRanked (`[]ComparedWasRanked`), since the frontier a
pass holds while compare runs is ranked before it becomes the watermark (RankInv);
AsksCovered (`[]AsksApproved`), with the ask an approved pass still owes; InputSeen
(`[]NoInputSwallowed`), since what the scheduler will record was in the database when
the pass it started had not detected yet (InputInv); OkHolds (OkIsTrue), which follows
what the detect saw through the steps (OkInv): it raised the flags of its steps
(SawInv), the steps run in canonical order (OrderInv), the extraction the pass awaits
still lists what was unread (ReadInv), the audit then holds or has done what was
unaudited but for the aged and the failed (AuditInv), and the compare's frontier
contains what was comparable (CompareInv) - although replies arrive, other extractions
read and the process dies and restarts at each of them. PipelineTypes (`[]TypeOK`)
keeps the books well formed: audits and both watermarks name stored quotes (NamedInv),
a step to do or done was detected (StepInv), and the extraction a pass awaits is there
(AwaitInv).

`ListingStoreProofs`: ListingTypeOK; PromotedIsBacked (`[]PromotedHasVin`): a row
retired for a VIN has that VIN's row behind it, and the row owns the page; from it,
ListingInductive, and the four properties of one persist: OneLiveRow (NoTwinsMade),
SeenIsKept (SeenStaysLive), AbsenceIsRead (RetiredWasAbsent) and EmptyScanSpares
(EmptyScanKeepsLot). The last needs what ListingAssumption asks: finitely many cars
and a collapse fraction that is not zero; no run lists it.

`RunStreamProofs`, for any frames, screenshots, gates, drops, attempts and crashes:
TerminalFrameWins (`[]OneEnd`), with the terminal flag of the channel as the
strengthening; StreamTypes; GivenIsBacklog (`[]NothingLostOrDoubled`); EndingIsTrue
(`[]TrueEnding`, which excepts a decline whose status is read before its end frame is
logged: the status read then takes it for a success). GivenIsBacklog is about sequences
of any length, so it says where the page is in the backlog: in the life of one process,
what the page was given is a prefix of the backlog, and what is on the wire of a
connection is the rest of it, counted from the place the page is at - the length of
what it was given less what it still has to skip (LineInv). A reconnect moves that
place to the start, and each skipped chunk moves it on. A screenshot is on no backlog
but takes an id, so both sides are compared by what ReplayStable leaves of them, ids
aside. EndingIsTrue adds that no chunk tells of an ending the run does not have
(SaysInv), that without screenshots ids agree too (ExactInv), and that the terminal
frame, whose id no earlier part has, is then the last part the page keeps (PlacesInv).
The lemmas before it say what FlattenSeq, TranslateAll and Place return.

Out of the prover's reach, and only model-checked: everything under fairness
(StreamsTerminate, DecisionsSettle, FiresCatchUp, TurnLands, GateShows, CatchesUp,
CallsSettle). The library's induction theorems take an operator as a parameter, which
the installed provers cannot instantiate; where a proof needs induction
(SeqGrows in RunStreamProofs, the first of some dealers in LeadSubmitProofs) it goes
over a set instead: a set of naturals that is not empty has a least member. No run
lists a type invariant: each is a theorem, except SchedulerTypeOK, of which
SchedulerSlots states the part the other theorems need (SlotsShape). `recent` and the
tick's queue go through SelectSeq, which the provers know nothing of; that they list
profiles, `recent` none twice, was checked once on the instance of section 3.

## 6. Not modelled

* The data: forms, bodies, e-mails, quote amounts, prices and pages are model values
  or absent; scouting, profile health, matching and what the LLM reads are arbitrary
  choices. Quote arithmetic and audit rules are pure functions that unit tests reach.
* Pipeline reset (`workflows/pipelineReset.ts`): seven steps from token to backup and
  wipe. It neither stops nor awaits the other live runs of the process, so what they
  write between backup and wipe is lost; a model needs every table at once.
* `tools/src/inbox/sweepLane.ts`, the hygiene sweeps, hostLimiter, llmLimiter and
  robots: the same primitives as the modelled ones in other arrangements.
* The approval inbox, sessions and status projection: reads of state modelled here.
* Browser sessions, desktop freshness, LLM providers and ledger, migrations,
  presentation, the test harness: I/O, declarations or tooling. The harness, the
  page parsers and the prompt and schema tables make up most of the repository's
  lines, which is why the map names a small share of them.
* In SkillRuns: the contact-flip carry of a terminal (no production caller),
  per-run provider selection, a second server process (the guard is per process by
  design, `runtimeGlue.ts:326-331`).
* In LeadSubmit: single-store mode, force_retry, the test-mode brake. In
  DealerClaims: replace (no production caller).
* In Correspondence: CRM senders, contact roles, the cap of 50 threads per sweep,
  the state `agreed`, which no production code writes.
* In QuotePipeline: dry runs, the scrape's own gate, a close of the search.
* In RunStream: the legacy stream, the eviction of finished channels, two pages (they
  share nothing but the log).
* In JobLease: the wall clock going back, reads that fail, and the bodies of the
  jobs, which only start runs (SkillRuns).

## 7. Plan

In order of what they would add:

1. **Served**: SkillRuns composed with the scheduler's slots and the claims of lead
   runs.
2. **PipelineReset** beside the writers of Correspondence and QuotePipeline.
3. Scheduler liveness under answering users; the uncounted power blocker of JobLease
   with two jobs (18:00 has two fires).
4. Proofs: what the excuses of the stated theorems leave open: the backlog of a
   reattached channel (RunStream after a crash) and the twins that a reading without
   its page makes (ListingStore).
