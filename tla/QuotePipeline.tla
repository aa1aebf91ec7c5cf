--------------------------- MODULE QuotePipeline ---------------------------
(***************************************************************************)
(* The quote pipeline of one search: a pass re-derives from the database   *)
(* which of extract, scrape, audit and compare have work, runs them as     *)
(* child runs in that order and logs a verdict; or, with a target, asks    *)
(* for one listing's price by mail and records the ask as a quote.         *)
(* The search has at most one pass (module SkillRuns), but reply           *)
(* extraction also runs alone without a pin, and a crash leaves the pass   *)
(* and its child as two rows that boot restarts side by side. The resident *)
(* scheduler starts passes through its admission watermark.                *)
(* Replies are numbered as filed, all in the thread of one dealer; a quote *)
(* is known by its UNIQUE key, the reply and the financing mode. Prices,   *)
(* dry runs (no write) and a closing of the search are left out.           *)
(***************************************************************************)
EXTENDS Naturals, FiniteSets

CONSTANTS
    MaxReplies,     \* bound: replies of the dealer
    Modes,          \* financing modes
    Preferred,      \* the mode a targeted ask is recorded under
    Listings,       \* listings that may be targeted
    NoListing,
    Readers,        \* bound: extraction runs at a time
    MaxAttempts,    \* MAX_EXTRACT_ATTEMPTS
    MaxStarts,      \* bound: targeted passes and lone extractions
    MaxFaults       \* bound: child runs that fail, and crashes of the process

ASSUME PipelineAssumption ==
    /\ {MaxReplies, MaxAttempts, MaxStarts, MaxFaults} \subseteq Nat
    /\ Preferred \in Modes
    /\ {NoListing, "none", "reply"} \cap Listings = {}

VARIABLES
    status,      \* messages.quote_extraction_status of the inbound rows
    attempts,    \* messages.quote_extraction_attempts
    quote,       \* dealer_quotes: what the quote_id of a key was made from
    audited,     \* quotes with an audit of the current pass version
    compared,    \* pipeline.last_compared_quotes
    ranked,      \* quotes a successful compare has read
    drafts,      \* there are outbound messages rows (status 'pending')
    fresh,       \* an incentive row of the vehicle is at most seven days old
    aged,        \* quotes received more than seven days ago
    pass,        \* the pass of the search
    reader,      \* the extraction runs
    tick,        \* the scheduler between its decision and its record
    admitted,    \* pipeline.auto_admission: the input frontier
    cooled,      \* the six-hour floor has elapsed
    sensed,      \* the frontier at the last detect
    asks, approvals,
    starts, fails, crashes

vars == <<status, attempts, quote, audited, compared, ranked, drafts, fresh, aged, pass, reader,
          tick, admitted, cooled, sensed, asks, approvals, starts, fails, crashes>>
passVars  == <<pass, sensed, compared, ranked, audited, fresh>>
tickVars  == <<tick, admitted, cooled>>
askVars   == <<asks, approvals>>
replyVars == <<status, attempts>>

Replies == 1..MaxReplies
Keys    == Replies \X Modes
Steps   == {1, 2, 3, 4}                     \* PIPELINE_STEPS, in canonical order
Extract == 1
Scrape  == 2
Audit   == 3
Compare == 4

Nothing  == [unread |-> {}, unaudited |-> {}, quotes |-> {}]
NoPass   == [at |-> "idle", target |-> NoListing, flags |-> {}, todo |-> {}, done |-> {},
             held |-> {}, about |-> 0, saw |-> Nothing]
NoReader == [at |-> "idle", list |-> {}, todo |-> {}, child |-> FALSE]
NoTick   == [at |-> "idle", input |-> [inbound |-> {}, quotes |-> {}]]

Init ==
    /\ status = [m \in Replies |-> "absent"]
    /\ attempts = [m \in Replies |-> 0]
    /\ quote = [k \in Keys |-> "none"]
    /\ audited = {} /\ compared = {} /\ ranked = {}
    /\ drafts = FALSE /\ fresh = FALSE /\ aged = {}
    /\ pass = NoPass
    /\ reader = [w \in Readers |-> NoReader]
    /\ tick = NoTick /\ admitted = NoTick.input /\ cooled = TRUE
    /\ sensed = NoTick.input
    /\ asks = 0 /\ approvals = 0 /\ starts = 0 /\ fails = 0 /\ crashes = 0

Filed  == {m \in Replies : status[m] # "absent"}
Quotes == {k \in Keys : quote[k] # "none"}
Unread == {m \in Replies : status[m] = "pending"}

(* What the admission watermark is compared by: inbound rows and quote ids. *)
Frontier == [inbound |-> Filed, quotes |-> Quotes]

-----------------------------------------------------------------------------
(* The surroundings: the inbox check files a reply, a week goes by.        *)

Arrive(m) ==
    /\ status[m] = "absent"
    /\ \A i \in Replies : i < m => status[i] # "absent"
    /\ status' = [status EXCEPT ![m] = "pending"]
    /\ UNCHANGED <<attempts, quote, drafts, aged, reader, passVars, tickVars, askVars, starts, fails, crashes>>

WeekPasses ==
    /\ fresh' = FALSE
    /\ aged' = Quotes
    /\ <<fresh, aged>> # <<fresh', aged'>>
    /\ UNCHANGED <<replyVars, quote, drafts, reader, pass, sensed, compared, ranked, audited,
                   tickVars, askVars, starts, fails, crashes>>

-----------------------------------------------------------------------------
(* Reply extraction. The candidates are read once; nothing looks at a      *)
(* reply's status again before its result is written.                      *)

CandidatesBug == {m \in Replies : status[m] = "failed" /\ attempts[m] < MaxAttempts}

Candidates ==
    {m \in Replies : \/ status[m] = "pending"
                     \/ status[m] = "failed" /\ attempts[m] < MaxAttempts}

ReadAlone(w) ==
    /\ starts < MaxStarts
    /\ reader[w].at = "idle"
    /\ reader' = [reader EXCEPT ![w] = [NoReader EXCEPT !.at = "load"]]
    /\ starts' = starts + 1
    /\ UNCHANGED <<replyVars, quote, drafts, aged, passVars, tickVars, askVars, fails, crashes>>

Load(w) ==
    /\ reader[w].at = "load"
    /\ reader' = [reader EXCEPT ![w] = [@ EXCEPT !.at = "read", !.list = Candidates,
                                                !.todo = Candidates]]
    /\ UNCHANGED <<replyVars, quote, drafts, aged, passVars, tickVars, askVars, starts, fails, crashes>>

(* An upsert keeps the quote_id of the row it meets. *)
Upserted(m, modes) ==
    [k \in Keys |-> IF k[1] = m /\ k[2] \in modes /\ quote[k] = "none" THEN "reply" ELSE quote[k]]

ReadReply(w, m) ==
    /\ reader[w].at = "read" /\ m \in reader[w].todo
    /\ reader' = [reader EXCEPT ![w].todo = @ \ {m}]
    /\ \/ \E modes \in SUBSET Modes :
             /\ quote' = Upserted(m, modes)
             /\ status' = [status EXCEPT ![m] = "succeeded"]
             /\ UNCHANGED attempts
       \/ /\ status' = [status EXCEPT ![m] = "failed"]
          /\ attempts' = [attempts EXCEPT ![m] = @ + 1]
          /\ UNCHANGED quote
    /\ UNCHANGED <<drafts, aged, passVars, tickVars, askVars, starts, fails, crashes>>

(* A child's end is what the pass awaits. *)
ReadDone(w) ==
    /\ reader[w].at = "read" /\ reader[w].todo = {}
    /\ reader' = [reader EXCEPT ![w] = NoReader]
    /\ pass' = IF reader[w].child
               THEN [pass EXCEPT !.at = "fan", !.done = @ \union {Extract}]
               ELSE pass
    /\ UNCHANGED <<replyVars, quote, drafts, aged, sensed, compared, ranked, audited, fresh,
                   tickVars, askVars, starts, fails, crashes>>

ReaderFails(w) ==
    /\ fails + crashes < MaxFaults
    /\ fails' = fails + 1
    /\ reader[w].at # "idle"
    /\ reader' = [reader EXCEPT ![w] = NoReader]
    /\ pass' = IF reader[w].child THEN [pass EXCEPT !.at = "fan"] ELSE pass
    /\ UNCHANGED <<replyVars, quote, drafts, aged, sensed, compared, ranked, audited, fresh,
                   tickVars, askVars, starts, crashes>>

-----------------------------------------------------------------------------
(* The pass: detect, the fan-out over its children, the completion row.    *)

Flags ==
    {s \in Steps :
        \/ s = Extract /\ (Unread # {} \/ drafts)
        \/ s = Scrape  /\ ~fresh
        \/ s = Audit   /\ Quotes \ audited # {}
        \/ s = Compare /\ Cardinality(Quotes) >= 2 /\ Quotes # compared}

Detect ==
    /\ pass.at = "detect"
    /\ sensed' = Frontier
    /\ pass' = IF pass.target = NoListing
               THEN [pass EXCEPT !.at = "fan", !.flags = Flags, !.todo = Flags,
                                 !.saw = [unread |-> Unread, unaudited |-> Quotes \ audited,
                                          quotes |-> Quotes]]
               ELSE IF Filed = {} THEN NoPass           \* NoInboundThread
               ELSE [pass EXCEPT !.at = "gate"]
    /\ UNCHANGED <<replyVars, quote, drafts, aged, reader, compared, ranked, audited, fresh,
                   tickVars, askVars, starts, fails, crashes>>

(* The next applicable step; compare captures its frontier before the child. *)
NextChild(s) == pass.at = "fan" /\ s \in pass.todo /\ \A t \in pass.todo : s <= t

StartExtract(w) ==
    /\ NextChild(Extract)
    /\ reader[w].at = "idle"
    /\ reader' = [reader EXCEPT ![w] = [NoReader EXCEPT !.at = "load", !.child = TRUE]]
    /\ pass' = [pass EXCEPT !.at = "child", !.todo = @ \ {Extract}]
    /\ UNCHANGED <<replyVars, quote, drafts, aged, sensed, compared, ranked, audited, fresh,
                   tickVars, askVars, starts, fails, crashes>>

(* A scrape may find no rows, which leaves the slice stale, or fail. *)
ScrapeChild ==
    /\ NextChild(Scrape)
    /\ \/ fresh' \in {fresh, TRUE} /\ pass' = [pass EXCEPT !.todo = @ \ {Scrape}, !.done = @ \union {Scrape}]
       \/ fresh' = fresh /\ pass' = [pass EXCEPT !.todo = @ \ {Scrape}]
    /\ UNCHANGED <<replyVars, quote, drafts, aged, reader, sensed, compared, ranked, audited,
                   tickVars, askVars, starts, fails, crashes>>

RecentUnaudited == {k \in Quotes \ (audited \union aged) : status[k[1]] = "succeeded"}

StartAudit ==
    /\ NextChild(Audit)
    /\ pass' = [pass EXCEPT !.at = "audit", !.todo = @ \ {Audit}, !.held = RecentUnaudited]
    /\ UNCHANGED <<replyVars, quote, drafts, aged, reader, sensed, compared, ranked, audited, fresh,
                   tickVars, askVars, starts, fails, crashes>>

AuditedWithBug(batch) == audited

AuditedWith(batch) == audited \union batch

PersistAudits ==
    /\ pass.at = "audit"
    /\ audited' = AuditedWith(pass.held)
    /\ pass' = [pass EXCEPT !.at = "fan", !.done = @ \union {Audit}, !.held = {}]
    /\ UNCHANGED <<replyVars, quote, drafts, aged, reader, sensed, compared, ranked, fresh,
                   tickVars, askVars, starts, fails, crashes>>

StartCompare ==
    /\ NextChild(Compare)
    /\ pass' = [pass EXCEPT !.at = "rank", !.todo = @ \ {Compare}, !.held = Quotes]
    /\ UNCHANGED <<replyVars, quote, drafts, aged, reader, sensed, compared, ranked, audited, fresh,
                   tickVars, askVars, starts, fails, crashes>>

RankQuotes ==
    /\ pass.at = "rank"
    /\ ranked' = ranked \union Quotes
    /\ pass' = [pass EXCEPT !.at = "compared"]
    /\ UNCHANGED <<replyVars, quote, drafts, aged, reader, sensed, compared, audited, fresh,
                   tickVars, askVars, starts, fails, crashes>>

(* A child that fails is not completed, and not tried again in this pass.  *)
ChildFails ==
    /\ fails + crashes < MaxFaults
    /\ fails' = fails + 1
    /\ pass.at \in {"audit", "rank", "compared"}
    /\ pass' = [pass EXCEPT !.at = "fan", !.held = {}]
    /\ UNCHANGED <<replyVars, quote, drafts, aged, reader, sensed, compared, ranked, audited, fresh,
                   tickVars, askVars, starts, crashes>>

WatermarkOfBug(captured) == Quotes

WatermarkOf(captured) == captured

CompareDone ==
    /\ pass.at = "compared"
    /\ compared' = WatermarkOf(pass.held)
    /\ pass' = [pass EXCEPT !.at = "fan", !.done = @ \union {Compare}, !.held = {}]
    /\ UNCHANGED <<replyVars, quote, drafts, aged, reader, sensed, ranked, audited, fresh,
                   tickVars, askVars, starts, fails, crashes>>

FinalStateBug(flags, done) ==
    IF flags = {} THEN "no_work" ELSE IF done # {} THEN "ok" ELSE "partial"

FinalState(flags, done) ==
    IF flags = {} THEN "no_work" ELSE IF flags \subseteq done THEN "ok" ELSE "partial"

LogCompletion ==
    /\ pass.at = "fan" /\ pass.todo = {}
    /\ pass' = NoPass
    /\ UNCHANGED <<replyVars, quote, drafts, aged, reader, sensed, compared, ranked, audited, fresh,
                   tickVars, askVars, starts, fails, crashes>>

-----------------------------------------------------------------------------
(* The targeted ask.                                                       *)

StartTargeted(l) ==
    /\ pass.at = "idle"
    /\ starts < MaxStarts
    /\ starts' = starts + 1
    /\ pass' = [NoPass EXCEPT !.at = "detect", !.target = l]
    /\ UNCHANGED <<replyVars, quote, drafts, aged, reader, sensed, compared, ranked, audited, fresh,
                   tickVars, askVars, fails, crashes>>

Approve ==
    /\ pass.at = "gate"
    /\ pass' = [pass EXCEPT !.at = "send"]
    /\ approvals' = approvals + 1
    /\ UNCHANGED <<replyVars, quote, drafts, aged, reader, sensed, compared, ranked, audited, fresh,
                   tickVars, asks, starts, fails, crashes>>

DeclinedBug(p) == [p EXCEPT !.at = "send"]

Declined(p) == NoPass

Decline ==
    /\ pass.at = "gate"
    /\ pass' = Declined(pass)
    /\ UNCHANGED <<replyVars, quote, drafts, aged, reader, sensed, compared, ranked, audited, fresh,
                   tickVars, askVars, starts, fails, crashes>>

(* The mail goes into the thread's latest reply; a send that throws keeps  *)
(* its draft and ends the pass without a record.                           *)
SendAsk ==
    /\ pass.at = "send"
    /\ drafts' = TRUE
    /\ asks' = asks + 1
    /\ \E m \in Filed :
        /\ \A i \in Filed : i <= m
        /\ pass' = [pass EXCEPT !.at = "record", !.about = m]
    /\ UNCHANGED <<replyVars, quote, aged, reader, sensed, compared, ranked, audited, fresh,
                   tickVars, approvals, starts, fails, crashes>>

SendFails ==
    /\ pass.at = "send"
    /\ drafts' = TRUE
    /\ pass' = NoPass
    /\ UNCHANGED <<replyVars, quote, aged, reader, sensed, compared, ranked, audited, fresh,
                   tickVars, askVars, starts, fails, crashes>>

(* The quote_id is made of listing, reply and mode: a repeat is a no-op.   *)
(* Another quote of the same reply and mode trips the UNIQUE index, and    *)
(* the run fails.                                                          *)
RecordKey == <<pass.about, Preferred>>

RecordAsk ==
    /\ pass.at = "record"
    /\ quote[RecordKey] \in {"none", pass.target}
    /\ quote' = [quote EXCEPT ![RecordKey] = pass.target]
    /\ pass' = NoPass
    /\ UNCHANGED <<replyVars, drafts, aged, reader, sensed, compared, ranked, audited, fresh,
                   tickVars, askVars, starts, fails, crashes>>

RecordCollides ==
    /\ pass.at = "record"
    /\ quote[RecordKey] \notin {"none", pass.target}
    /\ pass' = NoPass
    /\ UNCHANGED <<replyVars, quote, drafts, aged, reader, sensed, compared, ranked, audited, fresh,
                   tickVars, askVars, starts, fails, crashes>>

-----------------------------------------------------------------------------
(* The resident scheduler: it decides on the frontier it observes, starts  *)
(* the pass, and records that frontier when the start has returned.        *)

Admissible == admitted # Frontier \/ cooled

TickDecides ==
    /\ tick = NoTick /\ pass.at = "idle"
    /\ Admissible
    /\ tick' = [at |-> "start", input |-> Frontier]
    /\ UNCHANGED <<replyVars, quote, drafts, aged, reader, passVars, admitted, cooled, askVars,
                   starts, fails, crashes>>

TickStarts ==
    /\ tick.at = "start"
    /\ IF pass.at = "idle"
       THEN /\ pass' = [NoPass EXCEPT !.at = "detect"]
            /\ tick' = [tick EXCEPT !.at = "record"]
       ELSE /\ tick' = NoTick                            \* ProfileRunConflictError
            /\ UNCHANGED pass
    /\ UNCHANGED <<replyVars, quote, drafts, aged, reader, sensed, compared, ranked, audited, fresh,
                   admitted, cooled, askVars, starts, fails, crashes>>

ObservedBug(input) == Frontier

Observed(input) == input

TickRecords ==
    /\ tick.at = "record"
    /\ admitted' = Observed(tick.input)
    /\ cooled' = FALSE
    /\ tick' = NoTick
    /\ UNCHANGED <<replyVars, quote, drafts, aged, reader, passVars, askVars, starts, fails, crashes>>

FloorElapses ==
    /\ ~cooled
    /\ cooled' = TRUE
    /\ UNCHANGED <<replyVars, quote, drafts, aged, reader, passVars, tick, admitted, askVars,
                   starts, fails, crashes>>

-----------------------------------------------------------------------------
(* A crash and the boot after it. Every interrupted run is restarted in    *)
(* its interrupted step, or canceled when its row has been quiet too long; *)
(* a child's row is never the quieter one of the two. A run parked at the  *)
(* gate stays. A restarted child has no parent any more.                   *)

Restarted(p) ==
    CASE p.at \in {"idle", "detect", "gate", "send"} -> p
      [] p.at = "record" -> [p EXCEPT !.at = "send", !.about = 0]
      [] OTHER -> [p EXCEPT !.at = "fan", !.todo = p.flags, !.done = {}, !.held = {}]

ReaderBackBug(r) == IF r.at = "idle" THEN r ELSE [r EXCEPT !.todo = r.list]

ReaderBack(r) == IF r.at = "idle" THEN r ELSE [r EXCEPT !.todo = r.list, !.child = FALSE]

CrashAndBoot ==
    /\ fails + crashes < MaxFaults
    /\ crashes' = crashes + 1
    /\ tick' = NoTick
    /\ \E canceled \in SUBSET {w \in Readers : reader[w].at # "idle"}, dropped \in BOOLEAN :
        /\ dropped => pass.at \notin {"idle", "gate"}
        /\ (\E w \in canceled : reader[w].child) => dropped
        /\ reader' = [w \in Readers |-> IF w \in canceled THEN NoReader ELSE ReaderBack(reader[w])]
        /\ pass' = IF dropped THEN NoPass ELSE Restarted(pass)
    /\ audited' \in {audited, IF pass.at = "audit" THEN audited \union pass.held ELSE audited}
    /\ UNCHANGED <<replyVars, quote, compared, ranked, drafts, fresh, aged, admitted, cooled, sensed,
                   askVars, starts, fails>>

-----------------------------------------------------------------------------
Next ==
    \/ \E m \in Replies : Arrive(m)
    \/ WeekPasses
    \/ \E w \in Readers : ReadAlone(w) \/ Load(w) \/ ReadDone(w) \/ ReaderFails(w) \/ StartExtract(w)
    \/ \E w \in Readers, m \in Replies : ReadReply(w, m)
    \/ Detect \/ ScrapeChild \/ StartAudit \/ PersistAudits
    \/ StartCompare \/ RankQuotes \/ CompareDone \/ ChildFails \/ LogCompletion
    \/ \E l \in Listings : StartTargeted(l)
    \/ Approve \/ Decline \/ SendAsk \/ SendFails \/ RecordAsk \/ RecordCollides
    \/ TickDecides \/ TickStarts \/ TickRecords \/ FloorElapses
    \/ CrashAndBoot

Spec == Init /\ [][Next]_vars

(* The event loop runs what is runnable: readers, the pass, the scheduler  *)
(* (switched on) as long as the search is hot. Users, dealers, weeks and   *)
(* crashes owe nothing.                                                    *)
PassStep ==
    \/ \E w \in Readers : StartExtract(w)
    \/ Detect \/ ScrapeChild \/ StartAudit \/ PersistAudits
    \/ StartCompare \/ RankQuotes \/ CompareDone \/ LogCompletion
    \/ SendAsk \/ SendFails \/ RecordAsk \/ RecordCollides

ReaderStep(w) == Load(w) \/ ReadDone(w) \/ \E m \in Replies : ReadReply(w, m)

TickStep == (Flags # {} /\ TickDecides) \/ TickStarts \/ TickRecords

Fairness ==
    /\ WF_vars(PassStep) /\ WF_vars(TickStep) /\ WF_vars(FloorElapses)
    /\ \A w \in Readers : WF_vars(ReaderStep(w))

FairSpec == Spec /\ Fairness

-----------------------------------------------------------------------------
(* The books of the pipeline are well formed: only filed replies have      *)
(* quotes, audits and watermarks name stored quotes, what a pass has to do *)
(* and has done is what it detected, and the pass that awaits its          *)
(* extraction is the one parent a running extraction has.                  *)
Passes ==
    [at : {"idle", "detect", "gate", "send", "record", "fan", "child", "audit", "rank", "compared"},
     target : Listings \union {NoListing}, flags : SUBSET Steps, todo : SUBSET Steps,
     done : SUBSET Steps, held : SUBSET Keys, about : Replies \union {0},
     saw : [unread : SUBSET Replies, unaudited : SUBSET Keys, quotes : SUBSET Keys]]

Extractions ==
    [at : {"idle", "load", "read"}, list : SUBSET Replies, todo : SUBSET Replies, child : BOOLEAN]

Frontiers == [inbound : SUBSET Replies, quotes : SUBSET Keys]

TypeOK ==
    /\ status \in [Replies -> {"absent", "pending", "succeeded", "failed"}]
    /\ attempts \in [Replies -> Nat]
    /\ quote \in [Keys -> {"none", "reply"} \union Listings]
    /\ pass \in Passes /\ reader \in [Readers -> Extractions]
    /\ tick \in [at : {"idle", "start", "record"}, input : Frontiers]
    /\ {admitted, sensed} \subseteq Frontiers
    /\ {drafts, fresh, cooled} \subseteq BOOLEAN
    /\ {asks, approvals, starts, fails, crashes} \subseteq Nat
    /\ \A k \in Quotes : k[1] \in Filed
    /\ audited \union compared \union ranked \union aged \union pass.held \subseteq Quotes
    /\ pass.todo \union pass.done \subseteq pass.flags
    /\ (pass.at = "child") = (\E w \in Readers : reader[w].child)

(* A quote marked as compared has been read by a compare,                  *)
(* whatever extraction stored while it ran (quotePipeline.ts:674, "never a *)
(* post-child re-read").                                                   *)
ComparedWasRanked == compared \subseteq ranked

(* The admission watermark holds no input that no detect has seen: input   *)
(* that arrives while a pass starts is admitted at once, not after the     *)
(* floor (portfolioScheduler.ts:135). A boot that cancels a stale pass      *)
(* before its detect leaves that input to the floor.                       *)
NoInputSwallowed ==
    pass.at # "detect" /\ crashes = 0 =>
        admitted.inbound \subseteq sensed.inbound /\ admitted.quotes \subseteq sensed.quotes

(* Without a crash every targeted ask that leaves had its own approval; a  *)
(* crash may repeat one, the one being sent.                               *)
AsksApproved == asks <= approvals + crashes

(* A pass that logs "ok" tells the truth about what its detect found: no   *)
(* reply it saw unread is still unread, each quote it saw unaudited has    *)
(* its audit (or has left the audit's window, or its reply has failed to   *)
(* extract), and what it saw comparable is compared.                       *)
OkIsTrue ==
    [][LogCompletion /\ FinalState(pass.flags, pass.done) = "ok" =>
          /\ pass.saw.unread \cap Unread = {}
          /\ \A k \in pass.saw.unaudited \ audited : k \in aged \/ status[k[1]] # "succeeded" \/ attempts[k[1]] > 0
          /\ Compare \in pass.flags => pass.saw.quotes \subseteq compared]_vars

(* Again and again the books catch up: every reply has been read and every *)
(* quote of a read reply audited before it is a week old, unless a         *)
(* targeted ask waits at its gate. The flags are computed once per pass,   *)
(* so what arrives or fails meanwhile takes a later pass.                  *)
CaughtUp ==
    /\ Unread = {}
    /\ \A k \in Quotes : k \in audited \union aged \/ status[k[1]] # "succeeded"

CatchesUp == []<>(CaughtUp \/ pass.at = "gate")

(* A succeeded reply is terminal (candidates.ts:12, "a succeeded row is    *)
(* NEVER re-processed").                                                   *)
SucceededIsTerminal ==
    [][\A m \in Replies : status[m] = "succeeded" => status'[m] = "succeeded"]_vars

(* An ask that was sent is recorded, now or before (quotePipeline.ts:488,  *)
(* "replays cleanly instead of colliding").                                *)
SentAsksRecorded ==
    [][pass.at = "record" /\ pass'.at = "idle" /\ crashes' = crashes
          => quote'[RecordKey] = pass.target]_vars

(* Extraction is applicable only while a reply is unread                   *)
(* (detectPipelineState.ts:14, "the un-extracted reply").                  *)
ExtractMeansUnread == Extract \in Flags => Unread # {}
=============================================================================
