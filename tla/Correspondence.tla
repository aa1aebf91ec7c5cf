--------------------------- MODULE Correspondence ---------------------------
(***************************************************************************)
(* The mail between the searches (Profiles) and the dealers: the inbox     *)
(* check that files replies, the follow-up that answers them and the       *)
(* closeout that ends them, each a run with a human gate in the middle.    *)
(* A dealer writes in one Gmail thread; a search has at most one live run  *)
(* (module SkillRuns), so all races are between searches, between a run    *)
(* and its own past (a restart), and between a run and the mailbox.        *)
(* Texts, subjects, reply addresses and tones are left out; so are the     *)
(* cap of 50 threads per sweep and the contact flip, which no production   *)
(* caller requests.                                                        *)
(***************************************************************************)
EXTENDS Naturals, FiniteSets, FiniteSetsExt

CONSTANTS
    Profiles,       \* the searches
    Dealers,        \* the dealers, each with its Gmail thread
    Nobody, NoDealer,
    MaxUnanswered,  \* MAX_UNANSWERED_FOLLOWUPS
    MaxTotal,       \* MAX_TOTAL_FOLLOWUPS
    MaxMails,       \* bound: replies of the dealers
    MaxStarts,      \* bound: runs started
    MaxCrashes      \* bound: crashes of the process

ASSUME CorrespondenceAssumption ==
    /\ Nobody \notin Profiles /\ NoDealer \notin Dealers
    /\ {MaxUnanswered, MaxTotal, MaxMails, MaxStarts, MaxCrashes} \subseteq Nat

VARIABLES
    active,      \* search_profiles whose status is active
    rel,         \* profile_dealers.status of a search and a dealer
    thread,      \* threads: state and search_profile_id
    arrived,     \* replies of the dealer in the mailbox
    filed,       \* of these, the oldest ones that have a messages row
    unanswered,  \* outbound rows since the newest inbound row
    rounds,      \* outbound rows
    farewell,    \* thread_suppression rows with reason closeout:<profile>
    fresh,       \* the thread has a mail within the search's next window
    run,         \* the live run of a search
    gone,        \* mails that left, by search and dealer
    consents,    \* approvals given, by search and dealer
    pokes,       \* follow-up rows of a search since the dealer was last filed
    starts, crashes

vars == <<active, rel, thread, arrived, filed, unanswered, rounds, farewell,
          fresh, run, gone, consents, pokes, starts, crashes>>

Kinds    == {"check", "follow", "close"}
Statuses == {"none", "bound", "excluded_conflict", "closed_out"}

(* A run: its step, the replies its discovery fetched and routed, the dealers *)
(* on its card, those approved, those whose send is behind it, the one     *)
(* being sent to, and whether its step is being executed again.            *)
RunSet == [kind: Kinds \union {"none"},
           at: {"begin", "review", "apply", "stamp", "send", "confirm"},
           seen: [Dealers -> Nat], shown: SUBSET Dealers, agreed: SUBSET Dealers,
           done: SUBSET Dealers, now: Dealers \union {NoDealer}, redo: BOOLEAN]

Fresh(kind) == [kind |-> kind, at |-> "begin", seen |-> [d \in Dealers |-> 0],
                shown |-> {}, agreed |-> {}, done |-> {}, now |-> NoDealer, redo |-> FALSE]
Idle == Fresh("none")

Init ==
    /\ active = Profiles
    /\ rel = [p \in Profiles |-> [d \in Dealers |-> "none"]]
    /\ thread = [d \in Dealers |-> [state |-> "none", owner |-> Nobody]]
    /\ arrived = [d \in Dealers |-> 0]
    /\ filed = [d \in Dealers |-> 0]
    /\ unanswered = [d \in Dealers |-> 0]
    /\ rounds = [d \in Dealers |-> 0]
    /\ farewell = {}
    /\ fresh = [p \in Profiles |-> [d \in Dealers |-> FALSE]]
    /\ run = [p \in Profiles |-> Idle]
    /\ gone = [p \in Profiles |-> [d \in Dealers |-> 0]]
    /\ consents = [p \in Profiles |-> [d \in Dealers |-> 0]]
    /\ pokes = [p \in Profiles |-> [d \in Dealers |-> 0]]
    /\ starts = 0
    /\ crashes = 0

At(p, kind, step) == run[p].kind = kind /\ run[p].at = step

BoundToOther(p, d) == \E q \in Profiles \ {p} : rel[q][d] = "bound"
SuppressedThreads  == {pd[2] : pd \in farewell}

NewMail(d) == fresh' = [p \in Profiles |-> [fresh[p] EXCEPT ![d] = TRUE]]

-----------------------------------------------------------------------------
(* The surroundings: a lead claims the dealer or loses the conflict, the   *)
(* dealer writes, the user closes a search by hand and restores one.       *)

Lead(p, d) ==
    /\ p \in active
    /\ rel[p][d] \in {"none", "excluded_conflict"}
    /\ rel' = [rel EXCEPT ![p][d] = IF BoundToOther(p, d) THEN "excluded_conflict" ELSE "bound"]
    /\ UNCHANGED <<active, thread, arrived, filed, unanswered, rounds, farewell, fresh, run,
                   gone, consents, pokes, starts, crashes>>

DealerWrites(d) ==
    /\ \E p \in Profiles : rel[p][d] \in {"bound", "closed_out"}
    /\ MapThenSumSet(LAMBDA e : arrived[e], Dealers) < MaxMails
    /\ arrived' = [arrived EXCEPT ![d] = @ + 1]
    /\ NewMail(d)
    /\ UNCHANGED <<active, rel, thread, filed, unanswered, rounds, farewell, run,
                   gone, consents, pokes, starts, crashes>>

ReleasedBug(r) == [d \in Dealers |-> IF r[d] = "bound" THEN "released" ELSE r[d]]

Released(r) == [d \in Dealers |-> IF r[d] = "bound" THEN "closed_out" ELSE r[d]]

CloseSearch(p) ==
    /\ p \in active
    /\ active' = active \ {p}
    /\ rel' = [rel EXCEPT ![p] = Released(@)]
    /\ UNCHANGED <<thread, arrived, filed, unanswered, rounds, farewell, fresh, run,
                   gone, consents, pokes, starts, crashes>>

Restore(p) ==
    /\ p \notin active
    /\ active' = active \union {p}
    /\ UNCHANGED <<rel, thread, arrived, filed, unanswered, rounds, farewell, fresh, run,
                   gone, consents, pokes, starts, crashes>>

Store == <<active, rel, thread, filed, unanswered, rounds, farewell, gone, pokes>>

Start(p, kind) ==
    /\ p \in active
    /\ run[p].kind = "none"
    /\ starts < MaxStarts
    /\ kind = "check" => \E d \in Dealers : rel[p][d] \in {"bound", "closed_out"}
    /\ run' = [run EXCEPT ![p] = Fresh(kind)]
    /\ starts' = starts + 1
    /\ UNCHANGED <<Store, arrived, fresh, consents, crashes>>

-----------------------------------------------------------------------------
(* The inbox check.                                                        *)

(* The window may reach further back than the watermark (its buffer and    *)
(* its rounding): such threads are hit as well, if they exist.             *)
Unfiled(d) == arrived[d] > filed[d]

GroupsBug(p, hits) == {d \in hits : Unfiled(d) /\ rel[p][d] # "none"}

Groups(p, hits) ==
    {d \in hits \ SuppressedThreads : Unfiled(d) /\ rel[p][d] # "none"}

Unrouted(p, hits) ==
    {d \in hits \ SuppressedThreads : Unfiled(d) /\ rel[p][d] = "none"}

Discover(p) ==
    /\ At(p, "check", "begin")
    /\ \E older \in SUBSET {d \in Dealers : arrived[d] > 0} :
         LET hits   == {d \in Dealers : fresh[p][d]} \union older
             groups == Groups(p, hits)
         IN  run' = [run EXCEPT ![p].shown = groups,
                       ![p].seen = [d \in Dealers |->
                                      IF d \in hits /\ rel[p][d] # "none" THEN arrived[d] ELSE 0],
                       ![p].at = IF groups = {} /\ Unrouted(p, hits) = {} THEN "apply"
                                                                        ELSE "review"]
    /\ UNCHANGED <<Store, arrived, fresh, consents, starts, crashes>>

(* One transaction. A thread row is overwritten, whoever owns it; replies  *)
(* that have a row already are not inserted again.                         *)
FiledAfterBug(p) ==
    [d \in Dealers |-> IF d \in run[p].agreed /\ filed[d] = 0 THEN 1 ELSE filed[d]]

FiledAfter(p) ==
    [d \in Dealers |-> IF d \in run[p].agreed /\ run[p].seen[d] > filed[d]
                         THEN run[p].seen[d] ELSE filed[d]]

Apply(p) ==
    /\ At(p, "check", "apply")
    /\ filed' = FiledAfter(p)
    /\ thread' = [d \in Dealers |-> IF d \in run[p].agreed
                                      THEN [state |-> "replied", owner |-> p] ELSE thread[d]]
    /\ unanswered' = [d \in Dealers |-> IF filed'[d] > filed[d] THEN 0 ELSE unanswered[d]]
    /\ pokes' = [q \in Profiles |->
                   [d \in Dealers |-> IF filed'[d] > filed[d] THEN 0 ELSE pokes[q][d]]]
    /\ run' = [run EXCEPT ![p].at = "stamp"]
    /\ UNCHANGED <<active, rel, arrived, rounds, farewell, fresh, gone, consents, starts, crashes>>

(* The watermark becomes the present.                                      *)
AdvanceWatermark(p) ==
    /\ At(p, "check", "stamp")
    /\ fresh' = [fresh EXCEPT ![p] = [d \in Dealers |-> FALSE]]
    /\ run' = [run EXCEPT ![p] = Idle]
    /\ UNCHANGED <<Store, arrived, consents, starts, crashes>>

-----------------------------------------------------------------------------
(* Targets of the follow-up and of the closeout.                           *)

CapOkBug(d) == rounds[d] < MaxTotal /\ unanswered[d] <= MaxUnanswered

CapOk(d) == rounds[d] < MaxTotal /\ unanswered[d] < MaxUnanswered

CandidatesBug(p) == {d \in Dealers : thread[d].owner = p /\ CapOk(d)}

Candidates(p) ==
    {d \in Dealers : /\ thread[d].owner = p
                     /\ thread[d].state \notin {"none", "closed"}
                     /\ CapOk(d)}

(* The silence window and failing drafts take any dealers away; with none  *)
(* left the run ends (no_candidates, or a failure of the only drafts).     *)
Select(p) ==
    /\ At(p, "follow", "begin")
    /\ \E shown \in SUBSET Candidates(p) :
         run' = [run EXCEPT ![p] =
                   IF shown = {} THEN Idle ELSE [@ EXCEPT !.shown = shown, !.at = "review"]]
    /\ UNCHANGED <<Store, arrived, fresh, consents, starts, crashes>>

(* A closeout row of any search takes the dealer out.                      *)
CloseoutTargets(p) ==
    {d \in Dealers \ SuppressedThreads : /\ rel[p][d] = "bound"
                                         /\ thread[d].owner = p
                                         /\ thread[d].state \notin {"none", "closed"}}

Assemble(p) ==
    /\ At(p, "close", "begin")
    /\ run' = [run EXCEPT ![p] =
                 IF CloseoutTargets(p) = {} THEN Idle
                   ELSE [@ EXCEPT !.shown = CloseoutTargets(p), !.at = "review"]]
    /\ UNCHANGED <<Store, arrived, fresh, consents, starts, crashes>>

-----------------------------------------------------------------------------
(* The answer to the card.                                                 *)

AfterApproval(kind) == IF kind = "check" THEN "apply" ELSE "send"

Decline(p) ==
    /\ run[p].kind # "none"
    /\ run[p].at = "review"
    /\ run' = [run EXCEPT ![p] = Idle]
    /\ UNCHANGED <<Store, arrived, fresh, consents, starts, crashes>>

(* Nothing approved: a check goes on, a follow-up fails, a closeout ends   *)
(* in skip_all_reset.                                                      *)
Approve(p, agreed) ==
    /\ run[p].kind # "none"
    /\ run[p].at = "review"
    /\ agreed \subseteq run[p].shown
    /\ run' = [run EXCEPT ![p] =
                 IF agreed = {} /\ run[p].kind # "check" THEN Idle
                   ELSE [@ EXCEPT !.agreed = agreed, !.redo = FALSE,
                                 !.at = AfterApproval(run[p].kind)]]
    /\ consents' = [consents EXCEPT ![p] = [d \in Dealers |->
                      IF d \in agreed /\ run[p].kind # "check" THEN @[d] + 1 ELSE @[d]]]
    /\ UNCHANGED <<Store, arrived, fresh, starts, crashes>>

-----------------------------------------------------------------------------
(* The serial send: a draft row, then the mail, then the outcome.          *)

Draft(p, d) ==
    /\ run[p].kind \in {"follow", "close"}
    /\ run[p].at = "send"
    /\ run[p].now = NoDealer
    /\ d \in run[p].agreed \ run[p].done
    /\ unanswered' = [unanswered EXCEPT ![d] = @ + 1]
    /\ rounds' = [rounds EXCEPT ![d] = @ + 1]
    /\ pokes' = IF run[p].kind = "follow" THEN [pokes EXCEPT ![p][d] = @ + 1] ELSE pokes
    /\ run' = [run EXCEPT ![p].now = d]
    /\ UNCHANGED <<active, rel, thread, arrived, filed, farewell, fresh, gone, consents,
                   starts, crashes>>

(* closeAndSuppressDealer: thread and suppression row in one transaction.  *)
Closed(p, d) ==
    /\ thread' = [thread EXCEPT ![d].state = "closed"]
    /\ farewell' = farewell \union {<<p, d>>}

KeepOpen == UNCHANGED <<thread, farewell>>

SendDoneBug(p, d, more) ==
    run' = [run EXCEPT ![p].now = NoDealer,
                       ![p].at = IF more /\ run[p].agreed # run[p].done THEN "send" ELSE "confirm"]

SendDone(p, d, more) ==
    run' = [run EXCEPT ![p].done = @ \union {d}, ![p].now = NoDealer,
                       ![p].at = IF more /\ run[p].agreed # run[p].done \union {d}
                                   THEN "send" ELSE "confirm"]

Sent(p) ==
    LET d == run[p].now IN
    /\ d # NoDealer
    /\ gone' = [gone EXCEPT ![p][d] = @ + 1]
    /\ NewMail(d)
    /\ IF run[p].kind = "close" THEN Closed(p, d) ELSE KeepOpen
    /\ SendDone(p, d, TRUE)
    /\ UNCHANGED <<active, rel, arrived, filed, unanswered, rounds, consents, pokes,
                   starts, crashes>>

(* The send threw after its draft row: the mail may have left. A closeout  *)
(* closes the dealer all the same; a follow-up stops there.                *)
Partial(p, left) ==
    LET d == run[p].now IN
    /\ d # NoDealer
    /\ IF left THEN gone' = [gone EXCEPT ![p][d] = @ + 1] /\ NewMail(d)
               ELSE UNCHANGED <<gone, fresh>>
    /\ IF run[p].kind = "close"
         THEN Closed(p, d) /\ SendDone(p, d, TRUE)
         ELSE KeepOpen /\ run' = [run EXCEPT ![p].now = NoDealer, ![p].at = "confirm"]
    /\ UNCHANGED <<active, rel, arrived, filed, unanswered, rounds, consents, pokes,
                   starts, crashes>>

(* A follow-up marks what it sent; whatever became of the thread.          *)
ConfirmFollowup(p) ==
    /\ At(p, "follow", "confirm")
    /\ thread' = [d \in Dealers |-> IF d \in run[p].done
                                      THEN [thread[d] EXCEPT !.state = "negotiating"]
                                      ELSE thread[d]]
    /\ run' = [run EXCEPT ![p] = Idle]
    /\ UNCHANGED <<active, rel, arrived, filed, unanswered, rounds, farewell, fresh, gone,
                   consents, pokes, starts, crashes>>

(* transition: the search is closed and its claims are released.           *)
Transition(p) ==
    /\ At(p, "close", "confirm")
    /\ active' = active \ {p}
    /\ rel' = [rel EXCEPT ![p] = Released(@)]
    /\ run' = [run EXCEPT ![p] = Idle]
    /\ UNCHANGED <<thread, arrived, filed, unanswered, rounds, farewell, fresh, gone,
                   consents, pokes, starts, crashes>>

-----------------------------------------------------------------------------
(* The process dies and boots. Parked runs wait on; the others execute     *)
(* their step again from its input, or are canceled as too old. A mail on  *)
(* its way has left or not.                                                *)

InFlight == {p \in Profiles : run[p].now # NoDealer}

Restarted(r) ==
    [r EXCEPT !.now = NoDealer, !.redo = TRUE, !.done = IF r.at = "send" THEN {} ELSE r.done]

AfterBoot(r, kept) ==
    IF r.kind = "none" \/ r.at = "review" THEN r
      ELSE IF kept THEN Restarted(r) ELSE Idle

Crash ==
    /\ crashes < MaxCrashes
    /\ crashes' = crashes + 1
    /\ \E left \in SUBSET InFlight, kept \in SUBSET Profiles :
         /\ gone' = [p \in Profiles |-> [d \in Dealers |->
                       IF p \in left /\ run[p].now = d THEN gone[p][d] + 1 ELSE gone[p][d]]]
         /\ fresh' = [p \in Profiles |-> [d \in Dealers |->
                       fresh[p][d] \/ \E q \in left : run[q].now = d]]
         /\ run' = [p \in Profiles |-> AfterBoot(run[p], p \in kept)]
    /\ UNCHANGED <<active, rel, thread, arrived, filed, unanswered, rounds, farewell,
                   consents, pokes, starts>>

Next ==
    \/ \E p \in Profiles, d \in Dealers : Lead(p, d) \/ Draft(p, d)
    \/ \E d \in Dealers : DealerWrites(d)
    \/ \E p \in Profiles, kind \in Kinds : Start(p, kind)
    \/ \E p \in Profiles :
         \/ CloseSearch(p) \/ Restore(p)
         \/ Discover(p) \/ Apply(p) \/ AdvanceWatermark(p)
         \/ Select(p) \/ Assemble(p) \/ Decline(p)
         \/ \E agreed \in SUBSET Dealers : Approve(p, agreed)
         \/ Sent(p) \/ \E left \in BOOLEAN : Partial(p, left)
         \/ ConfirmFollowup(p) \/ Transition(p)
    \/ Crash

Spec == Init /\ [][Next]_vars

-----------------------------------------------------------------------------
(* Every table row and every run keeps its shape through checks, sends,    *)
(* closeouts and crashes (schema.ts; the workflows' step states).          *)
TypeOK ==
    /\ active \subseteq Profiles
    /\ rel \in [Profiles -> [Dealers -> Statuses]]
    /\ thread \in [Dealers -> [state: {"none", "replied", "negotiating", "closed"},
                               owner: Profiles \union {Nobody}]]
    /\ arrived \in [Dealers -> Nat]
    /\ filed \in [Dealers -> Nat]
    /\ unanswered \in [Dealers -> Nat]
    /\ rounds \in [Dealers -> Nat]
    /\ farewell \subseteq Profiles \X Dealers
    /\ fresh \in [Profiles -> [Dealers -> BOOLEAN]]
    /\ run \in [Profiles -> RunSet]
    /\ gone \in [Profiles -> [Dealers -> Nat]]
    /\ consents \in [Profiles -> [Dealers -> Nat]]
    /\ pokes \in [Profiles -> [Dealers -> Nat]]
    /\ starts \in Nat
    /\ crashes \in Nat

(* followupCapDecision: a dealer who keeps silent hears from a search at   *)
(* most MaxUnanswered times, however long the cards were parked; only a    *)
(* send step executed again after a crash adds to it.                      *)
NoPester == \A p \in Profiles, d \in Dealers : pokes[p][d] <= MaxUnanswered + crashes

(* Every mail to a dealer is covered by an approval that named the dealer, *)
(* up to the sends a crash repeats: retries, partial sends and parked      *)
(* cards never spend an approval twice.                                    *)
MailsConsented == \A p \in Profiles, d \in Dealers : gone[p][d] <= consents[p][d] + crashes

(* A search that has closed a dealer out does not write to it again, by    *)
(* any run and after any restore, except by executing an interrupted       *)
(* closeout again: suppression keeps the thread off its checks and the     *)
(* closed state off its cards. It takes another search's run, which writes *)
(* to the same dealer past the end of its own search, to break this.       *)
ClosedOutIsLeftAlone ==
    [][\A pd \in farewell :
         LET p == pd[1]  d == pd[2] IN
         gone'[p][d] > gone[p][d] =>
           \/ run[p].kind = "close" /\ run[p].redo
           \/ \E q \in Profiles \ {p} : gone[q][d] > 0]_vars

(* The watermark passes an unfiled reply only if the discovery could not   *)
(* fetch and route it (it came later, or the search did not know the       *)
(* dealer), the user left it unapproved, or the dealer is closed out: a    *)
(* decline, a crash or another search's check loses none.                  *)
Excused(p, d) ==
    \/ arrived[d] > run[p].seen[d]
    \/ d \in run[p].shown \ run[p].agreed
    \/ d \in SuppressedThreads

WatermarkHonest ==
    [][\A p \in Profiles, d \in Dealers :
         fresh[p][d] /\ ~fresh'[p][d] /\ Unfiled(d) => Excused(p, d)]_vars

(* routing.ts:80-83, claimDealer.ts:5: a search writes only to a dealer    *)
(* bound to it, or that was until the search was closed.                   *)
ContactsHeld ==
    [][\A p \in Profiles, d \in Dealers :
         gone'[p][d] > gone[p][d] => rel[p][d] \in {"bound", "closed_out"}]_vars

(* replyTargets.ts:36: agreed and closed threads are never re-contacted.   *)
ClosedNotRecontacted ==
    [][\A p \in Profiles, d \in Dealers :
         gone'[p][d] > gone[p][d] /\ run[p].kind = "follow" => thread[d].state # "closed"]_vars

(* boot.ts:23-25: mutating side effects stay safe under a restart.         *)
RestartSendsNothing ==
    [][\A p \in Profiles : run[p].redo => gone'[p] = gone[p]]_vars
=============================================================================
