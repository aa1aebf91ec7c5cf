------------------------------ MODULE SkillRuns ------------------------------
(***************************************************************************)
(* The life of a skill run inside the server: SkillRunService (start,      *)
(* formDecision, translate, reattach), the process-ownership guard and the *)
(* boot recovery of runtimeGlue, the durable profile -> run activation     *)
(* rows of the activation registry, and the boot sequence that reconciles  *)
(* them.  One server process, which may crash at any await and boot again. *)
(*                                                                         *)
(* Every action is one synchronous stretch of the Node event loop: what    *)
(* the code does between two awaits is one step.  Mastra, the workflow     *)
(* engine, is external: it keeps one stored row per run (wf, gate) and     *)
(* settles a promise whenever a drive reaches a gate or its end.           *)
(*                                                                         *)
(* Definitions named ...Bug are seeded faults: no action uses them.        *)
(***************************************************************************)
EXTENDS Naturals, Sequences, FiniteSets

CONSTANTS
  Runs,          \* run ids a client may ask to start
  Profiles,      \* search profiles
  NoProfile,     \* the profile of an intake / unpinned start (null)
  NoRun,         \* no activation row
  ProfileOf,     \* the search_profile_id in the start input of each run id
  Bodies,        \* the decision bodies a client may post, up to bodyKeyOf
  NoBody,
  MaxGates,      \* bound: suspensions of one run
  MaxCrashes,    \* bound: process crashes
  RejectedRow,   \* the row statuses a REJECTED drive may leave ({}: none reject)
  DbFaults       \* may the activation DELETE of a terminal throw?

ASSUME RunsAssumption ==
  /\ NoRun \notin Runs
  /\ NoProfile \notin Profiles
  /\ NoBody \notin Bodies
  /\ ProfileOf \in [Runs -> Profiles \cup {NoProfile}]
  /\ MaxGates \in Nat /\ MaxCrashes \in Nat
  /\ RejectedRow \subseteq {"running", "failed"}
  /\ DbFaults \in BOOLEAN

VARIABLES
  act,       \* pipeline_state rows pipeline.active_run.<profile>
  wf,        \* status of the run's row in mastra.db
  gate,      \* how many times the run has suspended: names the gate instance
  proc,      \* the server process
  recovery,  \* BootRecoveryReport of the boot in progress
  owned,     \* ownedRunIds
  starting,  \* start() calls waiting in beginRunGuarded
  mem,       \* SkillRunService.runs, without the claim table
  claims,    \* RunState.claims, by decision
  drive,     \* the engine promise the process is waiting for, by run
  minted,    \* history: decision d of run r was minted for gate minted[r][d]
  answer,    \* history: the body with which decision d resumed the engine
  acked,     \* history: the bodies answered 200 for decision d
  crashes

vars == <<act, wf, gate, proc, recovery, owned, starting, mem, claims, drive,
          minted, answer, acked, crashes>>
history == <<minted, answer, acked>>

\* A run mints one decision per gate, and one more whenever a boot reattaches it.
Decisions == 1..(MaxGates + MaxCrashes)

LiveStatus == {"running", "suspended"}
OverStatus == {"completed", "declined", "failed", "canceled"}
Status == {"none"} \cup LiveStatus \cup OverStatus

NoClaim == [phase |-> "free", body |-> NoBody]
\* A fresh entry of `runs`, with its pending decision (0: none).
Entry(pending) ==
  [tracked |-> TRUE, pending |-> pending, terminal |-> FALSE, handled |-> FALSE, end |-> "none"]
NoState == [tracked |-> FALSE, pending |-> 0, terminal |-> FALSE, handled |-> FALSE, end |-> "none"]
Idle == [by |-> "none", res |-> "none", dec |-> 0]
NothingFound == [suspended |-> {}, stale |-> {}]

Claim == [phase : {"free", "processing", "consumed"}, body : Bodies \cup {NoBody}]
RunState == [tracked : BOOLEAN, pending : Nat, terminal : BOOLEAN, handled : BOOLEAN,
             end : {"none", "done", "error", "aborted"}]
Drive == [by : {"none", "start", "dispatch", "resume", "restart"},
          res : {"none", "suspended", "rejected"} \cup OverStatus,
          dec : Nat]

Live(r) == wf[r] \in LiveStatus

Init ==
  /\ act = [p \in Profiles |-> NoRun]
  /\ wf = [r \in Runs |-> "none"]
  /\ gate = [r \in Runs |-> 0]
  /\ proc = "up"
  /\ recovery = NothingFound
  /\ owned = {}
  /\ starting = [r \in Runs |-> "no"]
  /\ mem = [r \in Runs |-> NoState]
  /\ claims = [r \in Runs |-> [d \in Decisions |-> NoClaim]]
  /\ drive = [r \in Runs |-> Idle]
  /\ minted = [r \in Runs |-> <<>>]
  /\ answer = [r \in Runs |-> [d \in Decisions |-> NoBody]]
  /\ acked = [r \in Runs |-> [d \in Decisions |-> {}]]
  /\ crashes = 0

-----------------------------------------------------------------------------
(* start(): the durable claim and the duplicate-id guard.                  *)

\* clearActivationByRunId: DELETE by VALUE over the whole keyspace.
ClearedOf(r) == [p \in Profiles |-> IF act[p] = r THEN NoRun ELSE act[p]]

\* tryClaimActivation: INSERT ... ON CONFLICT DO NOTHING; a profile-less run claims nothing.
ClaimInserts(r) == ProfileOf[r] # NoProfile /\ act[ProfileOf[r]] = NoRun
ClaimAcquired(r) == ProfileOf[r] # NoProfile => act[ProfileOf[r]] \in {NoRun, r}

\* start() up to the first await: the claim, then the synchronous reservation of
\* beginRunGuarded.  The two refusals, ProfileRunConflictError and the
\* DuplicateRunIdError of a reserved id, undo whatever the call inserted.
StartRun(r) ==
  /\ proc = "up"
  /\ ClaimAcquired(r)
  /\ r \notin owned
  /\ owned' = owned \cup {r}
  /\ starting' = [starting EXCEPT ![r] = IF ClaimInserts(r) THEN "inserted" ELSE "held"]
  /\ act' = IF ClaimInserts(r) THEN [act EXCEPT ![ProfileOf[r]] = r] ELSE act
  /\ UNCHANGED <<wf, gate, proc, recovery, mem, claims, drive, history, crashes>>

\* getWorkflowRunById finds a stored row for the id.
KnownIdBug(r) == Live(r)
KnownId(r) == wf[r] # "none"

\* Only a claim THIS call inserted is cleared: a row it found belongs to a live run.
ClaimUndoneBug(r) == ClearedOf(r)
ClaimUndone(r) == IF starting[r] = "inserted" THEN ClearedOf(r) ELSE act

\* The rest of beginRunGuarded, after getWorkflowRunById: a known run id is a
\* DuplicateRunIdError, which rolls the reservation and the claim back.
StartRefused(r) ==
  /\ starting[r] # "no"
  /\ KnownId(r)
  /\ owned' = owned \ {r}
  /\ act' = ClaimUndone(r)
  /\ starting' = [starting EXCEPT ![r] = "no"]
  /\ UNCHANGED <<wf, gate, proc, recovery, mem, claims, drive, history, crashes>>

\* A free id: createRun and run.start() (not awaited), then attachInit and runs.set.
StartAccepted(r) ==
  /\ starting[r] # "no"
  /\ ~ KnownId(r)
  /\ wf' = [wf EXCEPT ![r] = "running"]
  /\ drive' = [drive EXCEPT ![r] = [by |-> "start", res |-> "none", dec |-> 0]]
  /\ mem' = [mem EXCEPT ![r] = Entry(0)]
  /\ claims' = [claims EXCEPT ![r] = [d \in Decisions |-> NoClaim]]
  /\ starting' = [starting EXCEPT ![r] = "no"]
  /\ UNCHANGED <<act, gate, proc, recovery, owned, history, crashes>>

-----------------------------------------------------------------------------
(* The engine: a drive runs until the next gate or the end of the workflow. *)

\* Outcomes of a drive.  Only an answered gate can end in a decline.
Outcomes(by) == {"suspended", "completed", "failed"} \cup (IF by = "start" THEN {} ELSE {"declined"})

Executing(r) == drive[r].by \in {"start", "resume", "restart"} /\ drive[r].res = "none"

\* The engine stores the new status and settles the promise.  Nobody awaits the
\* result of a restart: boot fired it and forgot it.
Settle(r, outcome) ==
  /\ Executing(r)
  /\ outcome \in Outcomes(drive[r].by)
  /\ outcome = "suspended" => gate[r] < MaxGates
  /\ wf' = [wf EXCEPT ![r] = outcome]
  /\ gate' = IF outcome = "suspended" THEN [gate EXCEPT ![r] = @ + 1] ELSE gate
  /\ drive' = [drive EXCEPT ![r] = IF @.by = "restart" THEN Idle ELSE [@ EXCEPT !.res = outcome]]
  /\ UNCHANGED <<act, proc, recovery, owned, starting, mem, claims, history, crashes>>

\* A plumbing failure: the promise rejects and the row keeps a status of RejectedRow.
Reject(r, row) ==
  /\ Executing(r)
  /\ wf' = [wf EXCEPT ![r] = row]
  /\ drive' = [drive EXCEPT ![r] = IF @.by = "restart" THEN Idle ELSE [@ EXCEPT !.res = "rejected"]]
  /\ UNCHANGED <<act, gate, proc, recovery, owned, starting, mem, claims, history, crashes>>

-----------------------------------------------------------------------------
(* translate(): a settled result becomes run state and wire frames.        *)

EndFrameBug(res) == res
EndFrame(res) ==
  CASE res = "completed" -> "done"
    [] res \in {"declined", "canceled"} -> "aborted"
    [] OTHER -> "error"

\* The RunState after translate: a fresh decision for a gate, or the terminal
\* flags, the terminal frame and the once-only hook (fireTerminal).
TranslatedStateBug(s, r, res) ==
  CASE res = "suspended" -> [s EXCEPT !.pending = Len(minted[r]) + 1]
    [] res = "rejected" -> s
    [] OTHER -> [s EXCEPT !.pending = 0, !.terminal = TRUE, !.handled = TRUE, !.end = EndFrame(res)]
TranslatedState(s, r, res) ==
  IF res = "suspended"
  THEN [s EXCEPT !.pending = Len(minted[r]) + 1]
  ELSE [s EXCEPT !.pending = 0, !.terminal = TRUE, !.handled = TRUE, !.end = EndFrame(res)]

TranslatedMint(r, res) ==
  IF res = "suspended" THEN [minted EXCEPT ![r] = Append(@, gate[r])] ELSE minted

\* finalizeActivation and releaseRunOwnership happen on every terminal branch.
TranslatedActBug(r, res) == IF res \in {"suspended", "declined"} THEN act ELSE ClearedOf(r)
TranslatedAct(r, res) == IF res = "suspended" THEN act ELSE ClearedOf(r)
TranslatedOwned(r, res) == IF res = "suspended" THEN owned ELSE owned \ {r}

\* The .then/.catch of start(): a rejection is finished as an error.
DeliverStart(r) ==
  LET res == drive[r].res IN
  /\ drive[r].by = "start" /\ res # "none"
  /\ mem' = [mem EXCEPT ![r] = TranslatedState(@, r, res)]
  /\ act' = TranslatedAct(r, res)
  /\ owned' = TranslatedOwned(r, res)
  /\ minted' = TranslatedMint(r, res)
  /\ drive' = [drive EXCEPT ![r] = Idle]
  /\ UNCHANGED <<wf, gate, proc, recovery, starting, claims, answer, acked, crashes>>

\* The DELETE of finalizeActivation throws: `terminal` is already set, so the
\* .catch of start() does nothing and neither frame nor hook ever happens.
DeliverStartFault(r) ==
  LET res == drive[r].res IN
  /\ DbFaults
  /\ drive[r].by = "start" /\ res \in OverStatus
  /\ mem' = [mem EXCEPT ![r].terminal = TRUE]
  /\ drive' = [drive EXCEPT ![r] = Idle]
  /\ UNCHANGED <<act, wf, gate, proc, recovery, owned, starting, claims, history, crashes>>

-----------------------------------------------------------------------------
(* formDecision(): the three-phase idempotent claim.                       *)

\* Phase 1 on a KNOWN decision: the same body replays the stored ack.  The
\* refusals (409 in flight, 409 conflict, 410, 404) change nothing.
ReplayAcceptedBug(r, d, b) == claims[r][d].phase = "consumed"
ReplayAccepted(r, d, b) == claims[r][d].phase = "consumed" /\ claims[r][d].body = b
ReplayDecision(r, d, b) ==
  /\ proc = "up" /\ mem[r].tracked
  /\ ReplayAccepted(r, d, b)
  /\ acked' = [acked EXCEPT ![r][d] = @ \cup {b}]
  /\ UNCHANGED <<act, wf, gate, proc, recovery, owned, starting, mem, claims, drive,
                 minted, answer, crashes>>

\* Phase 1 on a NEW decision: it must be the pending one, and nobody may have it
\* in flight.  Phase 2 validates the answer (a refusal rolls the claim back in
\* the same stretch) and waits for createRun.
DecisionClaimableBug(r, d) == mem[r].pending # 0 /\ d <= mem[r].pending /\ claims[r][d].phase = "free"
DecisionClaimable(r, d) == mem[r].pending = d /\ claims[r][d].phase = "free"
SubmitDecision(r, d, b) ==
  /\ proc = "up" /\ mem[r].tracked
  /\ DecisionClaimable(r, d)
  /\ claims' = [claims EXCEPT ![r][d] = [phase |-> "processing", body |-> b]]
  /\ drive' = [drive EXCEPT ![r] = [by |-> "dispatch", res |-> "none", dec |-> d]]
  /\ UNCHANGED <<act, wf, gate, proc, recovery, owned, starting, mem, history, crashes>>

\* handle.resume(): the engine takes the answer of a suspended run.
ResumeEngine(r) ==
  LET d == drive[r].dec IN
  /\ drive[r].by = "dispatch"
  /\ wf[r] = "suspended"
  /\ wf' = [wf EXCEPT ![r] = "running"]
  /\ drive' = [drive EXCEPT ![r].by = "resume"]
  /\ answer' = [answer EXCEPT ![r][d] = claims[r][d].body]
  /\ UNCHANGED <<act, gate, proc, recovery, owned, starting, mem, claims, minted, acked, crashes>>

\* A failed resume deletes the claim: the same decision may be posted again.
RolledBackBug(r) == claims
RolledBack(r) == [claims EXCEPT ![r][drive[r].dec] = NoClaim]

\* The resume throws: the row is not suspended, or the plumbing failed.  The
\* claim is rolled back and the caller gets 410; the pending gate stays.
ResumeThrows(r) ==
  /\ drive[r].by = "dispatch"
  /\ wf[r] # "suspended" \/ RejectedRow # {}
  /\ claims' = RolledBack(r)
  /\ drive' = [drive EXCEPT ![r] = Idle]
  /\ UNCHANGED <<act, wf, gate, proc, recovery, owned, starting, mem, history, crashes>>

ResumeRejected(r) ==
  /\ drive[r].by = "resume" /\ drive[r].res = "rejected"
  /\ claims' = RolledBack(r)
  /\ drive' = [drive EXCEPT ![r] = Idle]
  /\ UNCHANGED <<act, wf, gate, proc, recovery, owned, starting, mem, history, crashes>>

\* Phase 3: pending is cleared, the result translated, the claim consumed.
DeliverResume(r) ==
  LET res == drive[r].res
      d == drive[r].dec IN
  /\ drive[r].by = "resume" /\ res \in {"suspended"} \cup OverStatus
  /\ mem' = [mem EXCEPT ![r] = TranslatedState(@, r, res)]
  /\ act' = TranslatedAct(r, res)
  /\ owned' = TranslatedOwned(r, res)
  /\ minted' = TranslatedMint(r, res)
  /\ claims' = [claims EXCEPT ![r][d].phase = "consumed"]
  /\ acked' = [acked EXCEPT ![r][d] = @ \cup {claims[r][d].body}]
  /\ drive' = [drive EXCEPT ![r] = Idle]
  /\ UNCHANGED <<wf, gate, proc, recovery, starting, answer, crashes>>

\* The DELETE throws inside translate: the claim stays in flight for ever.
DeliverResumeFault(r) ==
  /\ DbFaults
  /\ drive[r].by = "resume" /\ drive[r].res \in OverStatus
  /\ mem' = [mem EXCEPT ![r] = [@ EXCEPT !.pending = 0, !.terminal = TRUE]]
  /\ drive' = [drive EXCEPT ![r] = Idle]
  /\ UNCHANGED <<act, wf, gate, proc, recovery, owned, starting, claims, history, crashes>>

-----------------------------------------------------------------------------
(* Crash, boot, recovery.                                                  *)

\* Everything in memory is gone; the two databases stay as they are.
Crash ==
  /\ proc # "down"
  /\ crashes < MaxCrashes
  /\ crashes' = crashes + 1
  /\ proc' = "down"
  /\ recovery' = NothingFound
  /\ owned' = {}
  /\ starting' = [r \in Runs |-> "no"]
  /\ mem' = [r \in Runs |-> NoState]
  /\ claims' = [r \in Runs |-> [d \in Decisions |-> NoClaim]]
  /\ drive' = [r \in Runs |-> Idle]
  /\ UNCHANGED <<act, wf, gate, history>>

\* recoverOnBoot lists the suspended and the stale rows, then boot restarts the
\* young stale runs (fire and forget) and cancels the others; a cancel that
\* throws is logged and leaves the row.
BootRecover(young, uncanceled) ==
  LET suspended == {r \in Runs : wf[r] = "suspended"}
      stale == {r \in Runs : wf[r] = "running" /\ r \notin owned}
      canceled == (stale \ young) \ uncanceled IN
  /\ proc = "down"
  /\ proc' = "booting"
  /\ young \subseteq stale /\ uncanceled \subseteq stale \ young
  /\ recovery' = [suspended |-> suspended, stale |-> stale]
  /\ wf' = [r \in Runs |-> IF r \in canceled THEN "canceled" ELSE wf[r]]
  /\ drive' = [r \in Runs |-> IF r \in young THEN [Idle EXCEPT !.by = "restart"] ELSE drive[r]]
  /\ UNCHANGED <<act, gate, owned, starting, mem, claims, history, crashes>>

\* reconcileActivations prunes the rows of runs boot did not report; then every
\* reported run that is still suspended is reattached under a fresh decision.
SurvivesBootBug == recovery.suspended
SurvivesBoot == recovery.suspended \cup recovery.stale
Reattached == {r \in recovery.suspended : wf[r] = "suspended"}
BootServe ==
  /\ proc = "booting"
  /\ proc' = "up"
  /\ act' = [p \in Profiles |-> IF act[p] \in SurvivesBoot THEN act[p] ELSE NoRun]
  /\ mem' = [r \in Runs |-> IF r \in Reattached THEN Entry(Len(minted[r]) + 1) ELSE mem[r]]
  /\ minted' = [r \in Runs |-> IF r \in Reattached THEN Append(minted[r], gate[r]) ELSE minted[r]]
  /\ recovery' = NothingFound
  /\ UNCHANGED <<wf, gate, owned, starting, claims, drive, answer, acked, crashes>>

-----------------------------------------------------------------------------
Next ==
  \/ \E r \in Runs :
       \/ StartRun(r) \/ StartRefused(r) \/ StartAccepted(r)
       \/ \E o \in OverStatus \cup {"suspended"} : Settle(r, o)
       \/ \E row \in RejectedRow : Reject(r, row)
       \/ DeliverStart(r) \/ DeliverStartFault(r)
       \/ \E d \in Decisions, b \in Bodies : ReplayDecision(r, d, b) \/ SubmitDecision(r, d, b)
       \/ ResumeEngine(r) \/ ResumeThrows(r) \/ ResumeRejected(r)
       \/ DeliverResume(r) \/ DeliverResumeFault(r)
  \/ Crash
  \/ \E young, uncanceled \in SUBSET Runs : BootRecover(young, uncanceled)
  \/ BootServe

Spec == Init /\ [][Next]_vars

\* The event loop keeps turning: a start() in flight is answered, a dispatched
\* resume reaches the engine, an engine that executes settles, a settled promise is
\* delivered.  Clients owe nothing, and a process that is down may stay down.
Fairness ==
  \A r \in Runs :
    /\ WF_vars(StartRefused(r) \/ StartAccepted(r))
    /\ WF_vars(ResumeEngine(r) \/ ResumeThrows(r))
    /\ WF_vars(\E o \in OverStatus \cup {"suspended"} : Settle(r, o))
    /\ WF_vars(DeliverStart(r) \/ DeliverStartFault(r)
               \/ ResumeRejected(r) \/ DeliverResume(r) \/ DeliverResumeFault(r))

FairSpec == Spec /\ Fairness

-----------------------------------------------------------------------------
TypeOK ==
  /\ act \in [Profiles -> Runs \cup {NoRun}]
  /\ wf \in [Runs -> Status]
  /\ gate \in [Runs -> 0..MaxGates]
  /\ proc \in {"up", "down", "booting"}
  /\ recovery \in [suspended : SUBSET Runs, stale : SUBSET Runs]
  /\ owned \subseteq Runs
  /\ starting \in [Runs -> {"no", "inserted", "held"}]
  /\ mem \in [Runs -> RunState]
  /\ claims \in [Runs -> [Decisions -> Claim]]
  /\ drive \in [Runs -> Drive]
  /\ minted \in [Runs -> Seq(0..MaxGates)]
  /\ answer \in [Runs -> [Decisions -> Bodies \cup {NoBody}]]
  /\ acked \in [Runs -> [Decisions -> SUBSET (Bodies \cup {NoBody})]]
  /\ crashes \in 0..MaxCrashes

\* A profile is served by at most one live run: two runs whose stored rows are
\* running or suspended never have the same search profile (activationRegistry,
\* "one live run per profile").
AtMostOneLive ==
  \A r, s \in Runs :
    Live(r) /\ Live(s) /\ ProfileOf[r] = ProfileOf[s] /\ ProfileOf[r] # NoProfile => r = s

\* What makes it inductive: the activation row follows the run from before the
\* first await of start() to the delivery of its terminal, across reboots.
OwnsProfile(r) == ProfileOf[r] # NoProfile => act[ProfileOf[r]] = r
ActivationFollowsRun ==
  \A r \in Runs :
    /\ Live(r) => OwnsProfile(r)
    /\ starting[r] # "no" /\ wf[r] = "none" => OwnsProfile(r)
    /\ starting[r] = "inserted" => ~ Live(r)
DriveMatchesRow ==
  \A r \in Runs :
    /\ drive[r].by # "none" => wf[r] # "none"
    /\ Executing(r) => wf[r] = "running"
    /\ drive[r].by = "dispatch" => drive[r].res = "none"
    /\ drive[r].res \in OverStatus \cup {"rejected"} => ~ Live(r)
TrackedExists == \A r \in Runs : mem[r].tracked => wf[r] # "none"
ProcessMemory ==
  /\ proc # "up" => \A r \in Runs : starting[r] = "no"
  /\ proc = "down" => owned = {} /\ \A r \in Runs : drive[r] = Idle
  /\ proc = "booting" => \A r \in Runs : Live(r) => r \in SurvivesBoot
IInv == ActivationFollowsRun /\ DriveMatchesRow /\ TrackedExists /\ ProcessMemory

\* An answer drives exactly the gate its form was minted for: whenever the engine
\* takes a resume, the decision named the suspension that is being resumed, never
\* an earlier gate of the same run, also across a crash (formDecision: "a
\* post-crash resubmit can never collide with the lost claim").
AnswersSeenGate ==
  [][\A r \in Runs : wf[r] = "suspended" /\ wf'[r] = "running" =>
       minted[r][drive[r].dec] = gate[r]]_vars

\* A 200 for a decision is only ever given to the body that really resumed the
\* engine: a replay is acknowledged with that body or not at all.
AckHonest ==
  \A r \in Runs, d \in Decisions : acked[r][d] \subseteq {answer[r][d]} \ {NoBody}

\* Where the terminal hook ran to its end it released everything the run held: the
\* profile can start its next run and the id is no longer owned.
TerminalFreesProfile ==
  \A r \in Runs :
    mem[r].handled /\ starting[r] = "no" => r \notin owned /\ \A p \in Profiles : act[p] # r

\* The runs implement the virtual-actor contract.
Actor == INSTANCE VirtualActor
  WITH live <- {r \in Runs : Live(r)}, over <- {r \in Runs : wf[r] \in OverStatus}
ActorSpec == Actor!Spec

\* translate marked the run terminal and then threw in its DELETE: every later
\* frame of it, the end frame included, is dropped (finding of the README).
Muted(r) == mem[r].terminal /\ mem[r].end = "none"

\* A stream a client watches always gets on: a tracked run with no open gate and no
\* end frame reaches a gate or an end frame, unless the process dies or a failing
\* DELETE mutes it (start(): "lands as an error frame so the stream always
\* terminates").
StreamsTerminate ==
  \A r \in Runs :
    mem[r].tracked /\ mem[r].pending = 0 /\ mem[r].end = "none"
      ~> mem[r].pending # 0 \/ mem[r].end # "none" \/ proc # "up" \/ Muted(r)

\* A posted decision never stays in flight: it is consumed or rolled back, so the
\* client that keeps getting 409 in flight is answered in the end (or the run is muted).
DecisionsSettle ==
  \A r \in Runs, d \in Decisions :
    claims[r][d].phase = "processing" ~> claims[r][d].phase # "processing" \/ Muted(r)

\* The header of the activation registry says abandoned and terminal runs leave
\* no zombie entry: while the server serves, the owner of a profile is live, or is
\* starting, or its end is about to be delivered.
NoZombieActivation ==
  proc = "up" => \A p \in Profiles :
    act[p] # NoRun => Live(act[p]) \/ starting[act[p]] # "no" \/ drive[act[p]].by # "none"

\* listPendingGates is documented as every currently parked gate across ALL runs:
\* a run that is parked, with no result on its way, has an open decision.
ParkedGatesListed ==
  proc = "up" => \A r \in Runs : wf[r] = "suspended" /\ drive[r].by = "none" => mem[r].pending # 0
=============================================================================
