------------------------- MODULE PortfolioScheduler -------------------------
(***************************************************************************)
(* The scheduler that starts quote_pipeline runs for hot profiles under    *)
(* MAX_CONCURRENT_ACTIVE_PROFILES: an asynchronous tick that awaits one    *)
(* run start after the other, interleaved with the run-lifecycle events    *)
(* SkillRunService fires synchronously, with runs started over HTTP, and   *)
(* with crashes.  run[p] abstracts SkillRuns: what the activation row and  *)
(* the run of profile p look like from here.                               *)
(*                                                                         *)
(* Which profiles are hot, and which inputs are admissible, is decided     *)
(* elsewhere (profileHealth, the admission watermark): any choice here.    *)
(* Definitions named ...Bug are seeded faults: no action uses them.        *)
(***************************************************************************)
EXTENDS Naturals, FiniteSets, SequencesExt

CONSTANTS
  Listed,      \* the active profiles, in the order profileHealth returns them
  Cap,         \* MAX_CONCURRENT_ACTIVE_PROFILES
  MaxRuns,     \* bound: runs started per profile
  MaxReboots   \* bound: crashes

ASSUME SchedulerAssumption ==
  /\ IsInjective(Listed)
  /\ {Cap, MaxRuns, MaxReboots} \subseteq Nat

Profile == ToSet(Listed)
NoTick == [queue |-> <<>>, available |-> 0, awaiting |-> 0, ticking |-> FALSE]

VARIABLES
  run,       \* the profile's live run
  gen,       \* its run id: the number of runs started for the profile
  mute,      \* profiles whose run was reattached: its events name no profile
  running,   \* PortfolioScheduler.running: the profiles occupying a slot
  recent,    \* recency: profiles by last progress, most recent first
  tick,      \* the tick in flight: candidates left, available, run id awaited
  resumed,   \* history: slots taken by onRunResumed rather than by a tick
  leaked,    \* history: slots known to stand for no executing run
  reboots

schedulerVars == <<run, gen, mute, running, recent, tick, resumed, leaked, reboots>>

\* "starting": claimed, not yet begun.  "executing", or "resuming" when a decision
\* drives it.  The rest are over, or nobody's, with their activation row still there:
\* "stuck" after a rejected resume, its gate still listed; "dead" after an end whose
\* DELETE threw; "untracked" restarted or canceled by a boot, without a RunState.
Busy == {"executing", "resuming"}
RunState == {"none", "starting", "parked", "stuck", "dead", "untracked"} \cup Busy

SchedulerInit ==
  /\ run = [p \in Profile |-> "none"]
  /\ gen = [p \in Profile |-> 0] /\ mute = {}
  /\ running = {} /\ recent = <<>> /\ tick = NoTick
  /\ resumed = {} /\ leaked = {} /\ reboots = 0

Without(p) == SelectSeq(recent, LAMBDA q : q # p)

\* recordProgress.  Seeded fault: the profile is pushed again, not moved.
RecordProgressBug(p) == recent' = <<p>> \o recent \o recent
RecordProgress(p) == recent' = <<p>> \o Without(p)

----------------------------------------------------------------------------
(* tick() *)

\* Candidates in the order of the sort: recency, then as listed (stable).
Sorted(H) ==
  SelectSeq(recent, LAMBDA p : p \in H)
    \o SelectSeq(Listed, LAMBDA p : p \in H \ ToSet(recent))

\* Seeded fault: the slots already taken are not subtracted.
FreeSlotsBug == Cap
FreeSlots == IF Cardinality(running) < Cap THEN Cap - Cardinality(running) ELSE 0

\* Up to the first await; a tick in flight makes this one a no-op.
TickBegin(H) ==
  /\ ~ tick.ticking
  /\ H # {} /\ \A p \in H : run[p] = "none"
  /\ tick' = [queue |-> Sorted(H), available |-> FreeSlots,
              awaiting |-> 0, ticking |-> TRUE]
  /\ UNCHANGED <<run, gen, mute, running, recent, resumed, leaked, reboots>>

\* The loop is at candidate p and may take a slot.
AtCandidate(p) ==
  /\ tick.ticking /\ tick.awaiting = 0 /\ tick.available > 0
  /\ tick.queue # <<>> /\ p = Head(tick.queue)

\* Not admitted - nothing new for it - or its claim is lost to another start.
TickPass(p) ==
  /\ AtCandidate(p)
  /\ tick' = [tick EXCEPT !.queue = Tail(@)]
  /\ UNCHANGED <<run, gen, mute, running, recent, resumed, leaked, reboots>>

\* startProfileRun: the synchronous claim, then the loop awaits the start.
TickStart(p) ==
  /\ AtCandidate(p)
  /\ run[p] = "none" /\ gen[p] < MaxRuns
  /\ run' = [run EXCEPT ![p] = "starting"]
  /\ gen' = [gen EXCEPT ![p] = @ + 1]
  /\ tick' = [tick EXCEPT !.awaiting = gen[p] + 1]
  /\ UNCHANGED <<mute, running, recent, resumed, leaked, reboots>>

\* Is the start of p in progress the one the tick awaits?
Awaited(p) == tick.awaiting # 0 /\ tick.awaiting = gen[p] /\ p = Head(tick.queue)

\* The start fails: its claim is rolled back and the exception ends the tick.
StartFails(p) ==
  /\ run[p] = "starting" /\ Awaited(p)
  /\ run' = [run EXCEPT ![p] = "none"]
  /\ tick' = NoTick
  /\ UNCHANGED <<gen, mute, running, recent, resumed, leaked, reboots>>

StartBegins(p) ==
  /\ run[p] = "starting"
  /\ run' = [run EXCEPT ![p] = "executing"]
  /\ UNCHANGED <<gen, mute, running, recent, tick, resumed, leaked, reboots>>

\* Is the awaited run still the one its profile's activation row names?
\* Seeded fault: the question is not asked.
StillOwnerBug(p) == TRUE
StillOwner(p) == run[p] # "none" /\ gen[p] = tick.awaiting

\* Back from the await.  The run may have met its gate or its end meanwhile.
StartReturned(p) ==
  /\ tick.awaiting # 0 /\ p = Head(tick.queue)
  /\ run[p] # "starting" \/ gen[p] # tick.awaiting
TickResumes(p) ==
  /\ StartReturned(p)
  /\ IF StillOwner(p)
     THEN /\ running' = running \cup {p}
          /\ leaked' = IF run[p] \in {"parked", "stuck", "dead"} THEN leaked \cup {p} ELSE leaked
          /\ RecordProgress(p)
          /\ tick' = [tick EXCEPT !.queue = Tail(@), !.awaiting = 0,
                                  !.available = @ - 1]
     ELSE /\ tick' = [tick EXCEPT !.queue = Tail(@), !.awaiting = 0]
          /\ UNCHANGED <<running, leaked, recent>>
  /\ UNCHANGED <<run, gen, mute, resumed, reboots>>

\* The admission gate's database throws, before a start or when it has been awaited:
\* the loop is left, and a run that was started goes without a slot.
TickThrows ==
  /\ \E p \in Profile : AtCandidate(p) \/ StartReturned(p)
  /\ tick' = NoTick
  /\ UNCHANGED <<run, gen, mute, running, recent, resumed, leaked, reboots>>

TickEnd ==
  /\ tick.ticking /\ tick.awaiting = 0
  /\ tick.queue = <<>> \/ tick.available = 0
  /\ tick' = NoTick
  /\ UNCHANGED <<run, gen, mute, running, recent, resumed, leaked, reboots>>

----------------------------------------------------------------------------
(* The lifecycle events, and runs the scheduler did not start *)

HttpStart(p) ==
  /\ run[p] = "none" /\ gen[p] < MaxRuns
  /\ run' = [run EXCEPT ![p] = "starting"]
  /\ gen' = [gen EXCEPT ![p] = @ + 1]
  /\ UNCHANGED <<mute, running, recent, tick, resumed, leaked, reboots>>

HttpFails(p) ==
  /\ run[p] = "starting" /\ ~ Awaited(p)
  /\ run' = [run EXCEPT ![p] = "none"]
  /\ UNCHANGED <<gen, mute, running, recent, tick, resumed, leaked, reboots>>

\* The slot of p is given back.
Vacate(p) ==
  /\ running' = running \ {p} /\ resumed' = resumed \ {p} /\ leaked' = leaked \ {p}

\* onRunSuspended; an event that names no profile is ignored.
Suspend(p) ==
  /\ run[p] \in Busy
  /\ run' = [run EXCEPT ![p] = "parked"]
  /\ IF p \in mute
     THEN UNCHANGED <<running, resumed, leaked, recent>>
     ELSE Vacate(p) /\ RecordProgress(p)
  /\ UNCHANGED <<gen, mute, tick, reboots>>

\* onRunResumed: the slot is taken whether or not one is free.
Occupy(p) ==
  IF p \in mute
  THEN UNCHANGED <<running, resumed, recent>>
  ELSE /\ running' = running \cup {p} /\ resumed' = resumed \cup {p}
       /\ RecordProgress(p)

\* formDecision: the slot is taken before the resume is awaited.
Resume(p) ==
  /\ run[p] = "parked"
  /\ run' = [run EXCEPT ![p] = "resuming"]
  /\ Occupy(p) /\ leaked' = leaked \ {p}
  /\ UNCHANGED <<gen, mute, tick, reboots>>

\* The resume is rejected: only the claim is rolled back.  The engine still has the
\* run at its gate, or the run is over (or left running in its row) and nobody hears.
ResumeRejected(p) ==
  /\ run[p] = "resuming"
  /\ \E s \in {"parked", "stuck"} : run' = [run EXCEPT ![p] = s]
  /\ leaked' = IF p \in running THEN leaked \cup {p} ELSE leaked
  /\ UNCHANGED <<gen, mute, running, recent, tick, resumed, reboots>>

\* The gate of a stuck run is answered again, and rejected again.
ResumeAgain(p) ==
  /\ run[p] = "stuck"
  /\ Occupy(p) /\ leaked' = IF p \in mute THEN leaked ELSE leaked \cup {p}
  /\ UNCHANGED <<run, gen, mute, tick, reboots>>

\* onRunTerminal.  The event of a completed run names the profile of its result:
\* so also that of a run which named none at its start (UnpinnedTerminal), and
\* which holds no activation row of p.
Freed(p) == Vacate(p) /\ recent' = Without(p)

Terminal(p) ==
  /\ run[p] \in Busy
  /\ run' = [run EXCEPT ![p] = "none"]
  /\ mute' = mute \ {p}
  /\ \/ Freed(p)
     \/ p \in mute /\ UNCHANGED <<running, resumed, leaked, recent>>
  /\ UNCHANGED <<gen, tick, reboots>>

\* translate throws before it fires the terminal event: at the DELETE of the
\* activation row, or when the row is gone and the progress mark is written.
TerminalThrows(p) ==
  /\ run[p] \in Busy
  /\ \E s \in {"dead", "none"} : run' = [run EXCEPT ![p] = s]
  /\ mute' = mute \ {p}
  /\ leaked' = IF p \in running THEN leaked \cup {p} ELSE leaked
  /\ UNCHANGED <<gen, running, recent, tick, resumed, reboots>>

UnpinnedTerminal(p) ==
  /\ p \in running \/ p \in ToSet(recent)
  /\ Freed(p)
  /\ UNCHANGED <<run, gen, mute, tick, reboots>>

\* Slots and ticks are process memory.  A boot goes by what the engine has stored: it
\* reattaches parked runs without their profile, leaves running ones untracked, and
\* drops the rows of runs that ended, noticed or not.
CrashAndBoot ==
  /\ reboots < MaxReboots /\ reboots' = reboots + 1
  /\ run' \in [Profile -> RunState]
  /\ \A p \in Profile :
       run'[p] \in CASE run[p] \in Busy \cup {"untracked"} -> {"none", "parked", "untracked"}
                     [] run[p] \in {"starting", "stuck"} -> {"none", "untracked"}
                     [] run[p] = "dead" -> {"none"}
                     [] OTHER -> {run[p]}
  /\ mute' = {p \in Profile : run'[p] = "parked"}
  /\ running' = {} /\ recent' = <<>> /\ tick' = NoTick
  /\ resumed' = {} /\ leaked' = {}
  /\ UNCHANGED gen

SchedulerNext ==
  \/ \E H \in SUBSET Profile : TickBegin(H)
  \/ TickThrows \/ TickEnd \/ CrashAndBoot
  \/ \E p \in Profile :
       \/ TickPass(p) \/ TickStart(p) \/ StartFails(p) \/ StartBegins(p)
       \/ TickResumes(p) \/ HttpStart(p) \/ HttpFails(p) \/ Suspend(p)
       \/ Resume(p) \/ ResumeRejected(p) \/ ResumeAgain(p)
       \/ Terminal(p) \/ TerminalThrows(p) \/ UnpinnedTerminal(p)

SchedulerSpec == SchedulerInit /\ [][SchedulerNext]_schedulerVars

----------------------------------------------------------------------------
(* Properties *)

\* The shape of the state; recent lists no profile twice.
SchedulerTypeOK ==
  /\ run \in [Profile -> RunState] /\ gen \in [Profile -> 0..MaxRuns]
  /\ mute \subseteq Profile
  /\ running \subseteq Profile /\ resumed \cup leaked \subseteq running
  /\ ToSet(recent) \subseteq Profile /\ IsInjective(recent)
  /\ ToSet(tick.queue) \subseteq Profile /\ tick.available \in 0..Cap
  /\ tick.awaiting \in 0..MaxRuns /\ tick.ticking \in BOOLEAN

\* A slot stands for a run that executes: an end or a parking that beats the tick's
\* await, even if a new run of the profile has begun since, leaves none behind.  Known
\* leaks aside: a resume that is rejected, an end whose hook throws, and a tick that
\* finds its run no longer executing with the activation row still there.
NoGhostSlot == \A p \in running : run[p] \in Busy \/ p \in leaked

\* The ticks themselves keep to the cap: however starts, ends, parkings and
\* resumes interleave with their awaits, the slots taken by ticks never exceed it.
AdmissionsWithinCap == Cardinality(running \ resumed) <= Cap

\* portfolioScheduler.ts:3-7 and 168-172: runs are scheduled "under a hard
\* concurrency cap", and a resumed run re-occupies its slot so that the cap is
\* not exceeded "on the resume path".  Violated: the slot of a parked run has
\* been given away, and its resume takes one more.
CapHeld == Cardinality(running) <= Cap

\* portfolioScheduler.ts:19-20: "A run parked at a human gate (suspended) holds ZERO
\* slots".  Violated: its resume was rejected, or it parked before the tick that
\* started it was back from its await.
SuspendedHoldsNoSlot == \A p \in running : run[p] # "parked"

\* skillRuns.ts:2133-2134: the slot is re-occupied before the resume, and "a re-suspend
\* / terminal below frees it again".  Violated: a rejected resume is followed by neither.
ResumedSlotFreed == \A p \in resumed : run[p] \in Busy
=============================================================================
