--------------------------- MODULE LimitsProofs ----------------------------
(***************************************************************************)
(* The three components that ration something, for every value of their    *)
(* constants.  JobLease: one run of a background job at a time inside its  *)
(* lease, and no fire run twice.  PortfolioScheduler: the slots taken by   *)
(* ticks keep to the cap, and each stands for a run or is a known leak.    *)
(* SendLimiter: the permits of the Gmail semaphore and the day's budget.   *)
(* Their specifications have no name in common, so the three proofs share  *)
(* a module.                                                               *)
(***************************************************************************)
EXTENDS JobLease, PortfolioScheduler, SendLimiter, FiniteSetTheorems, TLAPS

\* Ticking a lease down stays in range, and keeps it above zero only if it was.
LEMMA LessTypes ==
  ASSUME NEW n \in 0..Lease
  PROVE  Less(n) \in 0..Lease /\ Less(n) <= n
  BY LeaseAssumption DEF Less

\* The initial states satisfy the invariant.
LEMMA InvInit == Init => LeaseInv
  BY LeaseAssumption DEF Init, LeaseInv, TypeOK, ClaimIsStored, NoDoubleRun,
                         RunsAreDue

\* Well-formedness is kept by every step.
LEMMA TypeNext == TypeOK /\ [Next]_vars => TypeOK'
<1> SUFFICES ASSUME TypeOK, [Next]_vars PROVE TypeOK'
  OBVIOUS
<1> USE LeaseAssumption DEF TypeOK
<1>1. ASSUME NEW p \in Procs, NEW j \in Jobs, TryClaim(p, j) PROVE TypeOK'
  BY <1>1 DEF TryClaim
<1>2. ASSUME NEW p \in Procs, NEW j \in Jobs, Recheck(p, j) PROVE TypeOK'
  <2>1. PICK s \in {"running", "skipped"} : stage' = [stage EXCEPT ![p][j] = s]
    BY <1>2 DEF Recheck
  <2>2. stage' \in [Procs -> [Jobs -> {"idle", "claimed", "running", "ended", "skipped"}]]
    BY <2>1
  <2>3. blocker' = [blocker EXCEPT ![p] = TRUE] \/ blocker' = blocker
    BY <1>2 DEF Recheck
  <2>4. blocker' \in [Procs -> BOOLEAN]
    BY <2>3
  <2> QED
    BY <1>2, <2>2, <2>4 DEF Recheck
<1>3. ASSUME NEW p \in Procs, NEW j \in Jobs, Succeed(p, j) PROVE TypeOK'
  BY <1>3 DEF Succeed, CoveredNow
<1>4. ASSUME NEW p \in Procs, NEW j \in Jobs, Throw(p, j) PROVE TypeOK'
  BY <1>4 DEF Throw
<1>5. ASSUME NEW p \in Procs, NEW j \in Jobs, Finish(p, j) PROVE TypeOK'
  BY <1>5 DEF Finish, Unclaimed
<1>6. ASSUME NEW j \in Jobs, Fire(j) PROVE TypeOK'
  BY <1>6 DEF Fire
<1>7. CASE Tick
  BY <1>7, LessTypes DEF Tick
<1>8. ASSUME NEW p \in Procs, Crash(p) PROVE TypeOK'
  BY <1>8 DEF Crash, AfterExit
<1>9. ASSUME NEW p \in Procs, Boot(p) PROVE TypeOK'
  BY <1>9 DEF Boot
<1>10. CASE UNCHANGED vars
  BY <1>10 DEF vars
<1> QED
  BY <1>1, <1>2, <1>3, <1>4, <1>5, <1>6, <1>7, <1>8, <1>9, <1>10
     DEF Next, RunJob, CatchUp, CronFire

\* A claim that has not run out stays the stored one: it can be replaced only
\* when it has, and no other run deletes it.
LEMMA ClaimNext == LeaseInv /\ [Next]_vars => ClaimIsStored'
<1> SUFFICES ASSUME LeaseInv, [Next]_vars PROVE ClaimIsStored'
  OBVIOUS
<1> USE LeaseAssumption DEF LeaseInv, TypeOK, ClaimIsStored
<1>1. ASSUME NEW p \in Procs, NEW j \in Jobs, TryClaim(p, j)
      PROVE  ClaimIsStored'
  <2>1. \A q \in Procs : mine[q][j] = 0
    <3>1. row[j] = Free \/ left[j] = 0
      BY <1>1 DEF TryClaim, Claimable
    <3>2. ASSUME NEW q \in Procs, mine[q][j] > 0 PROVE FALSE
      <4>1. row[j] = q /\ left[j] = mine[q][j]
        BY <3>2
      <4> QED
        BY <3>1, <3>2, <4>1
    <3> QED
      BY <3>2
  <2> QED
    BY <1>1, <2>1 DEF TryClaim
<1>2. ASSUME NEW p \in Procs, NEW j \in Jobs, Recheck(p, j)
      PROVE  ClaimIsStored'
  <2>1. PICK s \in {"running", "skipped"} : stage' = [stage EXCEPT ![p][j] = s]
    BY <1>2 DEF Recheck
  <2>2. \A q \in Procs, k \in Jobs : stage'[q][k] = "idle" => stage[q][k] = "idle"
    BY <2>1
  <2> QED
    BY <1>2, <2>2 DEF Recheck
<1>3. ASSUME NEW p \in Procs, NEW j \in Jobs, Succeed(p, j)
      PROVE  ClaimIsStored'
  BY <1>3 DEF Succeed
<1>4. ASSUME NEW p \in Procs, NEW j \in Jobs, Throw(p, j)
      PROVE  ClaimIsStored'
  BY <1>4 DEF Throw
<1>5. ASSUME NEW p \in Procs, NEW j \in Jobs, Finish(p, j)
      PROVE  ClaimIsStored'
  BY <1>5 DEF Finish, Unclaimed
<1>6. ASSUME NEW j \in Jobs, Fire(j) PROVE ClaimIsStored'
  BY <1>6 DEF Fire
<1>7. CASE Tick
  BY <1>7 DEF Tick, Less
<1>8. ASSUME NEW p \in Procs, Crash(p) PROVE ClaimIsStored'
  BY <1>8 DEF Crash
<1>9. ASSUME NEW p \in Procs, Boot(p) PROVE ClaimIsStored'
  BY <1>9 DEF Boot
<1>10. CASE UNCHANGED vars
  BY <1>10 DEF vars
<1> QED
  BY <1>1, <1>2, <1>3, <1>4, <1>5, <1>6, <1>7, <1>8, <1>9, <1>10
     DEF Next, RunJob, CatchUp, CronFire

\* The stored claims keep two unexpired runs of a job apart.
LEMMA StoredIsOne == TypeOK /\ ClaimIsStored => OneInLease
  BY DEF TypeOK, ClaimIsStored, OneInLease, WithinLease

\* The successes stay behind the fires: the decision taken under the claim is
\* still true when the handler ends, since nobody else succeeds in between.
LEMMA DueNext == LeaseInv /\ [Next]_vars => NoDoubleRun' /\ RunsAreDue'
<1> SUFFICES ASSUME LeaseInv, [Next]_vars PROVE NoDoubleRun' /\ RunsAreDue'
  OBVIOUS
<1>a. OneInLease
  BY StoredIsOne DEF LeaseInv
<1> USE LeaseAssumption DEF LeaseInv, TypeOK, NoDoubleRun, RunsAreDue
<1>1. ASSUME NEW p \in Procs, NEW j \in Jobs, TryClaim(p, j)
      PROVE  NoDoubleRun' /\ RunsAreDue'
  BY <1>1 DEF TryClaim
<1>2. ASSUME NEW p \in Procs, NEW j \in Jobs, Recheck(p, j)
      PROVE  NoDoubleRun' /\ RunsAreDue'
  <2>1. stage'[p][j] = "running" => done[j] < fired[j]
    BY <1>2 DEF Recheck, StillDue, Due
  <2>a. PICK s \in {"running", "skipped"} : stage' = [stage EXCEPT ![p][j] = s]
    BY <1>2 DEF Recheck
  <2>2. \A q \in Procs, k \in Jobs :
          stage'[q][k] = "running" => stage[q][k] = "running" \/ (q = p /\ k = j)
    BY <2>a
  <2>3. UNCHANGED <<fired, covered, mine, done>>
    BY <1>2 DEF Recheck
  <2> QED
    BY <2>1, <2>2, <2>3
<1>3. ASSUME NEW p \in Procs, NEW j \in Jobs, Succeed(p, j)
      PROVE  NoDoubleRun' /\ RunsAreDue'
  <2>1. done'[j] <= fired[j] /\ covered'[j] = fired[j]
    BY <1>3 DEF Succeed, CoveredNow
  <2>2. \A k \in Jobs \ {j} : done'[k] = done[k] /\ covered'[k] = covered[k]
    BY <1>3 DEF Succeed
  <2>3. UNCHANGED <<fired, mine>>
    BY <1>3 DEF Succeed
  <2>4. ASSUME NEW q \in Procs, NEW k \in Jobs,
               stage'[q][k] = "running", mine'[q][k] > 0
        PROVE  done'[k] < fired'[k]
    <3>1. stage[q][k] = "running" /\ ~ (q = p /\ k = j)
      BY <1>3, <2>4 DEF Succeed
    <3>2. CASE k = j
      <4>1. ~ (mine[p][j] > 0)
        BY <1>3, <1>a, <2>3, <2>4, <3>1, <3>2 DEF Succeed, OneInLease, WithinLease
      <4>2. done'[j] = done[j]
        BY <1>3, <4>1 DEF Succeed
      <4> QED
        BY <2>3, <2>4, <3>1, <3>2, <4>2
    <3>3. CASE k # j
      BY <2>2, <2>3, <2>4, <3>1, <3>3
    <3> QED
      BY <3>2, <3>3
  <2>5. NoDoubleRun'
    <3> SUFFICES ASSUME NEW k \in Jobs PROVE done'[k] <= covered'[k]
      OBVIOUS
    <3>1. CASE k = j
      BY <2>1, <3>1
    <3>2. CASE k # j
      BY <2>2, <3>2
    <3> QED
      BY <3>1, <3>2
  <2>6. \A k \in Jobs : covered'[k] <= fired'[k]
    <3> SUFFICES ASSUME NEW k \in Jobs PROVE covered'[k] <= fired[k]
      BY <2>3
    <3>1. CASE k = j
      BY <2>1, <3>1
    <3>2. CASE k # j
      BY <2>2, <3>2
    <3> QED
      BY <3>1, <3>2
  <2> QED
    BY <2>4, <2>5, <2>6
<1>4. ASSUME NEW p \in Procs, NEW j \in Jobs, Throw(p, j)
      PROVE  NoDoubleRun' /\ RunsAreDue'
  BY <1>4 DEF Throw
<1>5. ASSUME NEW p \in Procs, NEW j \in Jobs, Finish(p, j)
      PROVE  NoDoubleRun' /\ RunsAreDue'
  BY <1>5 DEF Finish
<1>6. ASSUME NEW j \in Jobs, Fire(j) PROVE NoDoubleRun' /\ RunsAreDue'
  BY <1>6 DEF Fire
<1>7. CASE Tick
  BY <1>7 DEF Tick, Less
<1>8. ASSUME NEW p \in Procs, Crash(p) PROVE NoDoubleRun' /\ RunsAreDue'
  BY <1>8 DEF Crash
<1>9. ASSUME NEW p \in Procs, Boot(p) PROVE NoDoubleRun' /\ RunsAreDue'
  BY <1>9 DEF Boot
<1>10. CASE UNCHANGED vars
  BY <1>10 DEF vars
<1> QED
  BY <1>1, <1>2, <1>3, <1>4, <1>5, <1>6, <1>7, <1>8, <1>9, <1>10
     DEF Next, RunJob, CatchUp, CronFire

----------------------------------------------------------------------------
\* The inductive invariant of the background scheduler.
THEOREM LeaseInductive == Spec => []LeaseInv
<1>1. LeaseInv /\ [Next]_vars => LeaseInv'
  BY TypeNext, ClaimNext, DueNext DEF LeaseInv
<1> QED
  BY InvInit, <1>1, PTL DEF Spec

\* Two processes are never inside one job together within their leases.
THEOREM LeaseExclusive == Spec => []OneInLease
<1>1. LeaseInv => OneInLease
  BY StoredIsOne DEF LeaseInv
<1> QED
  BY LeaseInductive, <1>1, PTL

\* No fire is run twice by handlers that keep within their lease.
THEOREM LeaseNoDoubleRun == Spec => []NoDoubleRun
<1>1. LeaseInv => NoDoubleRun
  BY DEF LeaseInv
<1> QED
  BY LeaseInductive, <1>1, PTL

\* Every way out of running and ended gives the blocker back.
LEMMA BlockerNext == TypeOK /\ BlockerNotLeaked /\ [Next]_vars => BlockerNotLeaked'
<1> SUFFICES ASSUME TypeOK, BlockerNotLeaked, [Next]_vars PROVE BlockerNotLeaked'
  OBVIOUS
<1> DEFINE Awake(s, q) == \E k \in Jobs : s[q][k] \in {"running", "ended"}
<1>1. SUFFICES ASSUME NEW q \in Procs, blocker'[q] PROVE Awake(stage', q)
  BY DEF BlockerNotLeaked
<1>2. ASSUME NEW p \in Procs, NEW j \in Jobs, TryClaim(p, j) PROVE Awake(stage', q)
  BY <1>1, <1>2 DEF TryClaim, TypeOK, BlockerNotLeaked
<1>3. ASSUME NEW p \in Procs, NEW j \in Jobs, Recheck(p, j) PROVE Awake(stage', q)
  <2>1. PICK s \in {"running", "skipped"} : stage' = [stage EXCEPT ![p][j] = s]
    BY <1>3 DEF Recheck
  <2>2. CASE p = q /\ stage'[p][j] = "running"
    BY <2>2
  <2>3. CASE p # q \/ stage'[p][j] # "running"
    <3>1. blocker[q]
      BY <1>1, <1>3, <2>3, <2>1 DEF Recheck, TypeOK
    <3>2. PICK k \in Jobs : stage[q][k] \in {"running", "ended"}
      BY <3>1 DEF BlockerNotLeaked
    <3>3. p = q => k # j
      BY <1>3, <3>2 DEF Recheck
    <3> QED BY <2>1, <3>2, <3>3 DEF TypeOK
  <2> QED BY <2>2, <2>3
<1>4. ASSUME NEW p \in Procs, NEW j \in Jobs, Succeed(p, j) \/ Throw(p, j)
      PROVE  Awake(stage', q)
  <2>1. stage' = [stage EXCEPT ![p][j] = "ended"] /\ blocker' = blocker
    BY <1>4 DEF Succeed, Throw
  <2>2. PICK k \in Jobs : stage[q][k] \in {"running", "ended"}
    BY <1>1, <2>1 DEF BlockerNotLeaked
  <2>3. stage'[q][k] \in {"running", "ended"}
    BY <2>1, <2>2 DEF TypeOK
  <2> QED BY <2>3
<1>5. ASSUME NEW p \in Procs, NEW j \in Jobs, Finish(p, j) PROVE Awake(stage', q)
  <2>1. blocker[q] /\ (p = q => stage[p][j] = "skipped")
    BY <1>1, <1>5 DEF Finish, TypeOK
  <2>2. PICK k \in Jobs : stage[q][k] \in {"running", "ended"}
    BY <2>1 DEF BlockerNotLeaked
  <2>3. stage'[q][k] = stage[q][k]
    BY <1>5, <2>1, <2>2 DEF Finish, TypeOK
  <2> QED BY <2>2, <2>3
<1>6. CASE Tick \/ UNCHANGED vars \/ \E j \in Jobs : Fire(j)
  BY <1>1, <1>6 DEF Tick, vars, Fire, BlockerNotLeaked
<1>7. ASSUME NEW p \in Procs, Crash(p) \/ Boot(p) PROVE Awake(stage', q)
  BY <1>1, <1>7 DEF Crash, AfterExit, Boot, TypeOK, BlockerNotLeaked
<1> QED
  BY <1>2, <1>3, <1>4, <1>5, <1>6, <1>7 DEF Next, RunJob, CatchUp, CronFire

\* The computer is not kept awake by a job that has ended, thrown or died.
THEOREM LeaseBlocker == Spec => []BlockerNotLeaked
<1>1. Init => BlockerNotLeaked
  BY DEF Init, BlockerNotLeaked
<1>2. TypeOK /\ BlockerNotLeaked /\ [Next]_vars => BlockerNotLeaked'
  BY BlockerNext
<1>3. LeaseInv => TypeOK
  BY DEF LeaseInv
<1> QED
  BY LeaseInductive, <1>1, <1>2, <1>3, PTL DEF Spec

----------------------------------------------------------------------------
(* The portfolio scheduler: which slots are taken, and by whom.            *)

\* The tick in flight is a record; while it awaits a start it has a slot for it.
TickShape ==
  /\ tick = [queue |-> tick.queue, available |-> tick.available,
             awaiting |-> tick.awaiting, ticking |-> tick.ticking]
  /\ tick.available \in 0..Cap /\ tick.awaiting \in Nat
  /\ tick.awaiting # 0 => tick.available > 0

SlotsShape ==
  /\ run \in [Profile -> RunState] /\ gen \in [Profile -> Nat]
  /\ running \subseteq Profile /\ IsFiniteSet(running)
  /\ TickShape

\* A slot stands for a run that executes, or is known to be leaked; the runs whose end
\* would go unheard - reattached under no profile, or left behind by a boot - have none
\* and are awaited by no tick.
SlotOf(p) ==
  /\ p \in running => run[p] \in Busy \/ p \in leaked
  /\ p \in mute => run[p] \in Busy \cup {"parked", "stuck"} /\ p \notin running /\ ~ Awaited(p)
  /\ run[p] = "untracked" => ~ Awaited(p)

SlotInv == SlotsShape /\ \A p \in Profile : SlotOf(p)

\* The fields of a tick that an action writes.
LEMMA TickFields ==
  ASSUME TickShape, NEW q, NEW n, NEW k
  PROVE  /\ [tick EXCEPT !.queue = q]
              = [queue |-> q, available |-> tick.available,
                 awaiting |-> tick.awaiting, ticking |-> tick.ticking]
         /\ [tick EXCEPT !.awaiting = n]
              = [queue |-> tick.queue, available |-> tick.available,
                 awaiting |-> n, ticking |-> tick.ticking]
         /\ [tick EXCEPT !.queue = q, !.awaiting = n]
              = [queue |-> q, available |-> tick.available,
                 awaiting |-> n, ticking |-> tick.ticking]
         /\ [tick EXCEPT !.queue = q, !.awaiting = n, !.available = k]
              = [queue |-> q, available |-> k, awaiting |-> n, ticking |-> tick.ticking]
<1> DEFINE R == [queue : {tick.queue, q}, available : {tick.available, k},
                 awaiting : {tick.awaiting, n}, ticking : {tick.ticking}]
<1>a. tick \in R
  BY DEF TickShape
<1>1. [tick EXCEPT !.queue = q]
         = [queue |-> q, available |-> tick.available,
            awaiting |-> tick.awaiting, ticking |-> tick.ticking]
  <2> DEFINE e == [tick EXCEPT !.queue = q]
  <2>1. e \in R
    BY <1>a
  <2>2. e.queue = q /\ e.available = tick.available /\ e.awaiting = tick.awaiting /\ e.ticking = tick.ticking
    BY <1>a
  <2> HIDE DEF e
  <2>3. e = [queue |-> q, available |-> tick.available,
            awaiting |-> tick.awaiting, ticking |-> tick.ticking]
    BY <2>1, <2>2
  <2> QED
    BY <2>3 DEF e
<1>2. [tick EXCEPT !.awaiting = n]
         = [queue |-> tick.queue, available |-> tick.available,
            awaiting |-> n, ticking |-> tick.ticking]
  <2> DEFINE e == [tick EXCEPT !.awaiting = n]
  <2>1. e \in R
    BY <1>a
  <2>2. e.queue = tick.queue /\ e.available = tick.available /\ e.awaiting = n /\ e.ticking = tick.ticking
    BY <1>a
  <2> HIDE DEF e
  <2>3. e = [queue |-> tick.queue, available |-> tick.available,
            awaiting |-> n, ticking |-> tick.ticking]
    BY <2>1, <2>2
  <2> QED
    BY <2>3 DEF e
<1>3. [tick EXCEPT !.queue = q, !.awaiting = n]
         = [queue |-> q, available |-> tick.available,
            awaiting |-> n, ticking |-> tick.ticking]
  <2> DEFINE e == [tick EXCEPT !.queue = q, !.awaiting = n]
  <2>1. e \in R
    BY <1>a
  <2>2. e.queue = q /\ e.available = tick.available /\ e.awaiting = n /\ e.ticking = tick.ticking
    BY <1>a
  <2> HIDE DEF e
  <2>3. e = [queue |-> q, available |-> tick.available,
            awaiting |-> n, ticking |-> tick.ticking]
    BY <2>1, <2>2
  <2> QED
    BY <2>3 DEF e
<1>4. [tick EXCEPT !.queue = q, !.awaiting = n, !.available = k]
         = [queue |-> q, available |-> k,
            awaiting |-> n, ticking |-> tick.ticking]
  <2> DEFINE e == [tick EXCEPT !.queue = q, !.awaiting = n, !.available = k]
  <2>1. e \in R
    BY <1>a
  <2>2. e.queue = q /\ e.available = k /\ e.awaiting = n /\ e.ticking = tick.ticking
    BY <1>a
  <2> HIDE DEF e
  <2>3. e = [queue |-> q, available |-> k,
            awaiting |-> n, ticking |-> tick.ticking]
    BY <2>1, <2>2
  <2> QED
    BY <2>3 DEF e
<1> QED
  BY <1>1, <1>2, <1>3, <1>4

\* With the free slots of a tick, and for any choice of candidates, the shape holds.
LEMMA FreeSlotsBound ==
  ASSUME IsFiniteSet(running)
  PROVE  /\ Cardinality(running) \in Nat /\ FreeSlots \in 0..Cap
         /\ FreeSlots > 0 => FreeSlots + Cardinality(running) = Cap
<1>1. Cardinality(running) \in Nat /\ Cap \in Nat
  BY FS_CardinalityType, SchedulerAssumption
<1> QED
  BY <1>1 DEF FreeSlots

\* What every step keeps of the tick.
LEMMA TickNext == SlotsShape /\ [SchedulerNext]_schedulerVars => TickShape'
<1> SUFFICES ASSUME SlotsShape, [SchedulerNext]_schedulerVars PROVE TickShape'
  OBVIOUS
<1>0. /\ TickShape /\ Cap \in Nat /\ tick.available \in 0..Cap /\ tick.awaiting \in Nat
      /\ gen \in [Profile -> Nat] /\ IsFiniteSet(running)
  BY SchedulerAssumption DEF SlotsShape, TickShape
<1>1. CASE tick' = tick
  BY <1>0, <1>1 DEF TickShape
<1>2. CASE tick' = NoTick
  BY <1>0, <1>2 DEF TickShape, NoTick
<1>3. ASSUME NEW H \in SUBSET Profile, TickBegin(H) PROVE TickShape'
  BY <1>0, <1>3, FreeSlotsBound DEF TickBegin, TickShape
<1>4. ASSUME NEW p \in Profile, TickPass(p) PROVE TickShape'
  <2>1. tick' = [queue |-> Tail(tick.queue), available |-> tick.available,
                 awaiting |-> tick.awaiting, ticking |-> tick.ticking]
    BY <1>0, <1>4, TickFields DEF TickPass
  <2> QED
    BY <1>0, <2>1 DEF TickShape
<1>5. ASSUME NEW p \in Profile, TickStart(p) PROVE TickShape'
  <2>1. tick' = [queue |-> tick.queue, available |-> tick.available,
                 awaiting |-> gen[p] + 1, ticking |-> tick.ticking]
    BY <1>0, <1>5, TickFields DEF TickStart
  <2>2. tick.available > 0
    BY <1>5 DEF TickStart, AtCandidate
  <2> QED
    BY <1>0, <2>1, <2>2 DEF TickShape
<1>6. ASSUME NEW p \in Profile, TickResumes(p) PROVE TickShape'
  <2>1. tick.available > 0 /\ tick.available - 1 \in 0..Cap
    BY <1>0, <1>6 DEF TickResumes, StartReturned, TickShape
  <2>2. PICK k \in {tick.available, tick.available - 1} :
          tick' = [queue |-> Tail(tick.queue), available |-> k,
                   awaiting |-> 0, ticking |-> tick.ticking]
    BY <1>0, <1>6, TickFields DEF TickResumes
  <2> QED
    BY <1>0, <2>1, <2>2 DEF TickShape
<1> QED
  BY <1>1, <1>2, <1>3, <1>4, <1>5, <1>6
     DEF SchedulerNext, schedulerVars, StartFails, StartBegins, TickThrows, TickEnd, HttpStart,
         HttpFails, Suspend, Resume, ResumeRejected, ResumeAgain, Terminal, TerminalThrows,
         UnpinnedTerminal, CrashAndBoot

\* The runs stay runs, and finitely many of them hold a slot.
LEMMA SlotsNext == SlotsShape /\ [SchedulerNext]_schedulerVars => SlotsShape'
<1> SUFFICES ASSUME SlotsShape, [SchedulerNext]_schedulerVars PROVE SlotsShape'
  OBVIOUS
<1>0. /\ run \in [Profile -> RunState] /\ gen \in [Profile -> Nat]
      /\ running \subseteq Profile /\ IsFiniteSet(running)
  BY DEF SlotsShape
<1>1. run' \in [Profile -> RunState]
  <2>1. \/ run' = run \/ run' \in [Profile -> RunState]
        \/ \E p \in Profile, x \in RunState : run' = [run EXCEPT ![p] = x]
    BY DEF RunState, Busy, SchedulerNext, schedulerVars, TickBegin, TickPass, TickStart, StartFails,
           StartBegins, TickResumes, TickThrows, TickEnd, HttpStart, HttpFails, Suspend, Resume,
           ResumeRejected, ResumeAgain, Terminal, TerminalThrows, UnpinnedTerminal, CrashAndBoot
  <2> QED
    BY <1>0, <2>1
<1>4. gen' \in [Profile -> Nat]
  BY <1>0 DEF SchedulerNext, schedulerVars, TickBegin, TickPass, TickStart, StartFails,
              StartBegins, TickResumes, TickThrows, TickEnd, HttpStart, HttpFails, Suspend, Resume,
              ResumeRejected, ResumeAgain, Terminal, TerminalThrows, UnpinnedTerminal, CrashAndBoot
<1>2. \/ running' = {} \/ running' = running
      \/ \E p \in Profile : running' = running \cup {p} \/ running' = running \ {p}
  BY DEF SchedulerNext, schedulerVars, TickBegin, TickPass, TickStart, StartFails,
         StartBegins, TickResumes, TickThrows, TickEnd, HttpStart, HttpFails, Suspend, Resume,
         ResumeRejected, ResumeAgain, Terminal, TerminalThrows, UnpinnedTerminal, Freed, Vacate,
         Occupy, CrashAndBoot
<1>3. running' \subseteq Profile /\ IsFiniteSet(running')
  BY <1>0, <1>2, FS_EmptySet, FS_AddElement, FS_RemoveElement
<1> QED
  BY <1>1, <1>3, <1>4, TickNext DEF SlotsShape

\* A run the step neither moves nor gives a slot, while the tick awaits no more than before.
LEMMA SlotSame ==
  ASSUME NEW p \in Profile, SlotOf(p), run'[p] = run[p],
         p \in running' => p \in running, p \in leaked => p \in leaked',
         p \in mute' <=> p \in mute, Awaited(p)' => Awaited(p)
  PROVE  SlotOf(p)'
  BY DEF SlotOf

LEMMA SlotNext ==
  ASSUME SlotInv, [SchedulerNext]_schedulerVars, NEW s \in Profile
  PROVE  SlotOf(s)'
<1>0. /\ SlotOf(s) /\ TickShape /\ run \in [Profile -> RunState] /\ gen \in [Profile -> Nat]
      /\ run[s] \in RunState
  BY DEF SlotInv, SlotsShape
<1>1. CASE UNCHANGED schedulerVars
  BY <1>0, <1>1, SlotSame DEF schedulerVars, Awaited
<1>2. ASSUME NEW H \in SUBSET Profile, TickBegin(H) PROVE SlotOf(s)'
  <2>1. ~ Awaited(s)'
    BY <1>2 DEF TickBegin, Awaited
  <2> QED
    BY <1>0, <1>2, <2>1, SlotSame DEF TickBegin
<1>3. CASE TickThrows \/ TickEnd
  <2>1. ~ Awaited(s)'
    BY <1>3 DEF TickThrows, TickEnd, NoTick, Awaited
  <2> QED
    BY <1>0, <1>3, <2>1, SlotSame DEF TickThrows, TickEnd
<1>4. CASE CrashAndBoot
  <2>1. ~ Awaited(s)'
    BY <1>4 DEF CrashAndBoot, NoTick, Awaited
  <2> QED
    BY <1>4, <2>1 DEF CrashAndBoot, SlotOf
<1>5. ASSUME NEW p \in Profile, TickPass(p) PROVE SlotOf(s)'
  <2>1. ~ Awaited(s)'
    BY <1>0, <1>5, TickFields DEF TickPass, AtCandidate, Awaited
  <2> QED
    BY <1>0, <1>5, <2>1, SlotSame DEF TickPass
<1>6. ASSUME NEW p \in Profile, TickStart(p) PROVE SlotOf(s)'
  <2>1. /\ p = Head(tick.queue) /\ run[p] = "none"
        /\ tick'.queue = tick.queue /\ run' = [run EXCEPT ![p] = "starting"]
    BY <1>0, <1>6, TickFields DEF TickStart, AtCandidate
  <2>2. CASE s = p
    BY <1>0, <1>6, <2>1, <2>2 DEF TickStart, SlotOf, Busy
  <2>3. CASE s # p
    <3>1. ~ Awaited(s)'
      BY <2>1, <2>3 DEF Awaited
    <3> QED
      BY <1>0, <1>6, <2>1, <2>3, <3>1, SlotSame DEF TickStart
  <2> QED
    BY <2>2, <2>3
<1>7. ASSUME NEW p \in Profile, StartFails(p) \/ HttpFails(p) \/ StartBegins(p) \/ HttpStart(p)
      PROVE  SlotOf(s)'
  <2>1. run[p] \in {"starting", "none"} /\ UNCHANGED <<running, leaked, mute>>
    BY <1>7 DEF StartFails, HttpFails, StartBegins, HttpStart
  <2>2. \E x \in {"none", "starting", "executing"} : run' = [run EXCEPT ![p] = x]
    BY <1>7 DEF StartFails, HttpFails, StartBegins, HttpStart
  <2>3. CASE s = p
    BY <1>0, <2>1, <2>2, <2>3 DEF SlotOf, Busy
  <2>4. CASE s # p
    <3>1. Awaited(s)' => Awaited(s)
      BY <1>0, <1>7, <2>4 DEF Awaited, StartFails, HttpFails, StartBegins, HttpStart, NoTick
    <3> QED
      BY <1>0, <2>1, <2>2, <2>4, <3>1, SlotSame
  <2> QED
    BY <2>3, <2>4
<1>8. ASSUME NEW p \in Profile, TickResumes(p) PROVE SlotOf(s)'
  <2>1. ~ Awaited(s)'
    BY <1>0, <1>8, TickFields DEF TickResumes, Awaited
  <2>2. UNCHANGED <<run, gen, mute>>
    BY <1>8 DEF TickResumes
  <2>3. leaked \subseteq leaked' /\ (s \in running' => s \in running \/ (s = p /\ StillOwner(p)))
    BY <1>8 DEF TickResumes
  <2>4. ASSUME s = p, StillOwner(p)
        PROVE  (run[s] \in Busy \/ s \in leaked') /\ s \notin mute
    <3>1. Awaited(s) /\ run[s] # "starting" /\ run[s] # "none"
      BY <1>8, <2>4 DEF TickResumes, StartReturned, StillOwner, Awaited
    <3>2. s \notin mute /\ run[s] \in Busy \cup {"parked", "stuck", "dead"}
      BY <1>0, <3>1 DEF SlotOf, RunState
    <3> QED
      BY <1>8, <2>4, <3>2 DEF TickResumes
  <2> QED
    BY <1>0, <2>1, <2>2, <2>3, <2>4 DEF SlotOf
\* The events of the run of p: what they leave of p, and that they touch nobody else.
<1>9. ASSUME NEW p \in Profile,
             Suspend(p) \/ Resume(p) \/ ResumeRejected(p) \/ ResumeAgain(p)
      PROVE  SlotOf(s)'
  <2>1. UNCHANGED <<gen, mute, tick>>
    BY <1>9 DEF Suspend, Resume, ResumeRejected, ResumeAgain
  <2>2. /\ \E x \in {"parked", "resuming", "stuck"} : run' = [run EXCEPT ![p] = x]
        /\ running' \in {running, running \ {p}, running \cup {p}}
        /\ p \in mute => running' = running
        /\ leaked \ {p} \subseteq leaked'
    <3>1. CASE Suspend(p)
      BY <3>1 DEF Suspend, Vacate
    <3>2. CASE Resume(p)
      BY <3>2 DEF Resume, Occupy
    <3>3. CASE ResumeRejected(p)
      BY <3>3 DEF ResumeRejected
    <3>4. CASE ResumeAgain(p)
      <4>1. run' = [run EXCEPT ![p] = "stuck"]
        BY <1>0, <3>4 DEF ResumeAgain
      <4> QED
        BY <3>4, <4>1 DEF ResumeAgain, Occupy
    <3> QED
      BY <1>9, <3>1, <3>2, <3>3, <3>4
  <2>3. p \in running' => run'[p] \in Busy \/ p \in leaked'
    <3>1. CASE Suspend(p)
      BY <1>0, <3>1 DEF Suspend, Vacate, SlotOf, SlotInv
    <3>2. CASE Resume(p)
      BY <1>0, <3>2 DEF Resume, Busy
    <3>3. CASE ResumeRejected(p)
      BY <3>3 DEF ResumeRejected
    <3>4. CASE ResumeAgain(p)
      BY <3>4 DEF ResumeAgain, Occupy, SlotOf, SlotInv
    <3> QED
      BY <1>9, <3>1, <3>2, <3>3, <3>4
  <2>4. Awaited(s)' <=> Awaited(s)
    BY <2>1 DEF Awaited
  <2>5. CASE s = p
    BY <1>0, <2>1, <2>2, <2>3, <2>4, <2>5 DEF SlotOf, Busy
  <2>6. CASE s # p
    BY <1>0, <2>1, <2>2, <2>4, <2>6, SlotSame
  <2> QED
    BY <2>5, <2>6
<1>10. ASSUME NEW p \in Profile, Terminal(p) \/ TerminalThrows(p) PROVE SlotOf(s)'
  <2>1. /\ UNCHANGED <<gen, tick>> /\ mute' = mute \ {p}
        /\ \E x \in {"dead", "none"} : run' = [run EXCEPT ![p] = x]
    BY <1>10 DEF Terminal, TerminalThrows
  <2>2. /\ \/ running' = running \ {p}
           \/ running' = running /\ (p \in mute \/ p \in leaked' \/ p \notin running)
        /\ leaked \ {p} \subseteq leaked'
    BY <1>10 DEF Terminal, TerminalThrows, Freed, Vacate
  <2>3. Awaited(s)' <=> Awaited(s)
    BY <2>1 DEF Awaited
  <2>4. CASE s = p
    BY <1>0, <2>1, <2>2, <2>4 DEF SlotOf
  <2>5. CASE s # p
    BY <1>0, <2>1, <2>2, <2>3, <2>5, SlotSame
  <2> QED
    BY <2>4, <2>5
<1>11. ASSUME NEW p \in Profile, UnpinnedTerminal(p) PROVE SlotOf(s)'
  BY <1>0, <1>11 DEF UnpinnedTerminal, Freed, Vacate, Awaited, SlotOf
<1> QED
  BY <1>1, <1>2, <1>3, <1>4, <1>5, <1>6, <1>7, <1>8, <1>9, <1>10, <1>11 DEF SchedulerNext

\* Slots, runs and the tick's awaits stay consistent, for any profiles and any cap: a
\* slot stands for an executing run or is a recorded leak, a reattached run has none,
\* and no tick awaits a run it would be wrong to give one.
THEOREM SchedulerSlots == SchedulerSpec => []SlotInv
<1>1. SchedulerInit => SlotInv
  <2> SUFFICES ASSUME SchedulerInit PROVE SlotInv
    OBVIOUS
  <2>1. TickShape
    BY SchedulerAssumption DEF SchedulerInit, TickShape, NoTick
  <2> QED
    BY <2>1, FS_EmptySet DEF SchedulerInit, SlotInv, SlotsShape, SlotOf, RunState
<1>2. SlotInv /\ [SchedulerNext]_schedulerVars => SlotInv'
  <2> SUFFICES ASSUME SlotInv, [SchedulerNext]_schedulerVars PROVE SlotInv'
    OBVIOUS
  <2>1. SlotsShape'
    BY SlotsNext DEF SlotInv
  <2>2. \A s \in Profile : SlotOf(s)'
    BY SlotNext
  <2> QED
    BY <2>1, <2>2 DEF SlotInv, Profile
<1> QED
  BY <1>1, <1>2, PTL DEF SchedulerSpec

\* A slot stands for an executing run, whatever ends, parks or begins anew while a tick
\* awaits, but for the leaks the code has: a rejected resume, an end whose hook throws,
\* and a tick back from its await to a run that no longer executes.
THEOREM SchedulerNoGhost == SchedulerSpec => []NoGhostSlot
<1>1. SlotInv => NoGhostSlot
  BY DEF SlotInv, SlotsShape, SlotOf, NoGhostSlot
<1> QED
  BY <1>1, SchedulerSlots, PTL

\* The slots ticks have taken and those the tick in flight may still take fit in the cap.
AdmittedInv == Cardinality(running \ resumed) + tick.available <= Cap

LEMMA AdmittedNext ==
  SlotsShape /\ AdmittedInv /\ [SchedulerNext]_schedulerVars => AdmittedInv'
<1> SUFFICES ASSUME SlotsShape, AdmittedInv, [SchedulerNext]_schedulerVars PROVE AdmittedInv'
  OBVIOUS
<1> DEFINE admitted == running \ resumed
<1>0. /\ IsFiniteSet(running) /\ IsFiniteSet(admitted) /\ Cardinality(admitted) \in Nat
      /\ Cap \in Nat /\ tick.available \in 0..Cap /\ TickShape
      /\ Cardinality(admitted) + tick.available <= Cap /\ Cardinality(admitted) <= Cardinality(running)
  BY FS_Subset, FS_CardinalityType, SchedulerAssumption DEF SlotsShape, TickShape, AdmittedInv
\* Fewer slots held, and no more on offer.
<1>1. ASSUME admitted' \subseteq admitted, tick'.available \in 0..tick.available PROVE AdmittedInv'
  <2>1. Cardinality(admitted') \in Nat /\ Cardinality(admitted') <= Cardinality(admitted)
    BY <1>0, <1>1, FS_Subset, FS_CardinalityType
  <2> QED
    BY <1>0, <1>1, <2>1 DEF AdmittedInv
<1>2. CASE UNCHANGED schedulerVars
  BY <1>0, <1>1, <1>2 DEF schedulerVars
<1>3. ASSUME NEW H \in SUBSET Profile, TickBegin(H) PROVE AdmittedInv'
  <2>1. admitted' = admitted /\ tick'.available = FreeSlots
    BY <1>3 DEF TickBegin
  <2>2. CASE FreeSlots > 0
    BY <1>0, <2>1, <2>2, FreeSlotsBound DEF AdmittedInv
  <2>3. CASE ~ FreeSlots > 0
    BY <1>0, <1>1, <2>1, <2>3, FreeSlotsBound
  <2> QED
    BY <2>2, <2>3
<1>4. CASE TickThrows \/ TickEnd \/ CrashAndBoot
  <2>1. admitted' \subseteq admitted /\ tick'.available = 0
    BY <1>4 DEF TickThrows, TickEnd, CrashAndBoot, NoTick
  <2> QED
    BY <1>0, <1>1, <2>1
<1>5. ASSUME NEW p \in Profile, TickPass(p) \/ TickStart(p) PROVE AdmittedInv'
  <2>1. tick'.available = tick.available
    <3>1. CASE TickPass(p)
      BY <1>0, <3>1, TickFields DEF TickPass
    <3>2. CASE TickStart(p)
      BY <1>0, <3>2, TickFields DEF TickStart
    <3> QED
      BY <1>5, <3>1, <3>2
  <2>2. admitted' = admitted
    BY <1>5 DEF TickPass, TickStart
  <2> QED
    BY <1>0, <1>1, <2>1, <2>2
<1>6. ASSUME NEW p \in Profile, StartFails(p) \/ HttpFails(p) \/ StartBegins(p) \/ HttpStart(p)
      PROVE  AdmittedInv'
  <2>1. admitted' = admitted /\ tick'.available \in {0, tick.available}
    BY <1>6 DEF StartFails, HttpFails, StartBegins, HttpStart, NoTick
  <2> QED
    BY <1>0, <1>1, <2>1
<1>7. ASSUME NEW p \in Profile, TickResumes(p) PROVE AdmittedInv'
  <2>1. CASE StillOwner(p)
    <3>1. admitted' \subseteq admitted \cup {p} /\ tick'.available = tick.available - 1
      BY <1>0, <1>7, <2>1, TickFields DEF TickResumes
    <3>2. tick.available > 0
      BY <1>0, <1>7 DEF TickResumes, StartReturned, TickShape
    <3>3. /\ IsFiniteSet(admitted \cup {p})
          /\ Cardinality(admitted \cup {p}) \in {Cardinality(admitted), Cardinality(admitted) + 1}
      <4> HIDE DEF admitted
      <4> QED
        BY <1>0, FS_AddElement
    <3>4. Cardinality(admitted') \in Nat /\ Cardinality(admitted') <= Cardinality(admitted \cup {p})
      BY <3>1, <3>3, FS_Subset, FS_CardinalityType
    <3> QED
      BY <1>0, <3>1, <3>2, <3>3, <3>4 DEF AdmittedInv
  <2>2. CASE ~ StillOwner(p)
    <3>1. admitted' = admitted /\ tick'.available = tick.available
      BY <1>0, <1>7, <2>2, TickFields DEF TickResumes
    <3> QED
      BY <1>0, <1>1, <3>1
  <2> QED
    BY <2>1, <2>2
<1>8. ASSUME NEW p \in Profile,
             \/ Suspend(p) \/ Resume(p) \/ ResumeRejected(p) \/ ResumeAgain(p)
             \/ Terminal(p) \/ TerminalThrows(p) \/ UnpinnedTerminal(p)
      PROVE  AdmittedInv'
  <2>1. admitted' \subseteq admitted /\ tick' = tick
    BY <1>8 DEF Suspend, Resume, ResumeRejected, ResumeAgain, Terminal, TerminalThrows,
                UnpinnedTerminal, Freed, Vacate, Occupy
  <2> QED
    BY <1>0, <1>1, <2>1
<1> QED
  BY <1>2, <1>3, <1>4, <1>5, <1>6, <1>7, <1>8 DEF SchedulerNext

\* Ticks alone never exceed the cap, however their awaits interleave with the
\* starts, ends, parkings and resumes of every profile.
THEOREM SchedulerWithinCap == SchedulerSpec => []AdmissionsWithinCap
<1>1. SchedulerInit => AdmittedInv
  BY FS_EmptySet, SchedulerAssumption DEF SchedulerInit, AdmittedInv, NoTick
<1>2. SlotsShape /\ AdmittedInv => AdmissionsWithinCap
  <2> SUFFICES ASSUME SlotsShape, AdmittedInv PROVE AdmissionsWithinCap
    OBVIOUS
  <2>1. Cardinality(running \ resumed) \in Nat /\ Cap \in Nat /\ tick.available \in Nat
    BY FS_Subset, FS_CardinalityType, SchedulerAssumption DEF SlotsShape, TickShape
  <2> QED
    BY <2>1 DEF AdmittedInv, AdmissionsWithinCap
<1>3. SlotInv => SlotsShape
  BY DEF SlotInv
<1> QED
  BY <1>1, <1>2, <1>3, AdmittedNext, SchedulerSlots, PTL DEF SchedulerSpec

----------------------------------------------------------------------------
(* The send limiter: its permits, its queue and its daily budget.          *)

\* The record of a call; one that backs off has a retry left.
CallFields == [at : Live \union {"new", "refused", "landed", "failed"}, wake : Nat,
               attempt : 0..MaxRetries, day : Nat]
CallRec == {q \in CallFields : q.at \in {"backoff", "repaced"} => q.attempt < MaxRetries}

\* What the semaphore is made of, and that nobody waits in it twice.
SemaphoreType ==
    /\ active \in Nat /\ waiters \in Seq(Calls) /\ call \in [Calls -> CallRec]
Distinct == \A i, j \in DOMAIN waiters : waiters[i] = waiters[j] => i = j
SemaphoreInv == SemaphoreType /\ PermitsKept /\ Distinct

LEMMA CallsFinite == IsFiniteSet(Calls)
  BY FS_Interval, LimiterAssumption DEF Calls

\* The calls at any stages are finitely many.
LEMMA AtFinite ==
  ASSUME NEW stages
  PROVE  IsFiniteSet(At(stages)) /\ Cardinality(At(stages)) \in Nat
<1>1. At(stages) \subseteq Calls
  BY DEF At
<1> QED
  BY <1>1, CallsFinite, FS_Subset, FS_CardinalityType

\* A step that moves no call in or out of the semaphore.
LEMMA PermitsSame ==
  ASSUME SemaphoreInv, NEW c \in Calls, NEW r \in CallRec, call' = [call EXCEPT ![c] = r],
         UNCHANGED <<active, waiters>>,
         r.at \in Inside <=> call[c].at \in Inside,
         r.at = "queued" <=> call[c].at = "queued"
  PROVE  SemaphoreInv'
<1>1. call \in [Calls -> CallRec] /\ call' \in [Calls -> CallRec]
  BY DEF SemaphoreInv, SemaphoreType
<1>2. \A d \in Calls : call'[d] = IF d = c THEN r ELSE call[d]
  BY <1>1
<1>3. At(Inside)' = At(Inside) /\ At({"queued"})' = At({"queued"})
  BY <1>2 DEF At, Inside
<1> QED
  BY <1>1, <1>3 DEF SemaphoreInv, SemaphoreType, PermitsKept, Distinct

\* acquire(): a permit, or a place at the end of the queue.
LEMMA Entering ==
  ASSUME SemaphoreInv, NEW c \in Calls, NEW r \in CallRec, Enter(c, r),
         call[c].at \notin Inside \union {"queued"}
  PROVE  SemaphoreInv'
<1>0. /\ active \in Nat /\ waiters \in Seq(Calls) /\ call \in [Calls -> CallRec]
      /\ InFlightCap \in Nat
  BY LimiterAssumption DEF SemaphoreInv, SemaphoreType
<1>1. CASE active < InFlightCap
  <2>1. /\ active' = active + 1 /\ waiters' = waiters
        /\ call' = [call EXCEPT ![c] = [r EXCEPT !.at = "calling"]]
    BY <1>1 DEF Enter
  <2>2. [r EXCEPT !.at = "calling"] \in CallRec /\ [r EXCEPT !.at = "calling"].at = "calling"
    BY DEF CallRec, CallFields, Live, Inside
  <2>3. call' \in [Calls -> CallRec] /\ call'[c].at = "calling"
        /\ \A d \in Calls \ {c} : call'[d] = call[d]
    BY <1>0, <2>1, <2>2
  <2>4. At(Inside)' = At(Inside) \cup {c} /\ c \notin At(Inside)
    BY <2>3 DEF At, Inside
  <2>5. At({"queued"})' = At({"queued"})
    BY <2>3 DEF At
  <2>6. Cardinality(At(Inside)') = Cardinality(At(Inside)) + 1
    BY <2>4, AtFinite, FS_AddElement
  <2>7. waiters = <<>>
    BY <1>1, <1>0 DEF SemaphoreInv, PermitsKept
  <2> QED
    BY <1>0, <1>1, <2>1, <2>3, <2>5, <2>6, <2>7
       DEF SemaphoreInv, SemaphoreType, PermitsKept, Distinct
<1>2. CASE ~ active < InFlightCap
  <2>1. /\ active' = active /\ waiters' = Append(waiters, c)
        /\ call' = [call EXCEPT ![c] = [r EXCEPT !.at = "queued"]]
    BY <1>2 DEF Enter
  <2>2. [r EXCEPT !.at = "queued"] \in CallRec /\ [r EXCEPT !.at = "queued"].at = "queued"
    BY DEF CallRec, CallFields, Live
  <2>3. call' \in [Calls -> CallRec] /\ call'[c].at = "queued"
        /\ \A d \in Calls \ {c} : call'[d] = call[d]
    BY <1>0, <2>1, <2>2
  <2>4. At({"queued"})' = At({"queued"}) \cup {c} /\ c \notin At({"queued"})
    BY <2>3 DEF At
  <2>5. At(Inside)' = At(Inside)
    BY <2>3 DEF At, Inside
  <2>6. Cardinality(At({"queued"})') = Cardinality(At({"queued"})) + 1
    BY <2>4, AtFinite, FS_AddElement
  <2>7. /\ waiters' \in Seq(Calls) /\ waiters' # <<>> /\ Len(waiters') = Len(waiters) + 1
        /\ DOMAIN waiters' = 1..(Len(waiters) + 1) /\ DOMAIN waiters = 1..Len(waiters)
        /\ \A i \in 1..Len(waiters) : waiters'[i] = waiters[i]
        /\ waiters'[Len(waiters) + 1] = c
    BY <1>0, <2>1
  <2>8. At({"queued"}) = {waiters[i] : i \in DOMAIN waiters}
    BY DEF SemaphoreInv, PermitsKept
  <2>9. At({"queued"})' = {waiters'[i] : i \in DOMAIN waiters'}
    BY <1>0, <2>4, <2>7, <2>8
  <2>10. Distinct'
    BY <1>0, <2>4, <2>7, <2>8 DEF SemaphoreInv, Distinct
  <2>11. active' = InFlightCap
    BY <1>0, <1>2, <2>1 DEF SemaphoreInv, PermitsKept
  <2> QED
    BY <1>0, <2>1, <2>3, <2>5, <2>6, <2>7, <2>9, <2>10, <2>11
       DEF SemaphoreInv, SemaphoreType, PermitsKept
<1> QED
  BY <1>1, <1>2

\* release(): the permit goes to the first waiter, or back.
LEMMA Releasing ==
  ASSUME SemaphoreInv, NEW c \in Calls, NEW end \in {"landed", "failed"}, Released(c, end),
         call[c].at \in Inside
  PROVE  SemaphoreInv'
<1>0. /\ active \in Nat /\ waiters \in Seq(Calls) /\ call \in [Calls -> CallRec]
      /\ InFlightCap \in Nat
  BY LimiterAssumption DEF SemaphoreInv, SemaphoreType
<1>a. [call[c] EXCEPT !.at = end] \in CallRec /\ [call[c] EXCEPT !.at = end].at = end
  BY <1>0 DEF CallRec, CallFields
<1>b. c \in At(Inside) /\ active = Cardinality(At(Inside)) /\ active <= InFlightCap
  BY DEF At, SemaphoreInv, PermitsKept
<1>1. CASE waiters = <<>>
  <2>1. /\ active' = active - 1 /\ waiters' = waiters
        /\ call' = [call EXCEPT ![c] = [call[c] EXCEPT !.at = end]]
    BY <1>1 DEF Released, ActiveAfterRelease
  <2>2. call' \in [Calls -> CallRec] /\ call'[c].at = end
        /\ \A d \in Calls \ {c} : call'[d] = call[d]
    BY <1>0, <1>a, <2>1
  <2>3. At(Inside)' = At(Inside) \ {c}
    BY <2>2 DEF At, Inside
  <2>4. At({"queued"})' = At({"queued"})
    BY <2>2 DEF At, Inside
  <2>5. Cardinality(At(Inside)') = Cardinality(At(Inside)) - 1
    BY <1>b, <2>3, AtFinite, FS_RemoveElement
  <2>6. Cardinality(At(Inside)') \in Nat
    BY <1>b, <2>3, <2>5, AtFinite, FS_RemoveElement, FS_CardinalityType
  <2> QED
    BY <1>0, <1>1, <1>b, <2>1, <2>2, <2>4, <2>5, <2>6
       DEF SemaphoreInv, SemaphoreType, PermitsKept, Distinct
<1>2. CASE waiters # <<>>
  <2> DEFINE h == Head(waiters)
  <2>1. /\ h = waiters[1] /\ h \in Calls /\ Len(waiters) \in Nat \ {0}
        /\ DOMAIN waiters = 1..Len(waiters)
    BY <1>0, <1>2
  <2>2. At({"queued"}) = {waiters[i] : i \in DOMAIN waiters}
    BY DEF SemaphoreInv, PermitsKept
  <2>3. h \in At({"queued"}) /\ h # c /\ call[h].at = "queued"
    <3>1. h \in At({"queued"})
      BY <2>1, <2>2
    <3> QED
      BY <3>1 DEF At, Inside
  <2>4. /\ active' = active /\ waiters' = Tail(waiters)
        /\ call' = [call EXCEPT ![c].at = end, ![h].at = "calling"]
    BY <1>2 DEF Released, ActiveAfterRelease
  <2>5. [call[h] EXCEPT !.at = "calling"] \in CallRec
        /\ [call[h] EXCEPT !.at = "calling"].at = "calling"
    BY <1>0, <2>1 DEF CallRec, CallFields, Live, Inside
  <2>6. call' = [d \in Calls |-> IF d = h THEN [call[h] EXCEPT !.at = "calling"]
                                 ELSE IF d = c THEN [call[c] EXCEPT !.at = end] ELSE call[d]]
    BY <1>0, <2>1, <2>3, <2>4
  <2>7. /\ call' \in [Calls -> CallRec] /\ call'[c].at = end /\ call'[h].at = "calling"
        /\ \A d \in Calls \ {c, h} : call'[d] = call[d]
    BY <1>0, <1>a, <2>1, <2>3, <2>5, <2>6
  <2>8. At(Inside)' = (At(Inside) \ {c}) \cup {h} /\ h \notin At(Inside)
    BY <2>1, <2>3, <2>7 DEF At, Inside
  <2>9. Cardinality(At(Inside)') = Cardinality(At(Inside))
    <3>1. /\ IsFiniteSet(At(Inside) \ {c})
          /\ Cardinality(At(Inside) \ {c}) = Cardinality(At(Inside)) - 1
      BY <1>b, AtFinite, FS_RemoveElement
    <3>2. Cardinality((At(Inside) \ {c}) \cup {h}) = Cardinality(At(Inside)) - 1 + 1
      BY <2>8, <3>1, FS_AddElement
    <3> QED
      BY <2>8, <3>2, AtFinite
  <2>10. At({"queued"})' = At({"queued"}) \ {h}
    BY <2>1, <2>7 DEF At, Inside
  <2>11. Cardinality(At({"queued"})') = Cardinality(At({"queued"})) - 1
    BY <2>3, <2>10, AtFinite, FS_RemoveElement
  <2>12. /\ waiters' \in Seq(Calls) /\ Len(waiters') = Len(waiters) - 1
         /\ DOMAIN waiters' = 1..(Len(waiters) - 1)
         /\ \A i \in 1..(Len(waiters) - 1) : waiters'[i] = waiters[i + 1]
    BY <1>0, <1>2, <2>4
  <2>13. Distinct'
    <3> SUFFICES ASSUME NEW i \in 1..(Len(waiters) - 1), NEW j \in 1..(Len(waiters) - 1),
                        waiters'[i] = waiters'[j]
                 PROVE  i = j
      BY <2>12 DEF Distinct
    <3>1. i + 1 = j + 1
      BY <2>1, <2>12 DEF SemaphoreInv, Distinct
    <3> QED
      BY <3>1
  <2>14. At({"queued"})' = {waiters'[i] : i \in DOMAIN waiters'}
    <3>1. ASSUME NEW d, d \in {waiters'[i] : i \in DOMAIN waiters'} PROVE d \in At({"queued"}) \ {h}
      <4>1. PICK i \in 1..(Len(waiters) - 1) : d = waiters[i + 1]
        BY <2>12, <3>1
      <4>2. i + 1 \in DOMAIN waiters /\ i + 1 # 1
        BY <2>1
      <4> QED
        BY <2>1, <2>2, <4>1, <4>2 DEF SemaphoreInv, Distinct
    <3>2. ASSUME NEW d \in At({"queued"}) \ {h} PROVE d \in {waiters'[i] : i \in DOMAIN waiters'}
      <4>1. PICK i \in DOMAIN waiters : d = waiters[i]
        BY <2>2
      <4>2. i - 1 \in 1..(Len(waiters) - 1) /\ i = (i - 1) + 1
        BY <2>1, <4>1
      <4>3. waiters'[i - 1] = d
        BY <2>12, <4>1, <4>2
      <4> QED
        BY <2>12, <4>2, <4>3
    <3> QED
      BY <2>10, <3>1, <3>2
  <2>15. waiters' # <<>> => active' = InFlightCap
    BY <1>2, <2>4 DEF SemaphoreInv, PermitsKept
  <2>16. Len(waiters) = Cardinality(At({"queued"}))
    BY DEF SemaphoreInv, PermitsKept
  <2> QED
    BY <1>0, <1>b, <2>4, <2>7, <2>9, <2>11, <2>12, <2>13, <2>14, <2>15, <2>16
       DEF SemaphoreInv, SemaphoreType, PermitsKept
<1> QED
  BY <1>1, <1>2

LEMMA DayType == \A t \in Nat : Day(t) \in Nat \ {0} /\ Day(t) <= Day(t + 1)
<1> SUFFICES ASSUME NEW t \in Nat PROVE Day(t) \in Nat \ {0} /\ Day(t) <= Day(t + 1)
  OBVIOUS
<1>1. t \div DayLength \in Nat /\ (t + 1) \div DayLength \in Nat
  BY LimiterAssumption
<1>2. t \div DayLength <= (t + 1) \div DayLength
  BY LimiterAssumption
<1> QED
  BY <1>1, <1>2 DEF Day

\* The clock, the pacing and the budget keep their types.
ClockType ==
    /\ now \in Nat /\ tat \in Nat /\ late \in Nat
    /\ budgetDay \in Nat /\ circuitOpenDay \in Nat /\ budgetCount \in Int

\* The record of a call that is to be admitted now.
LEMMA AdmittedRec ==
  ASSUME ClockType, NEW q \in CallRec
  PROVE  /\ Slot \in Nat
         /\ [q EXCEPT !.wake = Slot, !.day = Day(now)] \in CallRec
         /\ [q EXCEPT !.wake = Slot, !.day = Day(now)].at = q.at
         /\ [q EXCEPT !.wake = Slot, !.day = Day(now)].day = Day(now)
<1>1. Slot \in Nat /\ Day(now) \in Nat
  BY DayType DEF ClockType, Slot
<1> QED
  BY <1>1 DEF CallRec, CallFields

\* Whatever a step does, the limiter's counters and its semaphore stay well formed.
LEMMA PermitsNext ==
  ASSUME ClockType, SemaphoreInv, [LimiterNext]_limiterVars
  PROVE  SemaphoreInv'
<1>0. /\ active \in Nat /\ waiters \in Seq(Calls) /\ call \in [Calls -> CallRec]
      /\ \A c \in Calls : call[c] \in CallRec
  BY DEF SemaphoreInv, SemaphoreType
<1>1. CASE UNCHANGED limiterVars \/ ClockTick
  <2>1. UNCHANGED <<active, waiters, call>>
    BY <1>1 DEF limiterVars, ClockTick
  <2> QED
    BY <2>1 DEF SemaphoreInv, SemaphoreType, PermitsKept, Distinct, At
<1>2. ASSUME NEW c \in Calls, Submit(c) PROVE SemaphoreInv'
  <2>1. call[c].at = "new"
    BY <1>2 DEF Submit
  <2> DEFINE r == [call[c] EXCEPT !.wake = Slot, !.day = Day(now)]
  <2>2. CASE circuitOpenDay = Day(now) \/ RolledOver >= DailyCap
    <3>1. /\ UNCHANGED <<active, waiters>>
          /\ call' = [call EXCEPT ![c] = [call[c] EXCEPT !.at = "refused"]]
      BY <1>2, <2>2 DEF Submit
    <3>2. [call[c] EXCEPT !.at = "refused"] \in CallRec
          /\ [call[c] EXCEPT !.at = "refused"].at = "refused"
      BY <1>0 DEF CallRec, CallFields
    <3> QED
      BY <2>1, <3>1, <3>2, PermitsSame DEF Inside
  <2>3. CASE ~ (circuitOpenDay = Day(now) \/ RolledOver >= DailyCap)
    <3>1. r \in CallRec
      BY <1>0, AdmittedRec
    <3>2. CASE Slot > now
      <4>1. /\ UNCHANGED <<active, waiters>>
            /\ call' = [call EXCEPT ![c] = [r EXCEPT !.at = "paced"]]
        BY <1>2, <2>3, <3>2 DEF Submit
      <4>2. [r EXCEPT !.at = "paced"] \in CallRec /\ [r EXCEPT !.at = "paced"].at = "paced"
        BY <3>1 DEF CallRec, CallFields, Live
      <4> QED
        BY <2>1, <4>1, <4>2, PermitsSame DEF Inside
    <3>3. CASE ~ Slot > now
      <4>1. Enter(c, r)
        BY <1>2, <2>3, <3>3 DEF Submit
      <4> QED
        BY <2>1, <3>1, <4>1, Entering DEF Inside
    <3> QED
      BY <3>2, <3>3
  <2> QED
    BY <2>2, <2>3
<1>3. ASSUME NEW c \in Calls, PaceOver(c) PROVE SemaphoreInv'
  BY <1>0, <1>3, Entering DEF PaceOver, TimerDue, Inside
<1>4. ASSUME NEW c \in Calls, Lands(c) PROVE SemaphoreInv'
  BY <1>4, Releasing DEF Lands, Inside
<1>5. ASSUME NEW c \in Calls, Rejected(c) PROVE SemaphoreInv'
  BY <1>5, Releasing DEF Rejected, GivesUp, Inside
<1>6. ASSUME NEW c \in Calls, RateLimited(c) PROVE SemaphoreInv'
  <2>1. PICK b \in 0..MaxBackoff :
          call' = [call EXCEPT ![c] = [call[c] EXCEPT !.at = "backoff", !.wake = now + b]]
    BY <1>6 DEF RateLimited
  <2>2. now + b \in Nat
    BY LimiterAssumption DEF ClockType
  <2>3. [call[c] EXCEPT !.at = "backoff", !.wake = now + b] \in CallRec
        /\ [call[c] EXCEPT !.at = "backoff", !.wake = now + b].at = "backoff"
    BY <1>0, <1>6, <2>2 DEF CallRec, CallFields, Live, Inside, RateLimited, MayRetry
  <2> QED
    BY <1>6, <2>1, <2>3, PermitsSame DEF RateLimited, Inside
<1>7. ASSUME NEW c \in Calls, BackoffOver(c) PROVE SemaphoreInv'
  <2>1. CASE circuitOpenDay = Day(now)
    BY <1>7, <2>1, Releasing DEF BackoffOver, GivesUp, TimerDue, Inside
  <2>2. CASE circuitOpenDay # Day(now)
    <3>1. /\ UNCHANGED <<active, waiters>> /\ call[c].at = "backoff"
          /\ call' = [call EXCEPT ![c] = [call[c] EXCEPT !.at = "repaced", !.wake = Slot]]
      BY <1>7, <2>2 DEF BackoffOver, TimerDue
    <3>2. [call[c] EXCEPT !.at = "repaced", !.wake = Slot] \in CallRec
          /\ [call[c] EXCEPT !.at = "repaced", !.wake = Slot].at = "repaced"
      BY <1>0, <3>1, AdmittedRec DEF CallRec, CallFields, Live, Inside
    <3> QED
      BY <3>1, <3>2, PermitsSame DEF Inside
  <2> QED
    BY <2>1, <2>2
<1>8. ASSUME NEW c \in Calls, RepaceOver(c) PROVE SemaphoreInv'
  <2>1. /\ UNCHANGED <<active, waiters>> /\ call[c].at = "repaced"
        /\ call' = [call EXCEPT ![c] = [call[c] EXCEPT !.at = "calling",
                                                     !.attempt = call[c].attempt + 1]]
    BY <1>8 DEF RepaceOver, TimerDue
  <2>2. call[c].attempt + 1 \in 0..MaxRetries
    <3>1. call[c].attempt \in 0..MaxRetries /\ call[c].attempt < MaxRetries
      BY <1>0, <2>1 DEF CallRec, CallFields
    <3> QED
      BY <3>1, LimiterAssumption
  <2>3. [call[c] EXCEPT !.at = "calling", !.attempt = call[c].attempt + 1] \in CallRec
        /\ [call[c] EXCEPT !.at = "calling", !.attempt = call[c].attempt + 1].at = "calling"
    BY <1>0, <2>2 DEF CallRec, CallFields, Live, Inside
  <2> QED
    BY <2>1, <2>3, PermitsSame DEF Inside
<1> QED
  BY <1>1, <1>2, <1>3, <1>4, <1>5, <1>6, <1>7, <1>8 DEF LimiterNext

LEMMA ClockNext ==
  ASSUME ClockType, SemaphoreInv, [LimiterNext]_limiterVars
  PROVE  ClockType'
<1>0. /\ now \in Nat /\ tat \in Nat /\ late \in Nat /\ Interval \in Nat
      /\ budgetDay \in Nat /\ circuitOpenDay \in Nat /\ budgetCount \in Int
      /\ Day(now) \in Nat /\ Slot \in Nat /\ RolledOver \in Int
  BY LimiterAssumption, DayType DEF ClockType, Slot, RolledOver
<1>1. CASE UNCHANGED limiterVars \/ ClockTick
  BY <1>0, <1>1 DEF limiterVars, ClockTick, ClockType
<1>2. ASSUME NEW c \in Calls, Submit(c) PROVE ClockType'
  BY <1>0, <1>2 DEF Submit, Reserved, ClockType
<1>3. ASSUME NEW c \in Calls,
             PaceOver(c) \/ Lands(c) \/ RateLimited(c) \/ RepaceOver(c)
      PROVE  ClockType'
  BY <1>0, <1>3 DEF PaceOver, Lands, RateLimited, RepaceOver, ClockType
<1>4. ASSUME NEW c \in Calls, Rejected(c) \/ BackoffOver(c) PROVE ClockType'
  BY <1>0, <1>4 DEF Rejected, BackoffOver, GivesUp, ClockType
<1> QED
  BY <1>1, <1>2, <1>3, <1>4 DEF LimiterNext

\* The inductive invariant of the semaphore.
THEOREM LimiterInductive == LimiterSpec => [](ClockType /\ SemaphoreInv)
<1>1. LimiterInit => ClockType /\ SemaphoreInv
  <2> SUFFICES ASSUME LimiterInit PROVE ClockType /\ SemaphoreInv
    OBVIOUS
  <2>1. ClockType
    BY DEF LimiterInit, ClockType, NoDay
  <2>2. [at |-> "new", wake |-> 0, attempt |-> 0, day |-> NoDay] \in CallRec
    BY LimiterAssumption DEF CallRec, CallFields, NoDay
  <2>3. SemaphoreType /\ waiters = <<>> /\ active = 0
    BY <2>2 DEF LimiterInit, SemaphoreType
  <2>4. At(Inside) = {} /\ At({"queued"}) = {}
    BY DEF LimiterInit, At, Inside
  <2>5. Cardinality({}) = 0 /\ InFlightCap \in Nat
    BY FS_EmptySet, LimiterAssumption
  <2>6. Len(waiters) = 0 /\ DOMAIN waiters = {}
    BY <2>3
  <2> QED
    BY <2>1, <2>3, <2>4, <2>5, <2>6 DEF SemaphoreInv, PermitsKept, Distinct
<1>2. ClockType /\ SemaphoreInv /\ [LimiterNext]_limiterVars => (ClockType /\ SemaphoreInv)'
  BY ClockNext, PermitsNext
<1> QED
  BY <1>1, <1>2, PTL DEF LimiterSpec

\* The state of the limiter has its types.
THEOREM LimiterTypes == LimiterSpec => []LimiterTypeOK
<1>1. ClockType /\ SemaphoreInv => LimiterTypeOK
  <2> SUFFICES ASSUME ClockType, SemaphoreInv PROVE LimiterTypeOK
    OBVIOUS
  <2>1. call \in [Calls -> CallFields]
    BY DEF SemaphoreInv, SemaphoreType, CallRec
  <2> QED
    BY <2>1 DEF SemaphoreInv, SemaphoreType, ClockType, LimiterTypeOK, CallFields
<1> QED
  BY <1>1, LimiterInductive, PTL

\* No permit is lost or doubled, and no waiter passed over, for any number of
\* calls, any caps, retries and delays.
THEOREM LimiterPermits == LimiterSpec => []PermitsKept
<1>1. SemaphoreInv => PermitsKept
  BY DEF SemaphoreInv
<1> QED
  BY <1>1, LimiterInductive, PTL

-----------------------------------------------------------------------------
\* The calls that count against the budget of the current day.
Today == {c \in At(Live \union {"landed"}) : call[c].day = budgetDay}

\* Each of them has its unit, but for late refunds; no call is dated ahead.
BudgetInv ==
    /\ Cardinality(Today) <= budgetCount + late /\ budgetCount <= DailyCap
    /\ budgetDay <= Day(now)
    /\ \A c \in Calls : call[c].day <= budgetDay

LEMMA TodayFinite == IsFiniteSet(Today) /\ Cardinality(Today) \in Nat
<1>1. Today \subseteq Calls
  BY DEF Today, At
<1> QED
  BY <1>1, CallsFinite, FS_Subset, FS_CardinalityType

\* The step moves no date, and no call from outside into the count.
LEMMA BudgetSame ==
  ASSUME ClockType, BudgetInv, UNCHANGED <<now, budgetDay, budgetCount, late>>,
         \A c \in Calls : call'[c].day = call[c].day,
         \A c \in Calls : call'[c].at \in Live \union {"landed"} => call[c].at \in Live \union {"landed"}
  PROVE  BudgetInv'
<1>1. Today' \subseteq Today
  BY DEF Today, At
<1>2. Cardinality(Today') \in Nat /\ Cardinality(Today') <= Cardinality(Today)
  BY <1>1, TodayFinite, FS_Subset, FS_CardinalityType
<1> QED
  BY <1>2, TodayFinite, LimiterAssumption DEF BudgetInv, ClockType

\* What a step of the semaphore shows of the calls: at most c and one waiter move.
LEMMA EnterMoves ==
  ASSUME SemaphoreInv, NEW c \in Calls, NEW r \in CallRec, Enter(c, r)
  PROVE  /\ call'[c].at \in {"calling", "queued"} /\ call'[c].day = r.day
         /\ \A d \in Calls \ {c} : call'[d] = call[d]
<1>1. PICK s \in {"calling", "queued"} : call' = [call EXCEPT ![c] = [r EXCEPT !.at = s]]
  BY DEF Enter
<1>2. [r EXCEPT !.at = s].at = s /\ [r EXCEPT !.at = s].day = r.day
  BY DEF CallRec, CallFields
<1>3. call \in [Calls -> CallRec]
  BY DEF SemaphoreInv, SemaphoreType
<1> QED
  BY <1>1, <1>2, <1>3

LEMMA ReleaseMoves ==
  ASSUME SemaphoreInv, NEW c \in Calls, NEW end, Released(c, end), call[c].at \in Inside
  PROVE  /\ call'[c].at = end
         /\ \A d \in Calls : call'[d].day = call[d].day
         /\ \A d \in Calls \ {c} : call'[d].at = call[d].at
                                     \/ (call[d].at \in Live /\ call'[d].at \in Live)
<1>0. waiters \in Seq(Calls) /\ call \in [Calls -> CallRec] /\ call[c] \in CallRec
  BY DEF SemaphoreInv, SemaphoreType
<1>1. CASE waiters = <<>>
  <2>1. call' = [call EXCEPT ![c] = [call[c] EXCEPT !.at = end]]
    BY <1>1 DEF Released
  <2>2. [call[c] EXCEPT !.at = end].at = end /\ [call[c] EXCEPT !.at = end].day = call[c].day
    BY <1>0 DEF CallRec, CallFields
  <2> QED
    BY <1>0, <2>1, <2>2
<1>2. CASE waiters # <<>>
  <2> DEFINE h == Head(waiters)
  <2>1. h = waiters[1] /\ h \in Calls /\ 1 \in DOMAIN waiters
    BY <1>0, <1>2
  <2>2. h \in At({"queued"})
    BY <2>1 DEF SemaphoreInv, PermitsKept
  <2>3. call[h].at = "queued" /\ h # c
    BY <2>2 DEF At, Inside
  <2>4. call' = [call EXCEPT ![c].at = end, ![h].at = "calling"]
    BY <1>2 DEF Released
  <2>5. call' = [d \in Calls |-> IF d = h THEN [call[h] EXCEPT !.at = "calling"]
                                 ELSE IF d = c THEN [call[c] EXCEPT !.at = end] ELSE call[d]]
    BY <1>0, <2>1, <2>3, <2>4
  <2>6. /\ [call[c] EXCEPT !.at = end].at = end /\ [call[c] EXCEPT !.at = end].day = call[c].day
        /\ [call[h] EXCEPT !.at = "calling"].at = "calling"
        /\ [call[h] EXCEPT !.at = "calling"].day = call[h].day
    BY <1>0, <2>1 DEF CallRec, CallFields
  <2> QED
    BY <2>3, <2>5, <2>6 DEF Live, Inside
<1> QED
  BY <1>1, <1>2

\* A refund: the unit of a call of today, or one more late refund.
LEMMA BudgetRefunds ==
  ASSUME ClockType, SemaphoreInv, BudgetInv, NEW c \in Calls, GivesUp(c), call[c].at \in Inside
  PROVE  BudgetInv'
<1>0. /\ late \in Nat /\ budgetCount \in Int /\ DailyCap \in Nat
      /\ Cardinality(Today) <= budgetCount + late /\ budgetCount <= DailyCap
  BY LimiterAssumption DEF ClockType, BudgetInv
<1>1. /\ budgetCount' = budgetCount - 1 /\ now' = now /\ budgetDay' = budgetDay
      /\ late' = IF call[c].day = budgetDay THEN late ELSE late + 1
      /\ Released(c, "failed")
  BY DEF GivesUp
<1>2. /\ call'[c].at = "failed"
      /\ \A d \in Calls : call'[d].day = call[d].day
      /\ \A d \in Calls \ {c} : call'[d].at \in Live \union {"landed"}
                                  => call[d].at \in Live \union {"landed"}
  BY <1>1, ReleaseMoves DEF Live
<1>3. Today' \subseteq Today \ {c}
  BY <1>1, <1>2 DEF Today, At, Live, Inside
<1>4. /\ IsFiniteSet(Today \ {c})
      /\ Cardinality(Today \ {c}) = IF c \in Today THEN Cardinality(Today) - 1
                                    ELSE Cardinality(Today)
  BY TodayFinite, FS_RemoveElement
<1>5. Cardinality(Today') \in Nat /\ Cardinality(Today') <= Cardinality(Today \ {c})
  BY <1>3, <1>4, FS_Subset, FS_CardinalityType
<1>6. c \in Today <=> call[c].day = budgetDay
  BY DEF Today, At, Live
<1>7. Cardinality(Today') <= budgetCount' + late'
  BY <1>0, <1>1, <1>4, <1>5, <1>6, TodayFinite
<1>8. budgetCount' <= DailyCap
  BY <1>0, <1>1
<1> QED
  BY <1>1, <1>2, <1>7, <1>8 DEF BudgetInv

\* An admission: its unit is taken from today, whose count starts over with the day.
LEMMA BudgetTaken ==
  ASSUME ClockType, SemaphoreInv, BudgetInv, NEW c \in Calls, Submit(c)
  PROVE  BudgetInv'
<1>0. /\ late \in Nat /\ budgetCount \in Int /\ DailyCap \in Nat \ {0} /\ budgetDay \in Nat
      /\ Day(now) \in Nat /\ budgetDay <= Day(now)
      /\ Cardinality(Today) <= budgetCount + late /\ budgetCount <= DailyCap
      /\ \A d \in Calls : call[d].day \in Nat /\ call[d].day <= budgetDay
      /\ call \in [Calls -> CallRec]
  BY LimiterAssumption, DayType
     DEF ClockType, BudgetInv, SemaphoreInv, SemaphoreType, CallRec, CallFields
<1>1. /\ call[c].at = "new" /\ now' = now /\ budgetDay' = Day(now)
      /\ late' = IF budgetDay = Day(now) THEN late ELSE 0
  BY DEF Submit
<1> DEFINE refused == circuitOpenDay = Day(now) \/ RolledOver >= DailyCap
<1>2. budgetCount' = IF refused THEN RolledOver ELSE RolledOver + 1
  BY DEF Submit, Reserved
<1>3. /\ call'[c].day = IF refused THEN call[c].day ELSE Day(now)
      /\ refused => call'[c].at = "refused"
      /\ \A d \in Calls \ {c} : call'[d] = call[d]
  <2>1. CASE refused
    <3>1. call' = [call EXCEPT ![c] = [call[c] EXCEPT !.at = "refused"]]
      BY <2>1 DEF Submit
    <3>2. [call[c] EXCEPT !.at = "refused"].at = "refused"
          /\ [call[c] EXCEPT !.at = "refused"].day = call[c].day
      BY <1>0 DEF CallRec, CallFields
    <3> QED
      BY <1>0, <2>1, <3>1, <3>2
  <2>2. CASE ~ refused
    <3> DEFINE r == [call[c] EXCEPT !.wake = Slot, !.day = Day(now)]
    <3>1. r \in CallRec /\ r.day = Day(now)
      BY <1>0, AdmittedRec
    <3>2. CASE Slot > now
      <4>1. call' = [call EXCEPT ![c] = [r EXCEPT !.at = "paced"]]
        BY <2>2, <3>2 DEF Submit
      <4>2. [r EXCEPT !.at = "paced"].day = r.day
        BY <3>1 DEF CallRec, CallFields
      <4> QED
        BY <1>0, <2>2, <3>1, <4>1, <4>2
    <3>3. CASE ~ Slot > now
      <4>1. Enter(c, r)
        BY <2>2, <3>3 DEF Submit
      <4> QED
        BY <2>2, <3>1, <4>1, EnterMoves
    <3> QED
      BY <3>2, <3>3
  <2> QED
    BY <2>1, <2>2
<1>4. CASE budgetDay = Day(now)
  <2>1. RolledOver = budgetCount /\ late' = late /\ budgetDay' = budgetDay
    BY <1>1, <1>4 DEF RolledOver
  <2>2. CASE refused
    <3>1. Today' \subseteq Today
      BY <1>3, <2>1, <2>2 DEF Today, At, Live, Inside
    <3>2. Cardinality(Today') \in Nat /\ Cardinality(Today') <= Cardinality(Today)
      BY <3>1, TodayFinite, FS_Subset, FS_CardinalityType
    <3>3. \A d \in Calls : call'[d].day <= budgetDay'
      BY <1>0, <1>3, <2>1, <2>2
    <3> QED
      BY <1>0, <1>1, <1>2, <1>4, <2>1, <2>2, <3>2, <3>3, TodayFinite DEF BudgetInv
  <2>3. CASE ~ refused
    <3>1. Today' \subseteq Today \cup {c}
      BY <1>3, <2>1 DEF Today, At
    <3>2. /\ IsFiniteSet(Today \cup {c})
          /\ Cardinality(Today \cup {c}) \in {Cardinality(Today), Cardinality(Today) + 1}
      BY TodayFinite, FS_AddElement
    <3>3. Cardinality(Today') \in Nat /\ Cardinality(Today') <= Cardinality(Today \cup {c})
      BY <3>1, <3>2, FS_Subset, FS_CardinalityType
    <3>4. \A d \in Calls : call'[d].day <= budgetDay'
      BY <1>0, <1>3, <1>4, <2>1, <2>3
    <3>5. budgetCount + 1 <= DailyCap
      BY <1>0, <2>1, <2>3
    <3> QED
      BY <1>0, <1>1, <1>2, <1>4, <2>1, <2>3, <3>2, <3>3, <3>4, <3>5, TodayFinite DEF BudgetInv
  <2> QED
    BY <2>2, <2>3
\* Every call admitted before is of an earlier day.
<1>5. CASE budgetDay # Day(now)
  <2>1. RolledOver = 0 /\ late' = 0 /\ budgetDay < Day(now)
    BY <1>0, <1>1, <1>5 DEF RolledOver
  <2>2. \A d \in Calls \ {c} : d \notin Today'
    BY <1>0, <1>1, <1>3, <2>1 DEF Today, At
  <2>3. refused => c \notin Today'
    BY <1>3 DEF Today, At, Live, Inside
  <2>4. Today' \subseteq Calls
    BY DEF Today, At
  <2>5. Cardinality(Today') \in Nat /\ Cardinality(Today') <= IF refused THEN 0 ELSE 1
    <3>1. CASE refused
      <4>1. Today' = {}
        BY <2>2, <2>3, <2>4, <3>1
      <4> QED
        BY <3>1, <4>1, FS_EmptySet
    <3>2. CASE ~ refused
      <4>1. Today' \in SUBSET {c}
        BY <2>2, <2>4
      <4>2. IsFiniteSet({c}) /\ Cardinality({c}) = 1
        BY FS_Singleton
      <4> QED
        BY <3>2, <4>1, <4>2, FS_Subset, FS_CardinalityType
    <3> QED
      BY <3>1, <3>2
  <2>6. Cardinality(Today') <= budgetCount' + late'
    BY <1>2, <2>1, <2>5
  <2>7. budgetCount' <= DailyCap
    BY <1>0, <1>2, <2>1
  <2>8. \A d \in Calls : call'[d].day <= budgetDay'
    BY <1>0, <1>1, <1>3, <2>1
  <2> QED
    BY <1>0, <1>1, <2>6, <2>7, <2>8 DEF BudgetInv
<1> QED
  BY <1>4, <1>5

LEMMA BudgetNext ==
  ASSUME ClockType, SemaphoreInv, BudgetInv, [LimiterNext]_limiterVars
  PROVE  BudgetInv'
<1>0. call \in [Calls -> CallRec] /\ \A c \in Calls : call[c] \in CallRec
  BY DEF SemaphoreInv, SemaphoreType
<1>1. CASE UNCHANGED limiterVars
  BY <1>1, BudgetSame DEF limiterVars
<1>2. CASE ClockTick
  <2>1. /\ now' = now + 1 /\ UNCHANGED <<budgetDay, budgetCount, late, call>>
        /\ budgetDay \in Nat /\ Day(now) \in Nat /\ Day(now + 1) \in Nat /\ Day(now) <= Day(now + 1)
    BY <1>2, DayType DEF ClockTick, ClockType
  <2>2. budgetDay' <= Day(now')
    BY <2>1 DEF BudgetInv
  <2>3. Today' = Today
    BY <2>1 DEF Today, At
  <2> QED
    BY <2>1, <2>2, <2>3 DEF BudgetInv
<1>3. ASSUME NEW c \in Calls, Submit(c) PROVE BudgetInv'
  BY <1>3, BudgetTaken
<1>4. ASSUME NEW c \in Calls, PaceOver(c) PROVE BudgetInv'
  <2>1. Enter(c, call[c]) /\ call[c].at = "paced" /\ UNCHANGED <<now, budgetDay, budgetCount, late>>
    BY <1>4 DEF PaceOver, TimerDue
  <2> QED
    BY <1>0, <2>1, EnterMoves, BudgetSame DEF Live
<1>5. ASSUME NEW c \in Calls, Lands(c) PROVE BudgetInv'
  <2>1. /\ Released(c, "landed") /\ call[c].at = "calling"
        /\ UNCHANGED <<now, budgetDay, budgetCount, late>>
    BY <1>5 DEF Lands
  <2>2. /\ \A d \in Calls : call'[d].day = call[d].day
        /\ \A d \in Calls \ {c} : call'[d].at = call[d].at \/ call[d].at \in Live
    BY <2>1, ReleaseMoves DEF Inside
  <2> QED
    BY <2>1, <2>2, BudgetSame DEF Live, Inside
<1>6. ASSUME NEW c \in Calls, Rejected(c) PROVE BudgetInv'
  BY <1>6, BudgetRefunds DEF Rejected, Inside
<1>7. ASSUME NEW c \in Calls, RateLimited(c) \/ RepaceOver(c)
                                \/ (BackoffOver(c) /\ circuitOpenDay # Day(now))
      PROVE  BudgetInv'
  <2>1. UNCHANGED <<now, budgetDay, budgetCount, late>> /\ call[c].at \in Live
    BY <1>7 DEF RateLimited, RepaceOver, BackoffOver, TimerDue, Live, Inside
  <2>2. \E q : call' = [call EXCEPT ![c] = q] /\ q.day = call[c].day
    <3>1. CASE RateLimited(c)
      <4>1. PICK b \in 0..MaxBackoff :
              call' = [call EXCEPT ![c] = [call[c] EXCEPT !.at = "backoff", !.wake = now + b]]
        BY <3>1 DEF RateLimited
      <4>2. [call[c] EXCEPT !.at = "backoff", !.wake = now + b].day = call[c].day
        BY <1>0 DEF CallRec, CallFields
      <4> QED
        BY <4>1, <4>2
    <3>2. CASE RepaceOver(c)
      <4>1. call' = [call EXCEPT ![c] = [call[c] EXCEPT !.at = "calling",
                                                       !.attempt = call[c].attempt + 1]]
        BY <3>2 DEF RepaceOver
      <4>2. [call[c] EXCEPT !.at = "calling", !.attempt = call[c].attempt + 1].day = call[c].day
        BY <1>0 DEF CallRec, CallFields
      <4> QED
        BY <4>1, <4>2
    <3>3. CASE BackoffOver(c) /\ circuitOpenDay # Day(now)
      <4>1. call' = [call EXCEPT ![c] = [call[c] EXCEPT !.at = "repaced", !.wake = Slot]]
        BY <3>3 DEF BackoffOver
      <4>2. [call[c] EXCEPT !.at = "repaced", !.wake = Slot].day = call[c].day
        BY <1>0 DEF CallRec, CallFields
      <4> QED
        BY <4>1, <4>2
    <3> QED
      BY <1>7, <3>1, <3>2, <3>3
  <2>3. /\ \A d \in Calls : call'[d].day = call[d].day
        /\ \A d \in Calls \ {c} : call'[d] = call[d]
    BY <1>0, <2>2
  <2> QED
    BY <2>1, <2>3, BudgetSame
<1>8. ASSUME NEW c \in Calls, BackoffOver(c), circuitOpenDay = Day(now) PROVE BudgetInv'
  BY <1>8, BudgetRefunds DEF BackoffOver, TimerDue, Inside
<1> QED
  BY <1>1, <1>2, <1>3, <1>4, <1>5, <1>6, <1>7, <1>8 DEF LimiterNext

\* The daily budget holds but for late refunds, for any caps, retries and delays.
THEOREM LimiterBudget == LimiterSpec => []BudgetKept
<1>1. LimiterInit => BudgetInv
  <2> SUFFICES ASSUME LimiterInit PROVE BudgetInv
    OBVIOUS
  <2>1. Today = {}
    BY DEF LimiterInit, Today, At, Live, Inside
  <2>2. Day(0) \in Nat
    BY DayType
  <2> QED
    BY <2>1, <2>2, FS_EmptySet, LimiterAssumption DEF LimiterInit, BudgetInv, NoDay
<1>2. ClockType /\ SemaphoreInv /\ BudgetInv /\ [LimiterNext]_limiterVars => BudgetInv'
  BY BudgetNext
<1>3. ClockType /\ BudgetInv => BudgetKept
  <2> SUFFICES ASSUME ClockType, BudgetInv PROVE BudgetKept
    OBVIOUS
  <2> QED
    BY TodayFinite, LimiterAssumption DEF BudgetInv, BudgetKept, Today, ClockType
<1> QED
  BY <1>1, <1>2, <1>3, LimiterInductive, PTL DEF LimiterSpec
=============================================================================
