------------------------------ MODULE JobLease ------------------------------
(***************************************************************************)
(* The background scheduler: the standing jobs (inbox poll, morning scan,  *)
(* daily digest) of every server process that shares the product database, *)
(* the cross-process lease a process takes before it runs a job, the       *)
(* last-success watermark that makes a missed fire catch up, and the       *)
(* power-save blocker the Electron main process lends a running job.       *)
(*                                                                         *)
(* Time is kept relative.  A watermark is compared with fire times only,   *)
(* so it is the number of fires at or before it; a lease is the number of  *)
(* ticks it has left.  A step is one SQL statement of one process, with    *)
(* the synchronous code that follows it: two processes interleave there.   *)
(* The clock does not go back and reads do not fail.                       *)
(*                                                                         *)
(* Definitions named ...Bug are seeded faults: no action uses them.        *)
(***************************************************************************)
EXTENDS Naturals

CONSTANTS
  Procs,       \* server processes: instanceId is fresh at every start
  Jobs,        \* SCHEDULED_JOBS
  Lease,       \* claimLeaseMs, in ticks
  Free, Gone,  \* no claim row; the row of a process that has died
  MaxFires,    \* bound: fires of one job
  MaxThrows,   \* bound: handler failures
  MaxCrashes   \* bound: process deaths

ASSUME LeaseAssumption ==
  /\ Lease \in Nat \ {0}
  /\ Free \notin Procs /\ Gone \notin Procs /\ Free # Gone
  /\ MaxFires \in Nat /\ MaxThrows \in Nat /\ MaxCrashes \in Nat

VARIABLES
  fired,     \* fires of each job at or before now
  covered,   \* fires at or before scheduler.last_success.<job>
  row,       \* owner in scheduler.claim.<job>
  left,      \* ticks before that row expires
  up,        \* the live processes
  stage,     \* where runJob(job) is in each process; "idle": not in inflight
  mine,      \* ticks before the claim this run holds expires
  blocker,   \* main.ts: blockerId # null, per process
  done,      \* history: handlers that succeeded within their lease
  throws, crashes

vars == <<fired, covered, row, left, up, stage, mine, blocker, done, throws,
          crashes>>

TypeOK ==
  /\ fired \in [Jobs -> 0..MaxFires]
  /\ covered \in [Jobs -> 0..MaxFires]
  /\ row \in [Jobs -> Procs \cup {Free, Gone}]
  /\ left \in [Jobs -> 0..Lease]
  /\ up \in SUBSET Procs
  /\ stage \in [Procs -> [Jobs -> {"idle", "claimed", "running", "ended", "skipped"}]]
  /\ mine \in [Procs -> [Jobs -> 0..Lease]]
  /\ blocker \in [Procs -> BOOLEAN]
  /\ done \in [Jobs -> Nat]
  /\ throws \in 0..MaxThrows
  /\ crashes \in 0..MaxCrashes

\* A fresh install has no watermark, and a job's first fire is due.
Init ==
  /\ fired = [j \in Jobs |-> 0] /\ covered = [j \in Jobs |-> 0]
  /\ row = [j \in Jobs |-> Free] /\ left = [j \in Jobs |-> 0]
  /\ up = Procs
  /\ stage = [p \in Procs |-> [j \in Jobs |-> "idle"]]
  /\ mine = [p \in Procs |-> [j \in Jobs |-> 0]]
  /\ blocker = [p \in Procs |-> FALSE]
  /\ done = [j \in Jobs |-> 0]
  /\ throws = 0 /\ crashes = 0

\* catchUpDecision: strictly later than the watermark.
Due(j) == fired[j] > covered[j]

----------------------------------------------------------------------------
\* TRY_CLAIM: insert, or replace a row whose expiry is at or before now.
ClaimableBug(j) == row[j] = Free
Claimable(j) == row[j] = Free \/ left[j] = 0

\* runJob up to the claim, entered from croner or from a catch-up pass; a
\* refused claim and a job already in flight leave everything as it was.
TryClaim(p, j) ==
  /\ p \in up
  /\ stage[p][j] = "idle"
  /\ Claimable(j)
  /\ row' = [row EXCEPT ![j] = p]
  /\ left' = [left EXCEPT ![j] = Lease]
  /\ stage' = [stage EXCEPT ![p][j] = "claimed"]
  /\ mine' = [mine EXCEPT ![p][j] = Lease]
  /\ UNCHANGED <<fired, covered, up, blocker, done, throws, crashes>>

\* A catch-up pass (boot, power resume, heartbeat) asks for a due job only.
CatchUp(p, j) == Due(j) /\ TryClaim(p, j)

\* A croner timer does not look at the watermark, and may come late.
CronFire(p, j) == fired[j] > 0 /\ TryClaim(p, j)

\* The decision is taken again once the claim is won.
StillDueBug(j) == TRUE
StillDue(j) == Due(j)

Recheck(p, j) ==
  /\ stage[p][j] = "claimed"
  /\ IF StillDue(j)
     THEN /\ stage' = [stage EXCEPT ![p][j] = "running"]
          /\ blocker' = [blocker EXCEPT ![p] = TRUE]
     ELSE /\ stage' = [stage EXCEPT ![p][j] = "skipped"]
          /\ UNCHANGED blocker
  /\ UNCHANGED <<fired, covered, row, left, up, mine, done, throws, crashes>>

\* writeLastSuccess(now) covers every fire so far, also one during the run.
CoveredNowBug(j) == fired[j] + 1
CoveredNow(j) == fired[j]

Succeed(p, j) ==
  /\ stage[p][j] = "running"
  /\ covered' = [covered EXCEPT ![j] = CoveredNow(j)]
  /\ done' = [done EXCEPT ![j] = IF mine[p][j] > 0 THEN @ + 1 ELSE @]
  /\ stage' = [stage EXCEPT ![p][j] = "ended"]
  /\ UNCHANGED <<fired, row, left, up, mine, blocker, throws, crashes>>

\* The handler or the watermark write throws: the fire stays due.
Throw(p, j) ==
  /\ stage[p][j] = "running"
  /\ throws < MaxThrows
  /\ throws' = throws + 1
  /\ stage' = [stage EXCEPT ![p][j] = "ended"]
  /\ UNCHANGED <<fired, covered, row, left, up, mine, blocker, done, crashes>>

\* RELEASE_CLAIM deletes by exact value, so only this run's own row.
UnclaimedBug(p, j) == [row EXCEPT ![j] = Free]
Unclaimed(p, j) == IF row[j] = p THEN [row EXCEPT ![j] = Free] ELSE row

\* The finally block; the DELETE may throw, and the row then waits its lease.
\* The blocker goes with a run that acquired it, whoever else holds it.
Finish(p, j) ==
  /\ stage[p][j] \in {"ended", "skipped"}
  /\ blocker' = IF stage[p][j] = "ended" THEN [blocker EXCEPT ![p] = FALSE]
                ELSE blocker
  /\ row' \in {Unclaimed(p, j), row}
  /\ stage' = [stage EXCEPT ![p][j] = "idle"]
  /\ mine' = [mine EXCEPT ![p][j] = 0]
  /\ UNCHANGED <<fired, covered, left, up, done, throws, crashes>>

----------------------------------------------------------------------------
\* A cron pattern fires; nobody has to be awake for it.
Fire(j) ==
  /\ fired[j] < MaxFires
  /\ fired' = [fired EXCEPT ![j] = @ + 1]
  /\ UNCHANGED <<covered, row, left, up, stage, mine, blocker, done, throws,
                 crashes>>

Less(n) == IF n = 0 THEN 0 ELSE n - 1

\* The wall clock, which also runs while the machine sleeps.
Tick ==
  /\ \E j \in Jobs : left[j] > 0
  /\ left' = [j \in Jobs |-> Less(left[j])]
  /\ mine' = [p \in Procs |-> [j \in Jobs |-> Less(mine[p][j])]]
  /\ UNCHANGED <<fired, covered, row, up, stage, blocker, done, throws, crashes>>

\* A server process dies; its Electron parent gives the blocker back.
AfterExitBug(p) == blocker
AfterExit(p) == [blocker EXCEPT ![p] = FALSE]

Crash(p) ==
  /\ p \in up
  /\ crashes < MaxCrashes
  /\ crashes' = crashes + 1
  /\ up' = up \ {p}
  /\ row' = [j \in Jobs |-> IF row[j] = p THEN Gone ELSE row[j]]
  /\ stage' = [stage EXCEPT ![p] = [j \in Jobs |-> "idle"]]
  /\ mine' = [mine EXCEPT ![p] = [j \in Jobs |-> 0]]
  /\ blocker' = AfterExit(p)
  /\ UNCHANGED <<fired, covered, left, done, throws>>

Boot(p) ==
  /\ p \notin up
  /\ up' = up \cup {p}
  /\ UNCHANGED <<fired, covered, row, left, stage, mine, blocker, done, throws,
                 crashes>>

RunJob(p, j) ==
  CatchUp(p, j) \/ CronFire(p, j) \/ Recheck(p, j) \/ Succeed(p, j)
    \/ Throw(p, j) \/ Finish(p, j)

Next ==
  \/ \E p \in Procs, j \in Jobs : RunJob(p, j)
  \/ \E j \in Jobs : Fire(j)
  \/ Tick
  \/ \E p \in Procs : Crash(p) \/ Boot(p)

Spec == Init /\ [][Next]_vars

\* The heartbeat asks again every minute, a handler that was started returns,
\* the clock runs, and a dead server is relaunched.
FairSpec ==
  /\ Spec
  /\ \A p \in Procs, j \in Jobs :
       /\ WF_vars(CatchUp(p, j)) /\ WF_vars(Recheck(p, j))
       /\ WF_vars(Succeed(p, j) \/ Throw(p, j)) /\ WF_vars(Finish(p, j))
  /\ \A p \in Procs : WF_vars(Boot(p))
  /\ WF_vars(Tick)

----------------------------------------------------------------------------
WithinLease(p, j) ==
  stage[p][j] \in {"claimed", "running", "ended"} /\ mine[p][j] > 0

\* Two processes are inside one job together only if one of them has outlived
\* its lease: also after takeovers, releases of a lost claim, and restarts.
OneInLease ==
  \A j \in Jobs : \A p, q \in Procs :
    WithinLease(p, j) /\ WithinLease(q, j) => p = q

\* A claim that has not run out is the row that is stored.
ClaimIsStored ==
  \A p \in Procs, j \in Jobs :
    /\ stage[p][j] = "idle" => mine[p][j] = 0
    /\ mine[p][j] > 0 => row[j] = p /\ left[j] = mine[p][j]

\* A fire is not run twice: handlers that succeed within their lease are never
\* more than the fires their watermark covers, whichever of the croner fire,
\* the catch-up passes and the other processes came first.
NoDoubleRun == \A j \in Jobs : done[j] <= covered[j]

\* A handler inside its lease still has a fire to answer for.
RunsAreDue ==
  /\ \A j \in Jobs : covered[j] <= fired[j]
  /\ \A p \in Procs, j \in Jobs :
       stage[p][j] = "running" /\ mine[p][j] > 0 => done[j] < fired[j]

\* Why the two hold: inductive, and checked with them.
LeaseInv == TypeOK /\ ClaimIsStored /\ NoDoubleRun /\ RunsAreDue

\* The computer is not kept awake by a job that has ended, thrown or died.
BlockerNotLeaked ==
  \A p \in Procs : blocker[p] => \E j \in Jobs : stage[p][j] \in {"running", "ended"}

\* A missed fire catches up: through sleep, lost claims, crashes that leave a
\* claim behind, handlers that throw and releases that fail.
FiresCatchUp ==
  \A j \in Jobs : \A n \in 1..MaxFires : (fired[j] >= n) ~> (covered[j] >= n)
=============================================================================
