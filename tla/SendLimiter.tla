---------------------------- MODULE SendLimiter ----------------------------
(***************************************************************************)
(* The limiter below every approved Gmail send of the process: a daily     *)
(* budget, pacing by one theoretical arrival time, a FIFO semaphore on the *)
(* sends in flight, retries of a 429 with backoff, and a circuit that a    *)
(* 403 opens for the rest of the day. A step is the code between two       *)
(* awaits; a timer fires when it is due or later. The burst is 1, as the   *)
(* process-wide limiter has it, and time is in ticks.                      *)
(***************************************************************************)
EXTENDS Integers, Sequences, FiniteSets

CONSTANTS
    CallCount,      \* bound: runGmailSend calls, numbered as they come
    InFlightCap, DailyCap, MaxRetries,
    Interval,       \* emissionIntervalMs
    MaxBackoff,     \* the longest full-jitter backoff
    DayLength,      \* ticks of a Pacific day
    LastSubmit,     \* bound: calls come up to this tick
    MaxTime         \* bound: past this tick the clock runs only while a timer pends

ASSUME LimiterAssumption ==
    /\ {InFlightCap, DailyCap, Interval, DayLength} \subseteq Nat \ {0}
    /\ {CallCount, MaxRetries, MaxBackoff, LastSubmit, MaxTime} \subseteq Nat

VARIABLES
    now,
    tat,            \* RateGate: the theoretical arrival time
    budgetDay, budgetCount,
    circuitOpenDay,
    active, waiters,    \* AsyncSemaphore
    call,           \* each call: its stage, timer, attempt and day
    late            \* history: refunds to budgetDay for calls of an earlier day

limiterVars == <<now, tat, budgetDay, budgetCount, circuitOpenDay, active, waiters, call, late>>

Calls  == 1..CallCount
NoDay  == 0
Day(t) == 1 + t \div DayLength

Timed  == {"paced", "backoff", "repaced"}
Inside == {"calling", "backoff", "repaced"}         \* holds a permit
Live   == Inside \union {"paced", "queued"}

LimiterInit ==
    /\ now = 0 /\ tat = 0
    /\ budgetDay = NoDay /\ budgetCount = 0 /\ circuitOpenDay = NoDay
    /\ active = 0 /\ waiters = <<>>
    /\ call = [c \in Calls |-> [at |-> "new", wake |-> 0, attempt |-> 0, day |-> NoDay]]
    /\ late = 0

-----------------------------------------------------------------------------
(* RateGate.reserve with a burst of 1: the instant at which to emit.       *)
Slot == IF tat > now THEN tat ELSE now

(* AsyncSemaphore: a freed permit is handed to the first waiter.           *)
Enter(c, r) ==
    IF active < InFlightCap
    THEN /\ active' = active + 1
         /\ call' = [call EXCEPT ![c] = [r EXCEPT !.at = "calling"]]
         /\ UNCHANGED waiters
    ELSE /\ waiters' = Append(waiters, c)
         /\ call' = [call EXCEPT ![c] = [r EXCEPT !.at = "queued"]]
         /\ UNCHANGED active

ActiveAfterReleaseBug == active - 1

ActiveAfterRelease == IF waiters = <<>> THEN active - 1 ELSE active

ReleasedBug(c, end) ==
    /\ active' = active - 1
    /\ call' = [call EXCEPT ![c].at = end]
    /\ UNCHANGED waiters

Released(c, end) ==
    /\ active' = ActiveAfterRelease
    /\ IF waiters = <<>>
       THEN /\ call' = [call EXCEPT ![c].at = end]
            /\ UNCHANGED waiters
       ELSE /\ call' = [call EXCEPT ![c].at = end, ![Head(waiters)].at = "calling"]
            /\ waiters' = Tail(waiters)

(* A new day starts a new count.                                           *)
RolledOver == IF budgetDay = Day(now) THEN budgetCount ELSE 0

ReservedBug(count) == count

Reserved(count) == count + 1

(* Refused, or admitted with its budget and its slot reserved at once.     *)
Submit(c) ==
    /\ call[c].at = "new" /\ now <= LastSubmit
    /\ \A d \in 1..(c - 1) : call[d].at # "new"
    /\ budgetDay' = Day(now)
    /\ late' = IF budgetDay = Day(now) THEN late ELSE 0
    /\ IF circuitOpenDay = Day(now) \/ RolledOver >= DailyCap
       THEN /\ budgetCount' = RolledOver
            /\ call' = [call EXCEPT ![c].at = "refused"]
            /\ UNCHANGED <<tat, active, waiters>>
       ELSE LET r == [call[c] EXCEPT !.wake = Slot, !.day = Day(now)]
            IN  /\ budgetCount' = Reserved(RolledOver)
                /\ tat' = Slot + Interval
                /\ IF Slot > now
                   THEN /\ call' = [call EXCEPT ![c] = [r EXCEPT !.at = "paced"]]
                        /\ UNCHANGED <<active, waiters>>
                   ELSE Enter(c, r)
    /\ UNCHANGED <<now, circuitOpenDay>>

TimerDue(c, stage) == call[c].at = stage /\ call[c].wake <= now

PaceOver(c) ==
    /\ TimerDue(c, "paced")
    /\ Enter(c, call[c])
    /\ UNCHANGED <<now, tat, budgetDay, budgetCount, circuitOpenDay, late>>

(* The answers of Gmail.                                                   *)

Lands(c) ==
    /\ call[c].at = "calling"
    /\ Released(c, "landed")
    /\ UNCHANGED <<now, tat, budgetDay, budgetCount, circuitOpenDay, late>>

(* A send that never landed gives its budget back, to whatever day it is.  *)
GivesUp(c) ==
    /\ Released(c, "failed")
    /\ budgetCount' = budgetCount - 1
    /\ late' = IF call[c].day = budgetDay THEN late ELSE late + 1
    /\ UNCHANGED <<now, budgetDay>>

Rejected(c) ==
    /\ call[c].at = "calling"
    /\ GivesUp(c)
    /\ circuitOpenDay' \in {circuitOpenDay, Day(now)}       \* other, dailyLimitExceeded
    /\ UNCHANGED tat

MayRetry(c) == call[c].attempt < MaxRetries

RateLimited(c) ==
    /\ call[c].at = "calling" /\ MayRetry(c)
    /\ \E b \in 0..MaxBackoff :
           call' = [call EXCEPT ![c] = [@ EXCEPT !.at = "backoff", !.wake = now + b]]
    /\ UNCHANGED <<now, tat, budgetDay, budgetCount, circuitOpenDay, active, waiters, late>>

(* A retry is metered again; the circuit is looked at before its pause.    *)
BackoffOver(c) ==
    /\ TimerDue(c, "backoff")
    /\ IF circuitOpenDay = Day(now)
       THEN GivesUp(c) /\ UNCHANGED tat
       ELSE /\ tat' = Slot + Interval
            /\ call' = [call EXCEPT ![c] = [@ EXCEPT !.at = "repaced", !.wake = Slot]]
            /\ UNCHANGED <<now, budgetDay, budgetCount, active, waiters, late>>
    /\ UNCHANGED circuitOpenDay

RepaceOver(c) ==
    /\ TimerDue(c, "repaced")
    /\ call' = [call EXCEPT ![c] = [@ EXCEPT !.at = "calling",
                                            !.attempt = call[c].attempt + 1]]
    /\ UNCHANGED <<now, tat, budgetDay, budgetCount, circuitOpenDay, active, waiters, late>>

ClockTick ==
    /\ now < MaxTime \/ \E c \in Calls : call[c].at \in Timed /\ call[c].wake > now
    /\ now' = now + 1
    /\ UNCHANGED <<tat, budgetDay, budgetCount, circuitOpenDay, active, waiters, call, late>>

LimiterNext ==
    \/ \E c \in Calls : \/ Submit(c) \/ PaceOver(c) \/ Lands(c) \/ Rejected(c)
                        \/ RateLimited(c) \/ BackoffOver(c) \/ RepaceOver(c)
    \/ ClockTick

(* Timers fire, Gmail answers, the clock runs.                             *)
Fairness ==
    /\ WF_limiterVars(ClockTick)
    /\ \A c \in Calls :
          /\ WF_limiterVars(PaceOver(c) \/ BackoffOver(c) \/ RepaceOver(c))
          /\ WF_limiterVars(Lands(c) \/ Rejected(c) \/ RateLimited(c))

LimiterSpec     == LimiterInit /\ [][LimiterNext]_limiterVars
LimiterFairSpec == LimiterSpec /\ Fairness

-----------------------------------------------------------------------------
At(stages) == {c \in Calls : call[c].at \in stages}

LimiterTypeOK ==
    /\ now \in Nat /\ tat \in Nat /\ active \in Nat /\ late \in Nat
    /\ budgetDay \in Nat /\ circuitOpenDay \in Nat /\ budgetCount \in Int
    /\ waiters \in Seq(Calls)
    /\ call \in [Calls -> [at : Live \union {"new", "refused", "landed", "failed"}, wake : Nat,
                           attempt : 0..MaxRetries, day : Nat]]

(* The semaphore neither loses nor doubles a permit, whatever fails: each  *)
(* permit has its holder, and calls wait only while all are taken          *)
(* (primitives.ts:78, "the permit is never double-counted").               *)
PermitsKept ==
    /\ active = Cardinality(At(Inside)) /\ active <= InFlightCap
    /\ waiters # <<>> => active = InFlightCap
    /\ At({"queued"}) = {waiters[i] : i \in DOMAIN waiters}
    /\ Len(waiters) = Cardinality(At({"queued"}))

(* The calls admitted today that landed or may still land keep to the      *)
(* daily cap, but for the refunds of calls admitted on an earlier day.     *)
BudgetKept ==
    Cardinality({c \in At(Live \union {"landed"}) : call[c].day = budgetDay}) <= DailyCap + late

(* Every admitted call is settled: no lost wake-up, no endless retry.      *)
CallsSettle ==
    \A c \in Calls : call[c].at \in Live ~> call[c].at \in {"landed", "failed"}

(* The daily budget is hard (gmailLimiter.ts:143-144: admissions "can      *)
(* never all pass a stale count and overshoot the hard cap"). Violated,    *)
(* and in no run: a call of an earlier day that fails is refunded to today.*)
HardCap ==
    Cardinality({c \in At(Live \union {"landed"}) : call[c].day = budgetDay}) <= DailyCap
=============================================================================
