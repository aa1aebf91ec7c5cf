-------------------------- MODULE SkillRunsProofs --------------------------
(***************************************************************************)
(* Proofs about SkillRuns for every set of runs, profiles and bodies and   *)
(* for every bound.                                                        *)
(***************************************************************************)
EXTENDS SkillRuns, TLAPS

\* The constant records of the model have the types of the variables they fill.
LEMMA ValuesTypeOK ==
  /\ NoClaim \in Claim /\ Idle \in Drive /\ NoState \in RunState
  /\ \A n \in Nat : Entry(n) \in RunState
  /\ NothingFound \in [suspended : SUBSET Runs, stale : SUBSET Runs]
  BY DEF NoClaim, Claim, Idle, Drive, NoState, RunState, Entry, NothingFound

\* The record updates of the actions keep the record types.
LEMMA EndedTypeOK ==
  ASSUME NEW s \in RunState
  PROVE  [s EXCEPT !.terminal = TRUE] \in RunState /\ [s EXCEPT !.pending = 0, !.terminal = TRUE] \in RunState
  BY DEF RunState

LEMMA ConsumedTypeOK ==
  ASSUME NEW c \in Claim PROVE [c EXCEPT !.phase = "consumed"] \in Claim
  BY DEF Claim

LEMMA BodyTypeOK ==
  ASSUME NEW c \in Claim PROVE c.body \in Bodies \cup {NoBody}
  BY DEF Claim

LEMMA InitTypeOK == Init => TypeOK
  BY RunsAssumption
  DEF Init, TypeOK, Status, NothingFound, NoState, RunState, NoClaim, Claim, Idle, Drive


\* What translate() makes of a well-typed state is well typed.
LEMMA TranslatedTypeOK ==
  ASSUME TypeOK, NEW r \in Runs, NEW res \in {"suspended", "rejected"} \cup OverStatus
  PROVE  /\ TranslatedState(mem[r], r, res) \in RunState
         /\ TranslatedAct(r, res) \in [Profiles -> Runs \cup {NoRun}]
         /\ TranslatedOwned(r, res) \subseteq Runs
         /\ TranslatedMint(r, res) \in [Runs -> Seq(0..MaxGates)]
<1>1. mem[r] \in RunState /\ minted[r] \in Seq(0..MaxGates) /\ gate[r] \in 0..MaxGates
  BY DEF TypeOK
<1>2. Len(minted[r]) + 1 \in Nat /\ Append(minted[r], gate[r]) \in Seq(0..MaxGates)
  BY <1>1
<1>3. EndFrame(res) \in {"done", "error", "aborted"}
  BY DEF EndFrame
<1>4. TranslatedState(mem[r], r, res) \in RunState
  BY <1>1, <1>2, <1>3 DEF TranslatedState, RunState
<1>5. TranslatedMint(r, res) \in [Runs -> Seq(0..MaxGates)]
  BY <1>2 DEF TypeOK, TranslatedMint
<1>6. TranslatedAct(r, res) \in [Profiles -> Runs \cup {NoRun}] /\ TranslatedOwned(r, res) \subseteq Runs
  BY DEF TypeOK, TranslatedAct, TranslatedOwned, ClearedOf
<1> QED
  BY <1>4, <1>5, <1>6

\* Writing one cell of a per-run, per-decision table keeps its type; a decision
\* outside the table writes nothing.
LEMMA CellTypeOK ==
  ASSUME NEW S, NEW f \in [Runs -> [Decisions -> S]], NEW r \in Runs, NEW d, NEW v,
         d \in Decisions => v \in S
  PROVE  [f EXCEPT ![r][d] = v] \in [Runs -> [Decisions -> S]]
<1>1. [f[r] EXCEPT ![d] = v] \in [Decisions -> S]
  OBVIOUS
<1> QED
  BY <1>1

\* The steps that write the status of a run's row.
LEMMA RowMoves ==
  ASSUME [Next]_vars, wf' # wf
  PROVE  \/ \E r \in Runs : StartAccepted(r) \/ ResumeEngine(r)
         \/ \E r \in Runs, o \in OverStatus \cup {"suspended"} : Settle(r, o)
         \/ \E r \in Runs, row \in RejectedRow : Reject(r, row)
         \/ \E young, uncanceled \in SUBSET Runs : BootRecover(young, uncanceled)
<1>1. ASSUME NEW r \in Runs,
             \/ StartRun(r) \/ StartRefused(r) \/ DeliverStart(r) \/ DeliverStartFault(r)
             \/ ResumeThrows(r) \/ ResumeRejected(r) \/ DeliverResume(r) \/ DeliverResumeFault(r)
      PROVE  wf' = wf
  BY <1>1 DEF StartRun, StartRefused, DeliverStart, DeliverStartFault, ResumeThrows, ResumeRejected,
              DeliverResume, DeliverResumeFault
<1>2. ASSUME NEW r \in Runs, NEW d \in Decisions, NEW b \in Bodies,
             ReplayDecision(r, d, b) \/ SubmitDecision(r, d, b)
      PROVE  wf' = wf
  BY <1>2 DEF ReplayDecision, SubmitDecision
<1>3. Crash \/ BootServe \/ UNCHANGED vars => wf' = wf
  BY DEF Crash, BootServe, vars
<1> QED
  BY <1>1, <1>2, <1>3 DEF Next

LEMMA NextTypeOK == TypeOK /\ [Next]_vars => TypeOK'
<1> SUFFICES ASSUME TypeOK, [Next]_vars PROVE TypeOK'
  OBVIOUS
<1> USE RunsAssumption DEF TypeOK
<1>1. ASSUME NEW r \in Runs, StartRun(r) PROVE TypeOK'
  BY <1>1 DEF StartRun, history
<1>2. ASSUME NEW r \in Runs, StartRefused(r) PROVE TypeOK'
  BY <1>2 DEF StartRefused, ClaimUndone, ClearedOf, history
<1>3. ASSUME NEW r \in Runs, StartAccepted(r) PROVE TypeOK'
  <2>1. wf' \in [Runs -> Status]
    BY <1>3 DEF StartAccepted, Status, LiveStatus
  <2>2. [by |-> "start", res |-> "none", dec |-> 0] \in Drive
    BY DEF Drive
  <2> QED
    BY <1>3, <2>1, <2>2, ValuesTypeOK DEF StartAccepted, history
<1>4. ASSUME NEW r \in Runs, NEW o \in OverStatus \cup {"suspended"}, Settle(r, o) PROVE TypeOK'
  <2>1. wf' \in [Runs -> Status]
    BY <1>4 DEF Settle, Status, LiveStatus, OverStatus
  <2>2. gate' \in [Runs -> 0..MaxGates]
    BY <1>4 DEF Settle
  <2>3. drive' \in [Runs -> Drive]
    <3>1. drive[r] \in Drive
      OBVIOUS
    <3>2. [drive[r] EXCEPT !.res = o] \in Drive /\ Idle \in Drive
      BY <3>1 DEF Drive, Idle
    <3> QED
      BY <1>4, <3>2 DEF Settle
  <2> QED
    BY <1>4, <2>1, <2>2, <2>3 DEF Settle, history
<1>5. ASSUME NEW r \in Runs, NEW row \in RejectedRow, Reject(r, row) PROVE TypeOK'
  <2>1. wf' \in [Runs -> Status]
    BY <1>5 DEF Reject, Status, LiveStatus, OverStatus
  <2>2. drive' \in [Runs -> Drive]
    <3>1. drive[r] \in Drive
      OBVIOUS
    <3>2. [drive[r] EXCEPT !.res = "rejected"] \in Drive /\ Idle \in Drive
      BY <3>1 DEF Drive, Idle
    <3> QED
      BY <1>5, <3>2 DEF Reject
  <2> QED
    BY <1>5, <2>1, <2>2 DEF Reject, history
<1>6. ASSUME NEW r \in Runs, DeliverStart(r) PROVE TypeOK'
  <2>1. drive[r].res \in {"suspended", "rejected"} \cup OverStatus
    BY <1>6 DEF DeliverStart, Drive
  <2>2. mem' \in [Runs -> RunState]
    BY <1>6, <2>1, TranslatedTypeOK DEF DeliverStart
  <2>3. minted' \in [Runs -> Seq(0..MaxGates)] /\ act' \in [Profiles -> Runs \cup {NoRun}] /\ owned' \subseteq Runs
    BY <1>6, <2>1, TranslatedTypeOK DEF DeliverStart
  <2>4. drive' \in [Runs -> Drive]
    BY <1>6 DEF DeliverStart, Drive, Idle
  <2> QED
    BY <1>6, <2>2, <2>3, <2>4 DEF DeliverStart
<1>7. ASSUME NEW r \in Runs, DeliverStartFault(r) PROVE TypeOK'
  <2>1. [mem[r] EXCEPT !.terminal = TRUE] \in RunState
    BY EndedTypeOK
  <2> QED
    BY <1>7, <2>1, ValuesTypeOK DEF DeliverStartFault, history
<1>8. ASSUME NEW r \in Runs, NEW d \in Decisions, NEW b \in Bodies, ReplayDecision(r, d, b) PROVE TypeOK'
  BY <1>8 DEF ReplayDecision
<1>9. ASSUME NEW r \in Runs, NEW d \in Decisions, NEW b \in Bodies, SubmitDecision(r, d, b) PROVE TypeOK'
  BY <1>9 DEF SubmitDecision, history, Claim, Drive, Decisions
<1>10. ASSUME NEW r \in Runs, ResumeEngine(r) PROVE TypeOK'
  <2>1. wf' \in [Runs -> Status]
    BY <1>10 DEF ResumeEngine, Status, LiveStatus
  <2>2. drive' \in [Runs -> Drive]
    <3>1. drive[r] \in Drive
      OBVIOUS
    <3>2. [drive[r] EXCEPT !.by = "resume"] \in Drive
      BY <3>1 DEF Drive
    <3>3. drive' = [drive EXCEPT ![r] = [drive[r] EXCEPT !.by = "resume"]]
      BY <1>10 DEF ResumeEngine
    <3> QED
      BY <3>2, <3>3
  <2>3. drive[r].dec \in Decisions => claims[r][drive[r].dec].body \in Bodies \cup {NoBody}
    BY BodyTypeOK
  <2>4. answer' \in [Runs -> [Decisions -> Bodies \cup {NoBody}]]
    <3> DEFINE S == Bodies \cup {NoBody}
               d == drive[r].dec
               v == claims[r][drive[r].dec].body
    <3>1. answer' = [answer EXCEPT ![r][d] = v]
      BY <1>10 DEF ResumeEngine
    <3>2. answer \in [Runs -> [Decisions -> S]] /\ (d \in Decisions => v \in S)
      BY <2>3
    <3> HIDE DEF S, d, v
    <3>3. answer' \in [Runs -> [Decisions -> S]]
      BY <3>1, <3>2, CellTypeOK
    <3> QED
      BY <3>3 DEF S
  <2> QED
    BY <1>10, <2>1, <2>2, <2>4 DEF ResumeEngine
<1>11. ASSUME NEW r \in Runs, ResumeThrows(r) PROVE TypeOK'
  BY <1>11 DEF ResumeThrows, RolledBack, history, Claim, NoClaim, Drive, Idle
<1>12. ASSUME NEW r \in Runs, ResumeRejected(r) PROVE TypeOK'
  BY <1>12 DEF ResumeRejected, RolledBack, history, Claim, NoClaim, Drive, Idle
<1>13. ASSUME NEW r \in Runs, DeliverResume(r) PROVE TypeOK'
  <2>1. drive[r].res \in {"suspended", "rejected"} \cup OverStatus
    BY <1>13 DEF DeliverResume, Drive
  <2>2. mem' \in [Runs -> RunState]
    BY <1>13, <2>1, TranslatedTypeOK DEF DeliverResume
  <2>3. minted' \in [Runs -> Seq(0..MaxGates)] /\ act' \in [Profiles -> Runs \cup {NoRun}] /\ owned' \subseteq Runs
    BY <1>13, <2>1, TranslatedTypeOK DEF DeliverResume
  <2>4. drive' \in [Runs -> Drive]
    BY <1>13 DEF DeliverResume, Drive, Idle
  <2> DEFINE d == drive[r].dec
  <2>7. d \in Decisions => claims[r][d] \in Claim
    OBVIOUS
  <2>5. claims' \in [Runs -> [Decisions -> Claim]]
    <3> DEFINE c == [claims[r][d] EXCEPT !.phase = "consumed"]
    <3>1. d \in Decisions => c \in Claim
      BY <2>7, ConsumedTypeOK
    <3>2. claims' = [claims EXCEPT ![r][d] = c]
      BY <1>13 DEF DeliverResume
    <3> HIDE DEF d, c
    <3> QED
      BY <3>1, <3>2, CellTypeOK
  <2>6. acked' \in [Runs -> [Decisions -> SUBSET (Bodies \cup {NoBody})]]
    <3>1. d \in Decisions => acked[r][d] \cup {claims[r][d].body} \in SUBSET (Bodies \cup {NoBody})
      <4>1. d \in Decisions => claims[r][d].body \in Bodies \cup {NoBody}
        BY <2>7, BodyTypeOK
      <4>2. d \in Decisions => acked[r][d] \in SUBSET (Bodies \cup {NoBody})
        OBVIOUS
      <4> QED
        BY <4>1, <4>2
    <3>2. acked' = [acked EXCEPT ![r][d] = acked[r][d] \cup {claims[r][d].body}]
      BY <1>13 DEF DeliverResume
    <3> HIDE DEF d
    <3> QED
      BY <3>1, <3>2, CellTypeOK
  <2> QED
    BY <1>13, <2>2, <2>3, <2>4, <2>5, <2>6 DEF DeliverResume
<1>14. ASSUME NEW r \in Runs, DeliverResumeFault(r) PROVE TypeOK'
  <2>1. [mem[r] EXCEPT !.pending = 0, !.terminal = TRUE] \in RunState
    BY EndedTypeOK
  <2> QED
    BY <1>14, <2>1, ValuesTypeOK DEF DeliverResumeFault, history
<1>15. CASE Crash
  BY <1>15 DEF Crash, history, NothingFound, NoState, RunState, NoClaim, Claim, Idle, Drive
<1>16. ASSUME NEW young \in SUBSET Runs, NEW uncanceled \in SUBSET Runs, BootRecover(young, uncanceled)
       PROVE TypeOK'
  BY <1>16 DEF BootRecover, history, Status, OverStatus, Drive, Idle
<1>17. CASE BootServe
  <2>1. \A r \in Runs : Len(minted[r]) + 1 \in Nat /\ Append(minted[r], gate[r]) \in Seq(0..MaxGates)
    OBVIOUS
  <2>2. mem' \in [Runs -> RunState]
    BY <1>17, <2>1, ValuesTypeOK DEF BootServe
  <2>3. minted' \in [Runs -> Seq(0..MaxGates)]
    BY <1>17, <2>1 DEF BootServe
  <2>4. act' \in [Profiles -> Runs \cup {NoRun}]
    BY <1>17 DEF BootServe
  <2> QED
    BY <1>17, <2>2, <2>3, <2>4, ValuesTypeOK DEF BootServe
<1>18. CASE UNCHANGED vars
  BY <1>18 DEF vars, history
<1> QED
  BY <1>1, <1>2, <1>3, <1>4, <1>5, <1>6, <1>7, <1>8, <1>9, <1>10, <1>11, <1>12, <1>13, <1>14,
     <1>15, <1>16, <1>17, <1>18 DEF Next

\* Every variable keeps its type, whatever the clients and the crashes do.
THEOREM TypeCorrect == Spec => []TypeOK
  BY InitTypeOK, NextTypeOK, PTL DEF Spec

-----------------------------------------------------------------------------
(* One live run per profile.  The claim row is inserted before the first   *)
(* await of start() and deleted only when the end of the run is delivered, *)
(* and a boot keeps the rows of all the runs that are still live.          *)

\* A rejected drive never leaves a row that says "running": with such a row a boot
\* would restart a run whose profile somebody else may have claimed since.
NoOrphanRow == "running" \notin RejectedRow

LEMMA InitIInv == Init => IInv
  BY DEF Init, IInv, ActivationFollowsRun, DriveMatchesRow, TrackedExists, ProcessMemory, Live,
     LiveStatus, Executing, Idle, OverStatus, NoState

\* Clearing by value deletes the rows of one run and no other.
LEMMA ClearedRows ==
  ASSUME TypeOK, NEW r \in Runs, NEW s \in Runs \ {r}
  PROVE  /\ ClearedOf(r) \in [Profiles -> Runs \cup {NoRun}]
         /\ \A p \in Profiles : act[p] = s => ClearedOf(r)[p] = s
  BY DEF TypeOK, ClearedOf

\* translate() never forgets a run, and a terminal fault does not either.
LEMMA TranslatedTracked ==
  ASSUME NEW s \in RunState, NEW r, NEW res
  PROVE  TranslatedState(s, r, res).tracked = s.tracked
  BY DEF TranslatedState, RunState

LEMMA EndedTracked ==
  ASSUME NEW s \in RunState
  PROVE  /\ [s EXCEPT !.terminal = TRUE].tracked = s.tracked
         /\ [s EXCEPT !.pending = 0, !.terminal = TRUE].tracked = s.tracked
  BY DEF RunState

\* An entry of `runs` only appears for a stored row, and rows are never deleted.
LEMMA NextTrackedExists ==
  ASSUME TypeOK, DriveMatchesRow, TrackedExists, [Next]_vars PROVE TrackedExists'
<1> USE RunsAssumption DEF TrackedExists
<1>0. \A s \in Runs : mem[s] \in RunState
  BY DEF TypeOK
<1>1. \A s \in Runs : wf'[s] = "none" => wf[s] = "none"
  <2>1. ASSUME NEW r \in Runs,
               \/ StartAccepted(r) \/ ResumeEngine(r)
               \/ \E o \in OverStatus \cup {"suspended"} : Settle(r, o)
               \/ \E row \in RejectedRow : Reject(r, row)
        PROVE  \E v : v # "none" /\ wf' = [wf EXCEPT ![r] = v]
    BY <2>1 DEF StartAccepted, ResumeEngine, Settle, Reject, OverStatus
  <2>2. ASSUME NEW r \in Runs, NEW v, v # "none", wf' = [wf EXCEPT ![r] = v]
        PROVE  \A s \in Runs : wf'[s] = "none" => wf[s] = "none"
    BY <2>2 DEF TypeOK
  <2>3. ASSUME NEW young \in SUBSET Runs, NEW uncanceled \in SUBSET Runs, BootRecover(young, uncanceled)
        PROVE  \A s \in Runs : wf'[s] = "none" => wf[s] = "none"
    BY <2>3 DEF BootRecover
  <2>4. CASE wf' = wf
    BY <2>4
  <2> QED
    BY <2>1, <2>2, <2>3, <2>4, RowMoves
<1>2. ASSUME NEW r \in Runs, StartAccepted(r) PROVE TrackedExists'
  BY <1>2 DEF StartAccepted, TypeOK
<1>3. ASSUME NEW r \in Runs, DeliverStart(r) \/ DeliverResume(r) PROVE TrackedExists'
  <2>1. mem'[r].tracked = mem[r].tracked /\ \A s \in Runs \ {r} : mem'[s] = mem[s]
    BY <1>0, <1>3, TranslatedTracked DEF DeliverStart, DeliverResume, TypeOK
  <2> QED
    BY <1>1, <2>1
<1>4. ASSUME NEW r \in Runs, DeliverStartFault(r) \/ DeliverResumeFault(r) PROVE TrackedExists'
  <2>1. mem'[r].tracked = mem[r].tracked /\ \A s \in Runs \ {r} : mem'[s] = mem[s]
    BY <1>0, <1>4, EndedTracked DEF DeliverStartFault, DeliverResumeFault, TypeOK
  <2> QED
    BY <1>1, <2>1
<1>5. CASE Crash
  BY <1>5 DEF Crash, NoState
<1>6. CASE BootServe
  BY <1>1, <1>6 DEF BootServe, Reattached, TypeOK
<1>7. CASE mem' = mem
  BY <1>1, <1>7
<1> QED
  BY <1>2, <1>3, <1>4, <1>5, <1>6, <1>7
  DEF Next, vars, StartRun, StartRefused, Settle, Reject, ReplayDecision, SubmitDecision, ResumeEngine,
      ResumeThrows, ResumeRejected, BootRecover

LEMMA NextIInv ==
  ASSUME NoOrphanRow, TypeOK, IInv, [Next]_vars PROVE IInv'
<1> DEFINE Rest == ActivationFollowsRun /\ DriveMatchesRow /\ ProcessMemory
<1> SUFFICES Rest'
  BY NextTrackedExists DEF IInv
<1> USE RunsAssumption DEF IInv, LiveStatus, OverStatus
<1>1. ASSUME NEW r \in Runs, StartRun(r) PROVE Rest'
  <2>1. ActivationFollowsRun'
    BY <1>1 DEF StartRun, TypeOK, ActivationFollowsRun, OwnsProfile, Live, ClaimAcquired, ClaimInserts
  <2>2. DriveMatchesRow' /\ ProcessMemory'
    BY <1>1 DEF StartRun, TypeOK, DriveMatchesRow, ProcessMemory, Live, Executing, SurvivesBoot
  <2> QED
    BY <2>1, <2>2
<1>2. ASSUME NEW r \in Runs, StartRefused(r) PROVE Rest'
  <2>1. ActivationFollowsRun'
    BY <1>2, ClearedRows DEF StartRefused, KnownId, ClaimUndone, ClearedOf, TypeOK, ActivationFollowsRun, OwnsProfile, Live
  <2>2. DriveMatchesRow' /\ ProcessMemory'
    BY <1>2 DEF StartRefused, TypeOK, DriveMatchesRow, ProcessMemory, Live, Executing, SurvivesBoot
  <2> QED
    BY <2>1, <2>2
<1>3. ASSUME NEW r \in Runs, StartAccepted(r) PROVE Rest'
  <2>1. ActivationFollowsRun'
    BY <1>3 DEF StartAccepted, KnownId, TypeOK, ActivationFollowsRun, OwnsProfile, Live
  <2>2. DriveMatchesRow'
    BY <1>3 DEF StartAccepted, TypeOK, DriveMatchesRow, Live, Executing
  <2>3. ProcessMemory'
    BY <1>3 DEF StartAccepted, TypeOK, ProcessMemory
  <2> QED
    BY <2>1, <2>2, <2>3
<1>4. ASSUME NEW r \in Runs, NEW o \in OverStatus \cup {"suspended"}, Settle(r, o) PROVE Rest'
  <2>0. wf[r] = "running" /\ drive[r] \in Drive
    BY <1>4 DEF Settle, DriveMatchesRow, TypeOK
  <2>1. ActivationFollowsRun'
    BY <1>4, <2>0 DEF Settle, TypeOK, ActivationFollowsRun, OwnsProfile, Live
  <2>2. DriveMatchesRow'
    BY <1>4, <2>0 DEF Settle, TypeOK, DriveMatchesRow, Live, Executing, Idle, Drive
  <2>3. ProcessMemory'
    BY <1>4, <2>0 DEF Settle, TypeOK, ProcessMemory, Live, SurvivesBoot, Executing, Idle
  <2> QED
    BY <2>1, <2>2, <2>3
<1>5. ASSUME NEW r \in Runs, NEW row \in RejectedRow, Reject(r, row) PROVE Rest'
  <2>0. wf[r] = "running" /\ row = "failed" /\ drive[r] \in Drive
    BY <1>5 DEF Reject, DriveMatchesRow, NoOrphanRow, TypeOK
  <2>1. ActivationFollowsRun'
    BY <1>5, <2>0 DEF Reject, TypeOK, ActivationFollowsRun, OwnsProfile, Live
  <2>2. DriveMatchesRow'
    BY <1>5, <2>0 DEF Reject, TypeOK, DriveMatchesRow, Live, Executing, Idle, Drive
  <2>3. ProcessMemory'
    BY <1>5, <2>0 DEF Reject, TypeOK, ProcessMemory, Live, SurvivesBoot, Executing, Idle
  <2> QED
    BY <2>1, <2>2, <2>3
<1>6. ASSUME NEW r \in Runs, DeliverStart(r) PROVE Rest'
  <2>1. ActivationFollowsRun'
    BY <1>6 DEF DeliverStart, TranslatedAct, ClearedOf, TypeOK, ActivationFollowsRun,
       DriveMatchesRow, OwnsProfile, Live, Drive
  <2>2. DriveMatchesRow'
    BY <1>6 DEF DeliverStart, TypeOK, DriveMatchesRow, Live, Executing, Idle
  <2>3. ProcessMemory'
    BY <1>6 DEF DeliverStart, TranslatedOwned, TypeOK, ProcessMemory, Live, SurvivesBoot, Idle
  <2> QED
    BY <2>1, <2>2, <2>3
<1>7. ASSUME NEW r \in Runs, DeliverStartFault(r) \/ ResumeThrows(r) \/ ResumeRejected(r) \/ DeliverResumeFault(r)
      PROVE Rest'
  <2>0. /\ drive' = [drive EXCEPT ![r] = Idle]
        /\ UNCHANGED <<act, wf, proc, recovery, owned, starting>>
    BY <1>7 DEF DeliverStartFault, ResumeThrows, ResumeRejected, DeliverResumeFault
  <2>1. ActivationFollowsRun'
    BY <2>0 DEF ActivationFollowsRun, OwnsProfile, Live
  <2>2. DriveMatchesRow'
    BY <2>0 DEF TypeOK, DriveMatchesRow, Live, Executing, Idle
  <2>3. ProcessMemory'
    BY <2>0 DEF TypeOK, ProcessMemory, Live, SurvivesBoot, Idle
  <2> QED
    BY <2>1, <2>2, <2>3
<1>8. ASSUME NEW r \in Runs, NEW d \in Decisions, NEW b \in Bodies, ReplayDecision(r, d, b) PROVE Rest'
  BY <1>8 DEF ReplayDecision, ActivationFollowsRun, DriveMatchesRow, ProcessMemory, OwnsProfile, Live,
     Executing, SurvivesBoot
<1>9. ASSUME NEW r \in Runs, NEW d \in Decisions, NEW b \in Bodies, SubmitDecision(r, d, b) PROVE Rest'
  <2>0. mem[r].tracked /\ proc = "up" /\ r \in Runs
    BY <1>9 DEF SubmitDecision
  <2>1. ActivationFollowsRun'
    BY <1>9 DEF SubmitDecision, ActivationFollowsRun, OwnsProfile, Live
  <2>2. DriveMatchesRow'
    BY <1>9, <2>0 DEF SubmitDecision, TypeOK, DriveMatchesRow, TrackedExists, Live, Executing
  <2>3. ProcessMemory'
    BY <1>9 DEF SubmitDecision, ProcessMemory
  <2> QED
    BY <2>1, <2>2, <2>3
<1>10. ASSUME NEW r \in Runs, ResumeEngine(r) PROVE Rest'
  <2>0. drive[r] \in Drive /\ drive[r].res = "none"
    BY <1>10 DEF ResumeEngine, DriveMatchesRow, TypeOK
  <2>1. ActivationFollowsRun'
    BY <1>10 DEF ResumeEngine, TypeOK, ActivationFollowsRun, OwnsProfile, Live
  <2>2. DriveMatchesRow'
    BY <1>10, <2>0 DEF ResumeEngine, TypeOK, DriveMatchesRow, Live, Executing, Drive
  <2>3. ProcessMemory'
    BY <1>10 DEF ResumeEngine, TypeOK, ProcessMemory, Live, SurvivesBoot, Idle
  <2> QED
    BY <2>1, <2>2, <2>3
<1>11. ASSUME NEW r \in Runs, DeliverResume(r) PROVE Rest'
  <2>1. ActivationFollowsRun'
    BY <1>11 DEF DeliverResume, TranslatedAct, ClearedOf, TypeOK, ActivationFollowsRun,
       DriveMatchesRow, OwnsProfile, Live, Drive
  <2>2. DriveMatchesRow'
    BY <1>11 DEF DeliverResume, TypeOK, DriveMatchesRow, Live, Executing, Idle
  <2>3. ProcessMemory'
    BY <1>11 DEF DeliverResume, TranslatedOwned, TypeOK, ProcessMemory, Live, SurvivesBoot, Idle
  <2> QED
    BY <2>1, <2>2, <2>3
<1>12. CASE Crash
  BY <1>12 DEF Crash, TypeOK, ActivationFollowsRun, DriveMatchesRow, ProcessMemory, OwnsProfile, Live,
     Executing, Idle
<1>13. ASSUME NEW young \in SUBSET Runs, NEW uncanceled \in SUBSET Runs, BootRecover(young, uncanceled)
       PROVE Rest'
  <2>1. ActivationFollowsRun'
    BY <1>13 DEF BootRecover, TypeOK, ActivationFollowsRun, ProcessMemory, OwnsProfile, Live
  <2>2. DriveMatchesRow'
    BY <1>13 DEF BootRecover, TypeOK, DriveMatchesRow, ProcessMemory, Live, Executing, Idle
  <2>3. ProcessMemory'
    BY <1>13 DEF BootRecover, TypeOK, ProcessMemory, Live, SurvivesBoot
  <2> QED
    BY <2>1, <2>2, <2>3
<1>14. CASE BootServe
  <2>1. ActivationFollowsRun'
    BY <1>14 DEF BootServe, TypeOK, ActivationFollowsRun, ProcessMemory, OwnsProfile, Live
  <2>2. DriveMatchesRow' /\ ProcessMemory'
    BY <1>14 DEF BootServe, DriveMatchesRow, ProcessMemory, Live, Executing
  <2> QED
    BY <2>1, <2>2
<1>15. CASE UNCHANGED vars
  BY <1>15 DEF vars, ActivationFollowsRun, DriveMatchesRow, ProcessMemory, OwnsProfile, Live,
     Executing, SurvivesBoot
<1> QED
  BY <1>1, <1>2, <1>3, <1>4, <1>5, <1>6, <1>7, <1>8, <1>9, <1>10, <1>11, <1>12, <1>13, <1>14, <1>15
  DEF Next

\* Under NoOrphanRow the reachable states satisfy the inductive invariant.
THEOREM Inductive == ASSUME NoOrphanRow PROVE Spec => []IInv
<1>1. TypeOK /\ IInv /\ [Next]_vars => IInv'
  BY NextIInv
<1> QED
  BY <1>1, InitIInv, TypeCorrect, PTL DEF Spec

LEMMA InvariantIsExclusive == TypeOK /\ IInv => AtMostOneLive
<1> SUFFICES ASSUME TypeOK, IInv, NEW r \in Runs, NEW s \in Runs, Live(r), Live(s),
                    ProfileOf[r] = ProfileOf[s], ProfileOf[r] # NoProfile
             PROVE  r = s
  BY DEF AtMostOneLive
<1> QED
  BY DEF IInv, ActivationFollowsRun, OwnsProfile

\* Whatever the clients do and whenever the server crashes, a search profile is
\* never served by two live runs, provided a rejected drive leaves no running row.
THEOREM OneRunPerProfile == ASSUME NoOrphanRow PROVE Spec => []AtMostOneLive
  BY TypeCorrect, Inductive, InvariantIsExclusive, PTL

-----------------------------------------------------------------------------
(* Refinement: the runs implement the virtual-actor contract.              *)

LEMMA InitRefines == Init => Actor!Init
  BY DEF Init, Actor!Init, Live, LiveStatus, OverStatus

LEMMA NextRefines ==
  ASSUME NoOrphanRow, TypeOK, IInv, [Next]_vars
  PROVE  [Actor!Next]_<<{r \in Runs : Live(r)}, {r \in Runs : wf[r] \in OverStatus}>>
<1> DEFINE live == {r \in Runs : Live(r)}
           over == {r \in Runs : wf[r] \in OverStatus}
<1> USE RunsAssumption
<1>1. ASSUME NEW r \in Runs, StartAccepted(r) PROVE Actor!Begin(r)
  <2>1. r \notin live /\ r \notin over /\ live' = live \cup {r} /\ over' = over
    BY <1>1 DEF StartAccepted, KnownId, TypeOK, Live, LiveStatus, OverStatus
  <2>2. \A s \in live : ~ Actor!SameProfile(r, s)
    BY <1>1, <2>1 DEF StartAccepted, KnownId, IInv, ActivationFollowsRun, OwnsProfile, Actor!SameProfile
  <2> QED
    BY <2>1, <2>2 DEF Actor!Begin
<1>2. ASSUME NEW S \in SUBSET Runs, S \subseteq live,
             \A r \in Runs : wf'[r] \in LiveStatus <=> r \in live \ S,
             \A r \in Runs : wf'[r] \in OverStatus <=> r \in over \cup S
      PROVE  Actor!End(S)
  BY <1>2 DEF Actor!End, Live
<1>3. ASSUME NEW r \in Runs, NEW o \in OverStatus \cup {"suspended"}, Settle(r, o)
      PROVE  Actor!End({r}) \/ UNCHANGED <<live, over>>
  <2>1. wf[r] = "running" /\ wf' = [wf EXCEPT ![r] = o]
    BY <1>3 DEF Settle, IInv, DriveMatchesRow
  <2>2. CASE o = "suspended"
    BY <2>1, <2>2 DEF TypeOK, Live, LiveStatus, OverStatus
  <2>3. CASE o \in OverStatus
    BY <2>1, <2>3, <1>2 DEF TypeOK, Live, LiveStatus, OverStatus
  <2> QED
    BY <2>2, <2>3
<1>4. ASSUME NEW r \in Runs, NEW row \in RejectedRow, Reject(r, row) PROVE Actor!End({r})
  <2>1. wf[r] = "running" /\ wf' = [wf EXCEPT ![r] = "failed"]
    BY <1>4 DEF Reject, IInv, DriveMatchesRow, NoOrphanRow
  <2> QED
    BY <2>1, <1>2 DEF TypeOK, Live, LiveStatus, OverStatus
<1>5. ASSUME NEW r \in Runs, ResumeEngine(r) PROVE UNCHANGED <<live, over>>
  BY <1>5 DEF ResumeEngine, TypeOK, Live, LiveStatus, OverStatus
<1>6. ASSUME NEW young \in SUBSET Runs, NEW uncanceled \in SUBSET Runs, BootRecover(young, uncanceled)
      PROVE  \E S \in SUBSET live : Actor!End(S)
  <2>1. PICK S \in SUBSET Runs : S = ({r \in Runs : wf[r] = "running" /\ r \notin owned} \ young) \ uncanceled
    OBVIOUS
  <2>2. wf' = [r \in Runs |-> IF r \in S THEN "canceled" ELSE wf[r]]
    BY <1>6, <2>1 DEF BootRecover
  <2>3. S \subseteq live
    BY <2>1 DEF Live, LiveStatus
  <2>4. \A r \in Runs : wf'[r] \in LiveStatus <=> r \in live \ S
    BY <2>2, <2>3 DEF Live, LiveStatus
  <2>5. \A r \in Runs : wf'[r] \in OverStatus <=> r \in over \cup S
    BY <2>2, <2>3 DEF OverStatus
  <2>6. Actor!End(S)
    BY <1>2, <2>3, <2>4, <2>5
  <2> QED
    BY <2>3, <2>6
<1>7. ASSUME wf' = wf PROVE UNCHANGED <<live, over>>
  BY <1>7 DEF Live
<1>8. (\E r \in Runs : Actor!Begin(r)) \/ (\E S \in SUBSET live : Actor!End(S)) \/ UNCHANGED <<live, over>>
  <2>1. ASSUME NEW r \in Runs, Actor!End({r}) PROVE \E S \in SUBSET live : Actor!End(S)
    <3>1. {r} \in SUBSET live
      BY <2>1 DEF Actor!End
    <3> QED
      BY <2>1, <3>1
  <2>2. CASE wf' = wf
    BY <1>7, <2>2
  <2> HIDE DEF live, over
  <2> QED
    BY <1>1, <1>3, <1>4, <1>5, <1>6, <2>1, <2>2, RowMoves
<1> QED
  BY <1>8 DEF Actor!Next

\* The whole run lifecycle, with its databases, promises and reboots, implements the
\* contract of VirtualActor: one life per run id, one live run per profile.
THEOREM ImplementsVirtualActor == ASSUME NoOrphanRow PROVE Spec => ActorSpec
<1>1. TypeOK /\ IInv /\ [Next]_vars
        => [Actor!Next]_<<{r \in Runs : Live(r)}, {r \in Runs : wf[r] \in OverStatus}>>
  BY NextRefines
<1> QED
  BY <1>1, InitRefines, TypeCorrect, Inductive, PTL DEF Spec, ActorSpec, Actor!Spec

-----------------------------------------------------------------------------
(***************************************************************************)
(* Honest acknowledgements. A decision is minted once, so an acknowledged  *)
(* decision is never pending or in dispatch again; from its dispatch on    *)
(* the claim holds the body the engine is resumed with.                    *)
(***************************************************************************)
InDispatch(r, d) == drive[r].by \in {"dispatch", "resume"} /\ drive[r].dec = d

Honest(r) ==
  /\ mem[r].pending <= Len(minted[r])
  /\ \A d \in Decisions :
       /\ acked[r][d] \subseteq {answer[r][d]} \ {NoBody}
       /\ claims[r][d].phase = "consumed" => claims[r][d].body \in acked[r][d]
       /\ acked[r][d] # {} =>
            d <= Len(minted[r]) /\ mem[r].pending # d /\ ~ InDispatch(r, d)
       /\ InDispatch(r, d) =>
            /\ d <= Len(minted[r])
            /\ claims[r][d].phase = "processing" /\ claims[r][d].body \in Bodies
            /\ drive[r].by = "resume" => claims[r][d].body = answer[r][d]
  /\ drive[r].by \in {"dispatch", "resume"} => drive[r].dec \in Decisions

HonestInv == \A r \in Runs : Honest(r)

LEMMA HonestInit == Init => HonestInv
  BY DEF Init, HonestInv, Honest, InDispatch, NoState, Idle, NoClaim

\* A run none of whose decision state changes stays honest.
LEMMA HonestSame ==
  ASSUME NEW r \in Runs, Honest(r),
         UNCHANGED <<mem[r], minted[r], claims[r], drive[r], acked[r], answer[r]>>
  PROVE  Honest(r)'
  BY DEF Honest, InDispatch

\* Forgetting what is pending, claimed and dispatched keeps a run honest.
LEMMA HonestForgets ==
  ASSUME NEW r \in Runs, Honest(r), TypeOK,
         mem'[r].pending = 0, drive'[r].by \notin {"dispatch", "resume"},
         claims'[r] \in {claims[r], [d \in Decisions |-> NoClaim]},
         UNCHANGED <<minted[r], acked[r], answer[r]>>
  PROVE  Honest(r)'
<1>1. Len(minted[r]) \in Nat /\ 0 \notin Decisions
  BY RunsAssumption DEF TypeOK, Decisions
<1>2. \A d \in Decisions : claims'[r][d].phase = "consumed" => claims'[r][d].body \in acked[r][d]
  BY DEF Honest, NoClaim
<1> QED
  BY <1>1, <1>2 DEF Honest, InDispatch

\* A fresh decision is acknowledged nowhere.
LEMMA HonestMints ==
  ASSUME NEW r \in Runs, Honest(r), TypeOK, NEW g \in 0..MaxGates,
         mem'[r].pending = Len(minted[r]) + 1, minted'[r] = Append(minted[r], g),
         drive'[r] = drive[r] \/ drive'[r].by \notin {"dispatch", "resume"},
         UNCHANGED <<claims[r], acked[r], answer[r]>>
  PROVE  Honest(r)'
<1>1. minted[r] \in Seq(0..MaxGates)
  BY DEF TypeOK
<1>2. Len(minted'[r]) = Len(minted[r]) + 1 /\ Len(minted[r]) \in Nat
  BY <1>1
<1>3. Decisions \subseteq Nat
  BY RunsAssumption DEF Decisions
<1> QED
  BY <1>2, <1>3 DEF Honest, InDispatch

\* translate() after a start: a fresh decision, or none.
LEMMA HonestDelivers ==
  ASSUME NEW r \in Runs, HonestInv, TypeOK, DeliverStart(r)
  PROVE  Honest(r)'
<1> DEFINE res == drive[r].res
<1>1. mem[r] \in RunState /\ gate[r] \in 0..MaxGates /\ Honest(r)
  BY DEF TypeOK, HonestInv
<1>2. drive'[r].by \notin {"dispatch", "resume"} /\ UNCHANGED <<claims[r], acked[r], answer[r]>>
  BY DEF DeliverStart, TypeOK, Idle
<1>3. CASE res = "suspended"
  <2>1. mem'[r].pending = Len(minted[r]) + 1 /\ minted'[r] = Append(minted[r], gate[r])
    BY <1>1, <1>3 DEF DeliverStart, TranslatedState, TranslatedMint, TypeOK, RunState
  <2> QED
    BY <1>1, <1>2, <2>1, HonestMints
<1>4. CASE res # "suspended"
  <2>1. mem'[r].pending = 0 /\ minted'[r] = minted[r]
    BY <1>1, <1>4 DEF DeliverStart, TranslatedState, TranslatedMint, TypeOK, RunState
  <2> QED
    BY <1>1, <1>2, <2>1, HonestForgets
<1> QED
  BY <1>3, <1>4

\* Phase 3: the claim is consumed with the body that resumed the engine.
LEMMA HonestConsumes ==
  ASSUME NEW r \in Runs, HonestInv, TypeOK, DeliverResume(r)
  PROVE  Honest(r)'
<1> DEFINE res == drive[r].res
           d == drive[r].dec
<1>1. mem[r] \in RunState /\ gate[r] \in 0..MaxGates /\ Honest(r) /\ minted[r] \in Seq(0..MaxGates)
  BY DEF TypeOK, HonestInv
<1>2. d \in Decisions /\ InDispatch(r, d) /\ drive[r].by = "resume"
  BY <1>1 DEF DeliverResume, Honest, InDispatch
<1>3. d <= Len(minted[r]) /\ claims[r][d].body \in Bodies /\ claims[r][d].body = answer[r][d]
  BY <1>1, <1>2 DEF Honest
<1>4. /\ claims'[r][d].phase = "consumed" /\ claims'[r][d].body = claims[r][d].body
      /\ acked'[r][d] = acked[r][d] \cup {claims[r][d].body}
      /\ \A e \in Decisions \ {d} : claims'[r][e] = claims[r][e] /\ acked'[r][e] = acked[r][e]
  <2>1. claims[r][d] \in Claim
    BY <1>2 DEF TypeOK
  <2>2. claims'[r][d] = [claims[r][d] EXCEPT !.phase = "consumed"]
    BY <1>2 DEF DeliverResume, TypeOK
  <2>3. claims'[r][d].phase = "consumed" /\ claims'[r][d].body = claims[r][d].body
    BY <2>1, <2>2 DEF Claim
  <2> QED
    BY <1>2, <2>3 DEF DeliverResume, TypeOK
<1>5. drive'[r].by = "none" /\ answer'[r] = answer[r]
  BY DEF DeliverResume, TypeOK, Idle
<1>6. \/ mem'[r].pending = Len(minted[r]) + 1 /\ Len(minted'[r]) = Len(minted[r]) + 1
      \/ mem'[r].pending = 0 /\ Len(minted'[r]) = Len(minted[r])
  BY <1>1 DEF DeliverResume, TranslatedState, TranslatedMint, TypeOK, RunState
<1>7. Decisions \subseteq Nat \ {0} /\ Len(minted[r]) \in Nat /\ NoBody \notin Bodies
  BY <1>1, RunsAssumption DEF Decisions
<1>8. \A e \in Decisions : acked'[r][e] \subseteq {answer'[r][e]} \ {NoBody}
  BY <1>1, <1>3, <1>4, <1>5, <1>7 DEF Honest
<1>9. \A e \in Decisions : claims'[r][e].phase = "consumed" => claims'[r][e].body \in acked'[r][e]
  BY <1>1, <1>3, <1>4, <1>5 DEF Honest
<1>10. \A e \in Decisions : acked'[r][e] # {} =>
          e <= Len(minted'[r]) /\ mem'[r].pending # e /\ ~ InDispatch(r, e)'
  <2>1. \A e \in Decisions : acked'[r][e] # {} => e <= Len(minted[r])
    BY <1>1, <1>3, <1>4 DEF Honest
  <2> QED
    BY <2>1, <1>5, <1>6, <1>7 DEF InDispatch
<1>11. mem'[r].pending <= Len(minted'[r])
  BY <1>6, <1>7
<1> QED
  BY <1>5, <1>8, <1>9, <1>10, <1>11 DEF Honest, InDispatch

LEMMA HonestNext == HonestInv /\ TypeOK /\ [Next]_vars => HonestInv'
<1> SUFFICES ASSUME HonestInv, TypeOK, [Next]_vars, NEW s \in Runs PROVE Honest(s)'
  BY DEF HonestInv
<1>0. /\ Honest(s) /\ mem[s] \in RunState /\ drive[s] \in Drive /\ minted[s] \in Seq(0..MaxGates)
      /\ Len(minted[s]) \in Nat /\ 0 \notin Decisions /\ Decisions \subseteq Nat /\ NoBody \notin Bodies
  BY RunsAssumption DEF HonestInv, TypeOK, Decisions
<1> USE <1>0 DEF history
<1>1. ASSUME NEW r \in Runs, StartRun(r) \/ StartRefused(r) PROVE Honest(s)'
  BY <1>1, HonestSame DEF StartRun, StartRefused
<1>2. ASSUME NEW r \in Runs, StartAccepted(r) PROVE Honest(s)'
  <2>1. CASE s = r
    BY <1>2, <2>1, HonestForgets DEF StartAccepted, TypeOK, Entry
  <2>2. CASE s # r
    BY <1>2, <2>2, HonestSame DEF StartAccepted, TypeOK
  <2> QED
    BY <2>1, <2>2
<1>3. ASSUME NEW r \in Runs, NEW o \in OverStatus \cup {"suspended"}, Settle(r, o) PROVE Honest(s)'
  <2>1. drive'[s] \in {drive[s], Idle, [drive[s] EXCEPT !.res = o]}
    BY <1>3 DEF Settle, TypeOK
  <2>2. drive'[s].by \in {drive[s].by, "none"} /\ (drive'[s].by # "none" => drive'[s].dec = drive[s].dec)
    BY <2>1 DEF Drive, Idle
  <2> QED
    BY <1>3, <2>2 DEF Settle, Honest, InDispatch
<1>4. ASSUME NEW r \in Runs, NEW row \in RejectedRow, Reject(r, row) PROVE Honest(s)'
  <2>1. drive'[s] \in {drive[s], Idle, [drive[s] EXCEPT !.res = "rejected"]}
    BY <1>4 DEF Reject, TypeOK
  <2>2. drive'[s].by \in {drive[s].by, "none"} /\ (drive'[s].by # "none" => drive'[s].dec = drive[s].dec)
    BY <2>1 DEF Drive, Idle
  <2> QED
    BY <1>4, <2>2 DEF Reject, Honest, InDispatch
<1>5. ASSUME NEW r \in Runs, DeliverStart(r) PROVE Honest(s)'
  <2>1. CASE s = r
    BY <1>5, <2>1, HonestDelivers
  <2>2. CASE s # r
    <3>1. UNCHANGED <<mem[s], minted[s], claims[s], drive[s], acked[s], answer[s]>>
      BY <1>5, <2>2 DEF DeliverStart, TranslatedMint, TypeOK
    <3> QED
      BY <3>1, HonestSame
  <2> QED
    BY <2>1, <2>2
<1>6. ASSUME NEW r \in Runs, DeliverStartFault(r) PROVE Honest(s)'
  <2>1. /\ mem'[s].pending = mem[s].pending
        /\ drive'[s] \in {drive[s], Idle}
    BY <1>6 DEF DeliverStartFault, TypeOK, RunState
  <2> QED
    BY <1>6, <2>1 DEF DeliverStartFault, Honest, InDispatch, Idle
<1>7. ASSUME NEW r \in Runs, NEW d \in Decisions, NEW b \in Bodies, ReplayDecision(r, d, b) PROVE Honest(s)'
  <2>1. b \in acked[r][d]
    BY <1>7 DEF ReplayDecision, ReplayAccepted, Honest, HonestInv
  <2>2. acked'[s] = acked[s]
    BY <1>7, <2>1 DEF ReplayDecision, TypeOK
  <2> QED
    BY <1>7, <2>2, HonestSame DEF ReplayDecision
<1>8. ASSUME NEW r \in Runs, NEW d \in Decisions, NEW b \in Bodies, SubmitDecision(r, d, b) PROVE Honest(s)'
  <2>1. CASE s = r
    <3>1. mem[s].pending = d /\ claims[s][d].phase = "free"
      BY <1>8, <2>1 DEF SubmitDecision, DecisionClaimable
    <3>2. /\ drive'[s] = [by |-> "dispatch", res |-> "none", dec |-> d]
          /\ claims'[s][d] = [phase |-> "processing", body |-> b]
          /\ \A e \in Decisions \ {d} : claims'[s][e] = claims[s][e]
          /\ UNCHANGED <<mem[s], minted[s], acked[s], answer[s]>>
      BY <1>8, <2>1 DEF SubmitDecision, TypeOK
    <3>3. acked[s][d] = {} /\ d <= Len(minted[s])
      BY <3>1 DEF Honest
    <3>4. \A e \in Decisions :
             InDispatch(s, e)' =>
               /\ e = d /\ drive'[s].by = "dispatch"
               /\ claims'[s][e].phase = "processing" /\ claims'[s][e].body \in Bodies
      BY <3>2 DEF InDispatch
    <3>5. \A e \in Decisions : claims'[s][e].phase = "consumed" => claims'[s][e].body \in acked'[s][e]
      BY <3>2 DEF Honest
    <3>6. \A e \in Decisions : acked'[s][e] # {} =>
            e <= Len(minted'[s]) /\ mem'[s].pending # e /\ ~ InDispatch(s, e)'
      BY <3>2, <3>3, <3>4 DEF Honest
    <3> QED
      BY <3>2, <3>3, <3>4, <3>5, <3>6 DEF Honest
  <2>2. CASE s # r
    BY <1>8, <2>2, HonestSame DEF SubmitDecision, TypeOK
  <2> QED
    BY <2>1, <2>2
<1>9. ASSUME NEW r \in Runs, ResumeEngine(r) PROVE Honest(s)'
  <2>1. CASE s = r
    <3> DEFINE d == drive[r].dec
    <3>1. d \in Decisions /\ InDispatch(s, d) /\ acked[s][d] = {}
      BY <1>9, <2>1 DEF ResumeEngine, Honest, InDispatch
    <3>2. drive'[s].by = "resume" /\ drive'[s].dec = d
      BY <1>9, <2>1 DEF ResumeEngine, TypeOK, Drive
    <3>3. /\ answer'[s][d] = claims[s][d].body
          /\ \A e \in Decisions \ {d} : answer'[s][e] = answer[s][e]
          /\ UNCHANGED <<mem[s], minted[s], acked[s], claims[s]>>
      BY <1>9, <2>1, <3>1 DEF ResumeEngine, TypeOK
    <3> QED
      BY <3>1, <3>2, <3>3 DEF Honest, InDispatch
  <2>2. CASE s # r
    BY <1>9, <2>2, HonestSame DEF ResumeEngine, TypeOK
  <2> QED
    BY <2>1, <2>2
<1>10. ASSUME NEW r \in Runs, ResumeThrows(r) \/ ResumeRejected(r) PROVE Honest(s)'
  <2>1. CASE s = r
    <3>1. drive'[s].by = "none" /\ UNCHANGED <<mem[s], minted[s], acked[s], answer[s]>>
      BY <1>10, <2>1 DEF ResumeThrows, ResumeRejected, TypeOK, Idle
    <3>2. \A e \in Decisions : claims'[s][e] \in {claims[s][e], NoClaim}
      BY <1>10, <2>1 DEF ResumeThrows, ResumeRejected, RolledBack, TypeOK
    <3> QED
      BY <3>1, <3>2 DEF Honest, InDispatch, NoClaim
  <2>2. CASE s # r
    <3>1. UNCHANGED <<mem[s], minted[s], claims[s], drive[s], acked[s], answer[s]>>
      BY <1>10, <2>2 DEF ResumeThrows, ResumeRejected, RolledBack, TypeOK
    <3> QED
      BY <3>1, HonestSame
  <2> QED
    BY <2>1, <2>2
<1>11. ASSUME NEW r \in Runs, DeliverResume(r) PROVE Honest(s)'
  <2>1. CASE s = r
    BY <1>11, <2>1, HonestConsumes
  <2>2. CASE s # r
    <3>1. UNCHANGED <<mem[s], minted[s], claims[s], drive[s], acked[s], answer[s]>>
      BY <1>11, <2>2 DEF DeliverResume, TranslatedMint, TypeOK
    <3> QED
      BY <3>1, HonestSame
  <2> QED
    BY <2>1, <2>2
<1>12. ASSUME NEW r \in Runs, DeliverResumeFault(r) PROVE Honest(s)'
  <2>1. CASE s = r
    <3>1. mem'[s].pending = 0 /\ drive'[s].by = "none"
      BY <1>12, <2>1 DEF DeliverResumeFault, TypeOK, RunState, Idle
    <3> QED
      BY <1>12, <3>1, HonestForgets DEF DeliverResumeFault
  <2>2. CASE s # r
    BY <1>12, <2>2, HonestSame DEF DeliverResumeFault, TypeOK
  <2> QED
    BY <2>1, <2>2
<1>13. CASE Crash
  BY <1>13, HonestForgets DEF Crash, NoState, Idle
<1>14. ASSUME NEW young \in SUBSET Runs, NEW uncanceled \in SUBSET Runs, BootRecover(young, uncanceled)
       PROVE  Honest(s)'
  <2>1. drive'[s] = drive[s] \/ drive'[s].by = "restart"
    BY <1>14 DEF BootRecover, Idle
  <2> QED
    BY <1>14, <2>1 DEF BootRecover, Honest, InDispatch
<1>15. CASE BootServe
  <2>1. CASE s \in Reattached
    <3>1. mem'[s].pending = Len(minted[s]) + 1 /\ minted'[s] = Append(minted[s], gate[s])
      BY <1>15, <2>1 DEF BootServe, Entry
    <3>2. drive'[s] = drive[s] /\ UNCHANGED <<claims[s], acked[s], answer[s]>>
      BY <1>15 DEF BootServe
    <3>3. gate[s] \in 0..MaxGates
      BY DEF TypeOK
    <3> QED
      BY <3>1, <3>2, <3>3, HonestMints
  <2>2. CASE s \notin Reattached
    BY <1>15, <2>2, HonestSame DEF BootServe
  <2> QED
    BY <2>1, <2>2
<1>16. CASE UNCHANGED vars
  BY <1>16, HonestSame DEF vars
<1> QED
  BY <1>1, <1>2, <1>3, <1>4, <1>5, <1>6, <1>7, <1>8, <1>9, <1>10, <1>11, <1>12, <1>13,
     <1>14, <1>15, <1>16 DEF Next

\* A 200 for a decision is given only to the body that really resumed the engine.
THEOREM AcksAreHonest == Spec => []AckHonest
<1>1. HonestInv => AckHonest
  BY DEF HonestInv, Honest, AckHonest
<1> QED
  BY <1>1, HonestInit, HonestNext, TypeCorrect, PTL DEF Spec

-----------------------------------------------------------------------------
(***************************************************************************)
(* A handled terminal holds nothing. Only a second start() of its id may   *)
(* hold the row and the ownership again, until that start() is refused.    *)
(***************************************************************************)
Freed(r) ==
  mem[r].handled =>
    /\ \A p \in Profiles : act[p] = r => starting[r] = "inserted" /\ r \in owned
    /\ starting[r] = "no" => r \notin owned

FreedInv == \A r \in Runs : Freed(r)

\* A run that keeps its entry and gets no row or ownership stays freed.
LEMMA FreedSame ==
  ASSUME NEW r \in Runs, Freed(r), mem'[r].handled => mem[r].handled,
         \A p \in Profiles : act'[p] = r => act[p] = r,
         UNCHANGED starting[r], r \in owned' <=> r \in owned
  PROVE  Freed(r)'
  BY DEF Freed

\* Every terminal branch of translate() clears the row and the ownership.
LEMMA FreedTranslated ==
  ASSUME TypeOK, FreedInv, NEW r \in Runs, NEW s \in Runs,
         NEW res \in {"suspended", "rejected"} \cup OverStatus,
         mem' = [mem EXCEPT ![r] = TranslatedState(@, r, res)],
         act' = TranslatedAct(r, res), owned' = TranslatedOwned(r, res),
         UNCHANGED starting
  PROVE  Freed(s)'
<1>1. mem[r] \in RunState /\ r # NoRun
  BY RunsAssumption DEF TypeOK
<1>2. CASE res = "suspended"
  <2>1. mem'[s].handled = mem[s].handled /\ act' = act /\ owned' = owned
    BY <1>1, <1>2 DEF TranslatedState, TranslatedAct, TranslatedOwned, TypeOK, RunState
  <2> QED
    BY <2>1, FreedSame DEF FreedInv
<1>3. CASE res # "suspended"
  <2>1. owned' = owned \ {r} /\ act' = ClearedOf(r)
    BY <1>3 DEF TranslatedAct, TranslatedOwned
  <2>2. \A p \in Profiles : act'[p] # r /\ (act'[p] = s => act[p] = s)
    BY <1>1, <2>1, RunsAssumption DEF ClearedOf
  <2>3. CASE s = r
    BY <2>1, <2>2, <2>3 DEF Freed
  <2>4. CASE s # r
    BY <2>1, <2>2, <2>4, FreedSame DEF FreedInv, TypeOK
  <2> QED
    BY <2>3, <2>4
<1> QED
  BY <1>2, <1>3

LEMMA FreedNext == FreedInv /\ TypeOK /\ [Next]_vars => FreedInv'
<1> SUFFICES ASSUME FreedInv, TypeOK, [Next]_vars, NEW s \in Runs PROVE Freed(s)'
  BY DEF FreedInv
<1>0. Freed(s) /\ mem[s] \in RunState /\ s # NoRun
  BY RunsAssumption DEF FreedInv, TypeOK
<1> USE <1>0 DEF history
<1>1. ASSUME NEW r \in Runs, StartRun(r) PROVE Freed(s)'
  <2>1. CASE s = r
    <3>1. mem[s].handled => \A p \in Profiles : act[p] # s
      BY <1>1, <2>1 DEF StartRun, Freed
    <3>2. starting'[s] \in {"inserted", "held"} /\ s \in owned' /\ mem' = mem
      BY <1>1, <2>1 DEF StartRun, TypeOK
    <3>3. starting'[s] = "held" => act' = act
      BY <1>1, <2>1 DEF StartRun, TypeOK
    <3> QED
      BY <3>1, <3>2, <3>3 DEF Freed
  <2>2. CASE s # r
    <3>1. \A p \in Profiles : act'[p] = s => act[p] = s
      BY <1>1, <2>2 DEF StartRun, TypeOK
    <3> QED
      BY <1>1, <2>2, <3>1, FreedSame DEF StartRun, TypeOK
  <2> QED
    BY <2>1, <2>2
<1>2. ASSUME NEW r \in Runs, StartRefused(r) PROVE Freed(s)'
  <2>1. \A p \in Profiles : act'[p] = s => act[p] = s
    BY <1>2 DEF StartRefused, ClaimUndone, ClearedOf, TypeOK
  <2>2. CASE s = r
    <3>1. mem[s].handled => \A p \in Profiles : act'[p] # s
      BY <1>2, <2>1, <2>2 DEF StartRefused, ClaimUndone, ClearedOf, Freed, TypeOK
    <3> QED
      BY <1>2, <2>2, <3>1 DEF StartRefused, Freed
  <2>3. CASE s # r
    BY <1>2, <2>1, <2>3, FreedSame DEF StartRefused, TypeOK
  <2> QED
    BY <2>2, <2>3
<1>3. ASSUME NEW r \in Runs, StartAccepted(r) PROVE Freed(s)'
  <2>1. CASE s = r
    BY <1>3, <2>1 DEF StartAccepted, Freed, Entry, TypeOK
  <2>2. CASE s # r
    BY <1>3, <2>2, FreedSame DEF StartAccepted, TypeOK
  <2> QED
    BY <2>1, <2>2
<1>4. ASSUME NEW r \in Runs, DeliverStart(r) PROVE Freed(s)'
  <2>1. drive[r].res \in {"suspended", "rejected"} \cup OverStatus
    BY <1>4 DEF DeliverStart, TypeOK, Drive
  <2> QED
    BY <1>4, <2>1, FreedTranslated DEF DeliverStart
<1>5. ASSUME NEW r \in Runs, DeliverResume(r) PROVE Freed(s)'
  <2>1. drive[r].res \in {"suspended", "rejected"} \cup OverStatus
    BY <1>5 DEF DeliverResume
  <2> QED
    BY <1>5, <2>1, FreedTranslated DEF DeliverResume
<1>6. ASSUME NEW r \in Runs, DeliverStartFault(r) \/ DeliverResumeFault(r) PROVE Freed(s)'
  <2>1. mem'[s].handled = mem[s].handled
    <3>1. mem'[s] \in {mem[s], [mem[s] EXCEPT !.terminal = TRUE],
                      [mem[s] EXCEPT !.pending = 0, !.terminal = TRUE]}
      <4>1. CASE DeliverStartFault(r)
        BY <4>1 DEF DeliverStartFault, TypeOK
      <4>2. CASE DeliverResumeFault(r)
        BY <4>2 DEF DeliverResumeFault, TypeOK
      <4> QED
        BY <1>6, <4>1, <4>2
    <3> QED
      BY <3>1 DEF RunState
  <2> QED
    BY <1>6, <2>1, FreedSame DEF DeliverStartFault, DeliverResumeFault
<1>7. ASSUME NEW r \in Runs,
             \/ \E o \in OverStatus \cup {"suspended"} : Settle(r, o)
             \/ \E row \in RejectedRow : Reject(r, row)
             \/ \E d \in Decisions, b \in Bodies : ReplayDecision(r, d, b) \/ SubmitDecision(r, d, b)
             \/ ResumeEngine(r) \/ ResumeThrows(r) \/ ResumeRejected(r)
      PROVE  Freed(s)'
  BY <1>7, FreedSame
  DEF Settle, Reject, ReplayDecision, SubmitDecision, ResumeEngine, ResumeThrows, ResumeRejected
<1>8. CASE Crash
  BY <1>8 DEF Crash, Freed, NoState
<1>9. ASSUME NEW young \in SUBSET Runs, NEW uncanceled \in SUBSET Runs, BootRecover(young, uncanceled)
      PROVE  Freed(s)'
  BY <1>9, FreedSame DEF BootRecover
<1>10. CASE BootServe
  <2>1. mem'[s].handled => mem[s].handled
    BY <1>10 DEF BootServe, Entry
  <2>2. \A p \in Profiles : act'[p] = s => act[p] = s
    BY <1>10 DEF BootServe
  <2> QED
    BY <1>10, <2>1, <2>2, FreedSame DEF BootServe
<1>11. CASE UNCHANGED vars
  BY <1>11, FreedSame DEF vars
<1> QED
  BY <1>1, <1>2, <1>3, <1>4, <1>5, <1>6, <1>7, <1>8, <1>9, <1>10, <1>11 DEF Next

\* Where the terminal hook ran to its end the profile can start its next run.
THEOREM TerminalsRelease == Spec => []TerminalFreesProfile
<1>1. Init => FreedInv
  BY DEF Init, FreedInv, Freed, NoState
<1>2. FreedInv => TerminalFreesProfile
  BY DEF FreedInv, Freed, TerminalFreesProfile
<1> QED
  BY <1>1, <1>2, FreedNext, TypeCorrect, PTL DEF Spec

-----------------------------------------------------------------------------
(***************************************************************************)
(* The gate an answer drives. A pending decision names the suspension it   *)
(* was minted for until the engine has suspended again, and a run executes *)
(* only while its row says so: a resume meets the gate its form showed.    *)
(***************************************************************************)
SeenGate(r) ==
  /\ Executing(r) => wf[r] = "running"
  /\ drive[r].by \in {"start", "restart"} => mem[r].pending = 0
  /\ drive[r].by \in {"dispatch", "resume"} => mem[r].pending = drive[r].dec
  /\ drive[r].by \in {"none", "dispatch"} => drive[r].res = "none"
  /\ mem[r].pending # 0 /\ drive[r].res # "suspended" => minted[r][mem[r].pending] = gate[r]
  /\ starting[r] # "no" => proc = "up"
  /\ proc = "down" => drive[r].by = "none" /\ mem[r].pending = 0
  /\ proc = "booting" /\ r \in recovery.suspended => drive[r].by = "none"

SeenInv == \A r \in Runs : SeenGate(r)

\* A run of which the step changes neither row, promise nor decision.
LEMMA SeenSame ==
  ASSUME NEW r \in Runs, SeenGate(r), proc' = proc, recovery' = recovery,
         mem'[r].pending = mem[r].pending, starting'[r] \in {starting[r], "no"},
         UNCHANGED <<minted[r], drive[r], gate[r], wf[r]>>
  PROVE  SeenGate(r)'
  BY DEF SeenGate, Executing

\* A promise that settles without a new gate, or a promise nobody awaits.
LEMMA SeenSettles ==
  ASSUME NEW r \in Runs, SeenGate(r), TypeOK, Executing(r), proc' = proc, recovery' = recovery,
         NEW res \in {"suspended", "rejected"} \cup OverStatus,
         drive'[r] = IF drive[r].by = "restart" THEN Idle ELSE [drive[r] EXCEPT !.res = res],
         gate'[r] = gate[r] \/ res = "suspended",
         UNCHANGED <<mem[r], minted[r], starting[r]>>
  PROVE  SeenGate(r)'
<1>1. drive[r] \in Drive /\ drive[r].by \in {"start", "resume", "restart"} /\ drive[r].res = "none"
  BY DEF TypeOK, Executing
<1>2. CASE drive[r].by = "restart"
  <2>1. drive'[r] = Idle /\ mem'[r].pending = 0
    BY <1>2 DEF SeenGate
  <2> QED
    BY <2>1 DEF SeenGate, Executing, Idle
<1>3. CASE drive[r].by # "restart"
  <2>1. drive'[r].by = drive[r].by /\ drive'[r].res = res /\ drive'[r].dec = drive[r].dec
    BY <1>1, <1>3 DEF Drive
  <2>2. res # "none" /\ res # "running"
    BY DEF OverStatus
  <2>3. proc # "down" /\ ~ (proc = "booting" /\ r \in recovery.suspended)
    BY <1>1 DEF SeenGate
  <2> QED
    BY <1>1, <2>1, <2>2, <2>3 DEF SeenGate, Executing
<1> QED
  BY <1>2, <1>3

\* translate() mints the decision of the gate the run is parked at, or none is pending.
LEMMA SeenDelivers ==
  ASSUME NEW r \in Runs, SeenGate(r), TypeOK, proc' = proc, recovery' = recovery,
         NEW res \in {"suspended", "rejected"} \cup OverStatus, drive[r].by # "none",
         mem'[r] = TranslatedState(mem[r], r, res), minted' = TranslatedMint(r, res),
         drive'[r] = Idle, UNCHANGED <<gate[r], wf[r], starting[r]>>
  PROVE  SeenGate(r)'
<1>1. mem[r] \in RunState /\ minted[r] \in Seq(0..MaxGates) /\ gate[r] \in 0..MaxGates
  BY DEF TypeOK
<1>2. CASE res = "suspended"
  <2>1. mem'[r].pending = Len(minted[r]) + 1
    BY <1>1, <1>2 DEF TranslatedState, RunState
  <2>2. minted'[r] = Append(minted[r], gate[r])
    <3>1. minted \in [Runs -> Seq(0..MaxGates)]
      BY DEF TypeOK
    <3>2. minted' = [minted EXCEPT ![r] = Append(minted[r], gate[r])]
      BY <1>2 DEF TranslatedMint
    <3> QED
      BY <3>1, <3>2
  <2>3. minted'[r][mem'[r].pending] = gate[r]
    <3>1. Append(minted[r], gate[r])[Len(minted[r]) + 1] = gate[r]
      BY <1>1
    <3> QED
      BY <2>1, <2>2, <3>1
  <2> QED
    BY <2>3 DEF SeenGate, Executing, Idle
<1>3. CASE res # "suspended"
  <2>1. mem'[r].pending = 0
    BY <1>1, <1>3 DEF TranslatedState, RunState
  <2> QED
    BY <2>1 DEF SeenGate, Executing, Idle
<1> QED
  BY <1>2, <1>3

LEMMA SeenNext == SeenInv /\ HonestInv /\ TypeOK /\ [Next]_vars => SeenInv'
<1> SUFFICES ASSUME SeenInv, HonestInv, TypeOK, [Next]_vars, NEW s \in Runs PROVE SeenGate(s)'
  BY DEF SeenInv
<1>0. /\ SeenGate(s) /\ Honest(s) /\ mem[s] \in RunState /\ drive[s] \in Drive
      /\ 0 \notin Decisions
  BY RunsAssumption DEF SeenInv, HonestInv, TypeOK, Decisions
<1> USE <1>0 DEF history
<1>1. ASSUME NEW r \in Runs, StartRun(r) PROVE SeenGate(s)'
  BY <1>1 DEF StartRun, SeenGate, Executing, TypeOK
<1>2. ASSUME NEW r \in Runs, StartRefused(r) PROVE SeenGate(s)'
  <2>1. starting'[s] \in {starting[s], "no"}
    BY <1>2 DEF StartRefused, TypeOK
  <2> QED
    BY <1>2, <2>1, SeenSame DEF StartRefused
<1>3. ASSUME NEW r \in Runs, StartAccepted(r) PROVE SeenGate(s)'
  <2>1. CASE s = r
    <3>1. /\ mem'[s].pending = 0 /\ wf'[s] = "running" /\ starting'[s] = "no"
          /\ drive'[s].by = "start" /\ drive'[s].res = "none"
      BY <1>3, <2>1 DEF StartAccepted, TypeOK, Entry
    <3>2. proc = "up" /\ proc' = proc
      BY <1>3, <2>1 DEF StartAccepted, SeenGate
    <3> QED
      BY <3>1, <3>2 DEF SeenGate, Executing
  <2>2. CASE s # r
    BY <1>3, <2>2, SeenSame DEF StartAccepted, TypeOK
  <2> QED
    BY <2>1, <2>2
<1>4. ASSUME NEW r \in Runs, NEW o \in OverStatus \cup {"suspended"}, Settle(r, o) PROVE SeenGate(s)'
  <2>1. CASE s = r
    <3>1. drive'[s] = IF drive[s].by = "restart" THEN Idle ELSE [drive[s] EXCEPT !.res = o]
      BY <1>4, <2>1 DEF Settle, TypeOK
    <3> QED
      BY <1>4, <2>1, <3>1, SeenSettles DEF Settle
  <2>2. CASE s # r
    BY <1>4, <2>2, SeenSame DEF Settle, TypeOK
  <2> QED
    BY <2>1, <2>2
<1>5. ASSUME NEW r \in Runs, NEW row \in RejectedRow, Reject(r, row) PROVE SeenGate(s)'
  <2>1. CASE s = r
    <3>1. drive'[s] = IF drive[s].by = "restart" THEN Idle ELSE [drive[s] EXCEPT !.res = "rejected"]
      BY <1>5, <2>1 DEF Reject, TypeOK
    <3> QED
      BY <1>5, <2>1, <3>1, SeenSettles DEF Reject
  <2>2. CASE s # r
    BY <1>5, <2>2, SeenSame DEF Reject, TypeOK
  <2> QED
    BY <2>1, <2>2
<1>6. ASSUME NEW r \in Runs, DeliverStart(r) \/ DeliverResume(r) PROVE SeenGate(s)'
  <2>1. drive[r].res \in {"suspended", "rejected"} \cup OverStatus /\ proc' = proc /\ recovery' = recovery
    BY <1>6 DEF DeliverStart, DeliverResume, TypeOK, Drive
  <2>2. CASE s = r
    <3>1. mem'[s] = TranslatedState(mem[s], s, drive[s].res) /\ minted' = TranslatedMint(s, drive[s].res)
      BY <1>6, <2>2 DEF DeliverStart, DeliverResume, TypeOK
    <3>2. drive[s].by # "none" /\ drive'[s] = Idle /\ UNCHANGED <<gate[s], wf[s], starting[s]>>
      BY <1>6, <2>2 DEF DeliverStart, DeliverResume, TypeOK
    <3> QED
      BY <2>1, <2>2, <3>1, <3>2, SeenDelivers
  <2>3. CASE s # r
    <3>1. mem'[s] = mem[s] /\ minted'[s] = minted[s] /\ drive'[s] = drive[s]
      BY <1>6, <2>3 DEF DeliverStart, DeliverResume, TranslatedMint, TypeOK
    <3> QED
      BY <1>6, <2>1, <3>1, SeenSame DEF DeliverStart, DeliverResume
  <2> QED
    BY <2>2, <2>3
<1>7. ASSUME NEW r \in Runs, DeliverStartFault(r) \/ DeliverResumeFault(r) PROVE SeenGate(s)'
  <2>1. CASE s = r
    <3>1. mem'[s].pending = 0
      <4>1. CASE DeliverStartFault(r)
        <5>1. mem[s].pending = 0 /\ mem'[s] = [mem[s] EXCEPT !.terminal = TRUE]
          BY <2>1, <4>1 DEF DeliverStartFault, TypeOK, SeenGate
        <5> QED
          BY <5>1 DEF RunState
      <4>2. CASE DeliverResumeFault(r)
        <5>1. mem'[s] = [mem[s] EXCEPT !.pending = 0, !.terminal = TRUE]
          BY <2>1, <4>2 DEF DeliverResumeFault, TypeOK
        <5> QED
          BY <5>1 DEF RunState
      <4> QED
        BY <1>7, <4>1, <4>2
    <3>2. drive'[s] = Idle /\ UNCHANGED <<gate, wf, starting, proc, recovery>>
      BY <1>7, <2>1 DEF DeliverStartFault, DeliverResumeFault, TypeOK
    <3> QED
      BY <3>1, <3>2 DEF SeenGate, Executing, Idle
  <2>2. CASE s # r
    BY <1>7, <2>2, SeenSame DEF DeliverStartFault, DeliverResumeFault, TypeOK
  <2> QED
    BY <2>1, <2>2
<1>8. ASSUME NEW r \in Runs, NEW d \in Decisions, NEW b \in Bodies, ReplayDecision(r, d, b)
      PROVE  SeenGate(s)'
  BY <1>8, SeenSame DEF ReplayDecision
<1>9. ASSUME NEW r \in Runs, NEW d \in Decisions, NEW b \in Bodies, SubmitDecision(r, d, b)
      PROVE  SeenGate(s)'
  <2>1. CASE s = r
    <3>1. mem[s].pending = d /\ d # 0 /\ claims[s][d].phase = "free" /\ proc = "up"
      BY <1>9, <2>1 DEF SubmitDecision, DecisionClaimable
    <3>2. drive[s].by = "none" /\ drive[s].res = "none"
      <4>1. drive[s].by \notin {"start", "restart"}
        BY <3>1 DEF SeenGate
      <4>2. drive[s].by \notin {"dispatch", "resume"}
        BY <3>1 DEF SeenGate, Honest, InDispatch
      <4> QED
        BY <4>1, <4>2 DEF Drive, SeenGate
    <3>3. drive'[s] = [by |-> "dispatch", res |-> "none", dec |-> d]
      BY <1>9, <2>1 DEF SubmitDecision, TypeOK
    <3>4. UNCHANGED <<mem, minted, gate, wf, starting, proc, recovery>>
      BY <1>9 DEF SubmitDecision
    <3> QED
      BY <3>1, <3>2, <3>3, <3>4 DEF SeenGate, Executing
  <2>2. CASE s # r
    BY <1>9, <2>2, SeenSame DEF SubmitDecision, TypeOK
  <2> QED
    BY <2>1, <2>2
<1>10. ASSUME NEW r \in Runs, ResumeEngine(r) PROVE SeenGate(s)'
  <2>1. CASE s = r
    <3>1. drive'[s] = [drive[s] EXCEPT !.by = "resume"] /\ drive[s].by = "dispatch" /\ wf'[s] = "running"
      BY <1>10, <2>1 DEF ResumeEngine, TypeOK
    <3>2. drive'[s].by = "resume" /\ drive'[s].res = drive[s].res /\ drive'[s].dec = drive[s].dec
      BY <3>1 DEF Drive
    <3>3. UNCHANGED <<mem, minted, gate, starting, proc, recovery>>
      BY <1>10 DEF ResumeEngine
    <3> QED
      BY <3>1, <3>2, <3>3 DEF SeenGate, Executing
  <2>2. CASE s # r
    BY <1>10, <2>2, SeenSame DEF ResumeEngine, TypeOK
  <2> QED
    BY <2>1, <2>2
<1>11. ASSUME NEW r \in Runs, ResumeThrows(r) \/ ResumeRejected(r) PROVE SeenGate(s)'
  <2>1. CASE s = r
    <3>1. drive'[s] = Idle /\ drive[s].res # "suspended"
      BY <1>11, <2>1 DEF ResumeThrows, ResumeRejected, TypeOK, SeenGate
    <3>2. UNCHANGED <<mem, minted, gate, wf, starting, proc, recovery>>
      BY <1>11 DEF ResumeThrows, ResumeRejected
    <3> QED
      BY <3>1, <3>2 DEF SeenGate, Executing, Idle
  <2>2. CASE s # r
    BY <1>11, <2>2, SeenSame DEF ResumeThrows, ResumeRejected, TypeOK
  <2> QED
    BY <2>1, <2>2
<1>12. CASE Crash
  <2>1. /\ mem'[s].pending = 0 /\ drive'[s] = Idle /\ starting'[s] = "no" /\ proc' = "down"
    BY <1>12 DEF Crash, NoState
  <2> QED
    BY <2>1 DEF SeenGate, Executing, Idle
<1>13. ASSUME NEW young \in SUBSET Runs, NEW uncanceled \in SUBSET Runs, BootRecover(young, uncanceled)
       PROVE  SeenGate(s)'
  <2>1. proc = "down" /\ proc' = "booting" /\ drive[s].by = "none" /\ starting[s] = "no"
    BY <1>13 DEF BootRecover, SeenGate
  <2>2. UNCHANGED <<mem, minted, gate, starting>>
    BY <1>13 DEF BootRecover
  <2>3. CASE s \in young
    <3>1. wf[s] = "running" /\ wf'[s] = "running" /\ mem[s].pending = 0
      BY <1>13, <2>1, <2>3 DEF BootRecover, SeenGate
    <3>2. drive'[s].by = "restart" /\ drive'[s].res = "none" /\ s \notin recovery'.suspended
      BY <1>13, <2>3, <3>1 DEF BootRecover, Idle
    <3> QED
      BY <2>1, <2>2, <3>1, <3>2 DEF SeenGate, Executing
  <2>4. CASE s \notin young
    <3>1. drive'[s] = drive[s]
      BY <1>13, <2>4 DEF BootRecover
    <3> QED
      BY <2>1, <2>2, <3>1 DEF SeenGate, Executing
  <2> QED
    BY <2>3, <2>4
<1>14. CASE BootServe
  <2>1. proc = "booting" /\ proc' = "up" /\ UNCHANGED <<wf, gate, starting, drive>>
    BY <1>14 DEF BootServe
  <2>2. CASE s \in Reattached
    <3>1. /\ mem'[s].pending = Len(minted[s]) + 1 /\ minted'[s] = Append(minted[s], gate[s])
          /\ s \in recovery.suspended
      BY <1>14, <2>2 DEF BootServe, Entry, Reattached
    <3>2. minted'[s][mem'[s].pending] = gate[s]
      BY <3>1 DEF TypeOK
    <3>3. drive[s].by = "none"
      BY <2>1, <3>1 DEF SeenGate
    <3> QED
      BY <2>1, <3>2, <3>3 DEF SeenGate, Executing
  <2>3. CASE s \notin Reattached
    <3>1. mem'[s] = mem[s] /\ minted'[s] = minted[s]
      BY <1>14, <2>3 DEF BootServe
    <3> QED
      BY <2>1, <3>1 DEF SeenGate, Executing
  <2> QED
    BY <2>2, <2>3
<1>15. CASE UNCHANGED vars
  BY <1>15, SeenSame DEF vars
<1> QED
  BY <1>1, <1>2, <1>3, <1>4, <1>5, <1>6, <1>7, <1>8, <1>9, <1>10, <1>11, <1>12, <1>13,
     <1>14, <1>15 DEF Next

\* Of the steps that write a row, only a resume takes a suspended run to running.
LEMMA OnlyResumeDrives ==
  ASSUME SeenInv, TypeOK, [Next]_vars, NEW r \in Runs, wf[r] = "suspended", wf'[r] = "running"
  PROVE  ResumeEngine(r)
<1>1. \A s \in Runs : ~ (s = r /\ Executing(s)) /\ ~ (s = r /\ StartAccepted(s))
  BY DEF SeenInv, SeenGate, StartAccepted, KnownId
<1>2. ASSUME NEW s \in Runs, StartAccepted(s) PROVE FALSE
  BY <1>1, <1>2 DEF StartAccepted, TypeOK
<1>3. ASSUME NEW s \in Runs, NEW o \in OverStatus \cup {"suspended"}, Settle(s, o) PROVE FALSE
  BY <1>1, <1>3 DEF Settle, TypeOK
<1>4. ASSUME NEW s \in Runs, NEW row \in RejectedRow, Reject(s, row) PROVE FALSE
  BY <1>1, <1>4 DEF Reject, TypeOK
<1>5. ASSUME NEW young \in SUBSET Runs, NEW uncanceled \in SUBSET Runs, BootRecover(young, uncanceled)
      PROVE  FALSE
  BY <1>5 DEF BootRecover
<1>6. PICK s \in Runs : ResumeEngine(s)
  BY <1>2, <1>3, <1>4, <1>5, RowMoves
<1>7. s = r
  BY <1>6 DEF ResumeEngine, TypeOK
<1> QED
  BY <1>6, <1>7

\* An answer resumes the engine at the gate its form was minted for, whatever the
\* clients post, the engine rejects and the crashes interrupt.
THEOREM AnswersMeetTheirGate == Spec => AnswersSeenGate
<1>1. Init => SeenInv
  BY DEF Init, SeenInv, SeenGate, Executing, NoState, Idle
<1>2. SeenInv /\ HonestInv /\ TypeOK /\ [Next]_vars
        => [\A r \in Runs : wf[r] = "suspended" /\ wf'[r] = "running" =>
              minted[r][drive[r].dec] = gate[r]]_vars
  <2> SUFFICES ASSUME SeenInv, HonestInv, TypeOK, [Next]_vars,
                      NEW r \in Runs, wf[r] = "suspended", wf'[r] = "running"
               PROVE  minted[r][drive[r].dec] = gate[r]
    OBVIOUS
  <2>1. ResumeEngine(r) /\ SeenGate(r) /\ Honest(r) /\ 0 \notin Decisions
    BY OnlyResumeDrives, RunsAssumption DEF SeenInv, HonestInv, Decisions
  <2>2. drive[r].by = "dispatch" /\ drive[r].dec \in Decisions
    BY <2>1 DEF ResumeEngine, Honest
  <2> QED
    BY <2>1, <2>2 DEF SeenGate
<1> QED
  BY <1>1, <1>2, SeenNext, HonestInit, HonestNext, TypeCorrect, PTL DEF Spec, AnswersSeenGate
=============================================================================
