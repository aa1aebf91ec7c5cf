------------------------ MODULE QuotePipelineProofs ------------------------
(***************************************************************************)
(* For any replies, modes, listings, readers and bounds: the compare       *)
(* watermark names only ranked quotes, no input is swallowed by the        *)
(* admission watermark, asks are covered by approvals, and a pass that     *)
(* logs "ok" has dealt with all its detect saw. The last needs what the    *)
(* extraction in progress has on its list, the order of the steps, and     *)
(* what the audit and the compare in progress hold (OkInv).                *)
(***************************************************************************)
EXTENDS QuotePipeline, TLAPS

\* The pass is well formed, and a pass that asks has a listing.
WellFormed(p) ==
    /\ p \in Passes
    /\ p.at \in {"gate", "send", "record"} => p.target \in Listings

Shape ==
    /\ WellFormed(pass)
    /\ status \in [Replies -> {"absent", "pending", "succeeded", "failed"}]
    /\ quote \in [Keys -> {"none", "reply"} \union Listings]

USE PipelineAssumption

----------------------------------------------------------------------------
\* A record of a pass keeps its shape when fields get members of their sets.
LEMMA PassMoves ==
    ASSUME WellFormed(pass), Next
    PROVE  WellFormed(pass')
<1>1. WellFormed(NoPass)
  BY DEF WellFormed, Passes, NoPass, Nothing
<1>2. CASE UNCHANGED pass
  BY <1>2
<1>3. CASE Detect
  <2>1. /\ Flags \subseteq Steps /\ Unread \subseteq Replies
        /\ Quotes \ audited \subseteq Keys /\ Quotes \subseteq Keys
    BY DEF Flags, Unread, Quotes
  <2>2. CASE pass.target = NoListing
    <3>1. pass' = [pass EXCEPT !.at = "fan", !.flags = Flags, !.todo = Flags,
                               !.saw = [unread |-> Unread, unaudited |-> Quotes \ audited,
                                        quotes |-> Quotes]]
      BY <1>3, <2>2 DEF Detect
    <3> QED
      BY <3>1, <2>1 DEF WellFormed, Passes
  <2>3. CASE pass.target # NoListing
    <3>1. pass' = NoPass \/ pass' = [pass EXCEPT !.at = "gate"]
      BY <1>3, <2>3 DEF Detect
    <3> QED
      BY <3>1, <2>3, <1>1 DEF WellFormed, Passes
  <2> QED
    BY <2>2, <2>3
<1>4. CASE ScrapeChild
  <2>1. \/ pass' = [pass EXCEPT !.todo = @ \ {Scrape}, !.done = @ \union {Scrape}]
        \/ pass' = [pass EXCEPT !.todo = @ \ {Scrape}]
    BY <1>4 DEF ScrapeChild
  <2>2. Scrape \in Steps
    BY DEF Scrape, Steps
  <2>3. CASE pass' = [pass EXCEPT !.todo = @ \ {Scrape}, !.done = @ \union {Scrape}]
    BY <2>2, <2>3 DEF WellFormed, Passes
  <2>4. CASE pass' = [pass EXCEPT !.todo = @ \ {Scrape}]
    BY <2>4 DEF WellFormed, Passes
  <2> QED
    BY <2>1, <2>3, <2>4
<1>5. CASE StartAudit \/ StartCompare
  <2>1. RecentUnaudited \in SUBSET Keys /\ Quotes \in SUBSET Keys
    BY DEF RecentUnaudited, Quotes
  <2>2. CASE StartAudit
    BY <2>1, <2>2 DEF StartAudit, WellFormed, Passes
  <2>3. CASE StartCompare
    BY <2>1, <2>3 DEF StartCompare, WellFormed, Passes
  <2> QED
    BY <1>5, <2>2, <2>3
<1>6. CASE PersistAudits \/ CompareDone
  <2>1. Audit \in Steps /\ Compare \in Steps
    BY DEF Audit, Compare, Steps
  <2>2. CASE PersistAudits
    BY <2>1, <2>2 DEF PersistAudits, WellFormed, Passes
  <2>3. CASE CompareDone
    BY <2>1, <2>3 DEF CompareDone, WellFormed, Passes
  <2> QED
    BY <1>6, <2>2, <2>3
<1>7. CASE RankQuotes \/ ChildFails
  <2>1. \/ pass' = [pass EXCEPT !.at = "compared"]
        \/ pass' = [pass EXCEPT !.at = "fan", !.held = {}]
    BY <1>7 DEF RankQuotes, ChildFails
  <2>2. CASE pass' = [pass EXCEPT !.at = "compared"]
    BY <2>2 DEF WellFormed, Passes
  <2>3. CASE pass' = [pass EXCEPT !.at = "fan", !.held = {}]
    BY <2>3 DEF WellFormed, Passes
  <2> QED
    BY <2>1, <2>2, <2>3
<1>8. CASE \E w \in Readers : ReadDone(w) \/ ReaderFails(w) \/ StartExtract(w)
  <2>1. Extract \in Steps
    BY DEF Extract, Steps
  <2>2. \/ UNCHANGED pass
        \/ pass' = [pass EXCEPT !.at = "fan", !.done = @ \union {Extract}]
        \/ pass' = [pass EXCEPT !.at = "fan"]
        \/ pass' = [pass EXCEPT !.at = "child", !.todo = @ \ {Extract}]
    BY <1>8 DEF ReadDone, ReaderFails, StartExtract
  <2>3. CASE pass' = [pass EXCEPT !.at = "fan", !.done = @ \union {Extract}]
    BY <2>1, <2>3 DEF WellFormed, Passes
  <2>4. CASE pass' = [pass EXCEPT !.at = "fan"]
    BY <2>4 DEF WellFormed, Passes
  <2>5. CASE pass' = [pass EXCEPT !.at = "child", !.todo = @ \ {Extract}]
    BY <2>5 DEF WellFormed, Passes
  <2> QED
    BY <2>2, <2>3, <2>4, <2>5
<1>9. CASE \E l \in Listings : StartTargeted(l)
  <2>1. PICK l \in Listings : pass' = [NoPass EXCEPT !.at = "detect", !.target = l]
    BY <1>9 DEF StartTargeted
  <2>2. NoPass \in Passes
    BY <1>1 DEF WellFormed
  <2> QED
    BY <2>1, <2>2 DEF WellFormed, Passes
<1>10. CASE Approve
  <2>1. pass \in Passes /\ pass.at = "gate" /\ pass.target \in Listings
    BY <1>10 DEF Approve, WellFormed
  <2>2. pass' = [pass EXCEPT !.at = "send"]
    BY <1>10 DEF Approve
  <2> QED
    BY <2>1, <2>2 DEF WellFormed, Passes
<1>11. CASE SendAsk
  <2>1. PICK m \in Replies : pass' = [pass EXCEPT !.at = "record", !.about = m]
    BY <1>11 DEF SendAsk, Filed
  <2>2. pass \in Passes /\ pass.at = "send"
    BY <1>11 DEF SendAsk, WellFormed
  <2>3. pass' \in Passes
    BY <2>1, <2>2 DEF Passes
  <2>4. pass'.at = "record"
    BY <2>1, <2>2 DEF Passes
  <2> QED
    BY <2>1, <2>2, <2>3, <2>4 DEF WellFormed, Passes
<1>12. CASE TickStarts
  BY <1>12, <1>1 DEF TickStarts, WellFormed, Passes
<1>13. CASE CrashAndBoot
  <2>1. pass' = NoPass \/ pass' = Restarted(pass)
    BY <1>13 DEF CrashAndBoot
  <2>2. \/ Restarted(pass) = pass
        \/ pass.at = "record" /\ Restarted(pass) = [pass EXCEPT !.at = "send", !.about = 0]
        \/ Restarted(pass) = [pass EXCEPT !.at = "fan", !.todo = pass.flags, !.done = {}, !.held = {}]
    BY DEF Restarted
  <2>3. [pass EXCEPT !.at = "fan", !.todo = pass.flags, !.done = {}, !.held = {}] \in Passes
    BY DEF WellFormed, Passes
  <2>4. pass.at = "record" => WellFormed([pass EXCEPT !.at = "send", !.about = 0])
    BY DEF WellFormed, Passes
  <2>5. WellFormed([pass EXCEPT !.at = "fan", !.todo = pass.flags, !.done = {}, !.held = {}])
    BY <2>3 DEF WellFormed, Passes
  <2>6. WellFormed(Restarted(pass))
    BY <2>2, <2>4, <2>5
  <2> QED
    BY <2>1, <2>6, <1>1
<1>14. CASE LogCompletion \/ Decline \/ SendFails \/ RecordAsk \/ RecordCollides
  BY <1>14, <1>1 DEF LogCompletion, Decline, Declined, SendFails, RecordAsk, RecordCollides
<1>15. CASE \/ \E m \in Replies : Arrive(m)
            \/ WeekPasses
            \/ \E w \in Readers : ReadAlone(w) \/ Load(w)
            \/ \E w \in Readers, m \in Replies : ReadReply(w, m)
            \/ TickDecides \/ TickRecords \/ FloorElapses
  <2>1. UNCHANGED pass
    BY <1>15 DEF Arrive, WeekPasses, ReadAlone, Load, ReadReply, TickDecides, TickRecords,
                 FloorElapses, passVars
  <2> QED
    BY <2>1
<1> QED
  BY <1>3, <1>4, <1>5, <1>6, <1>7, <1>8, <1>9, <1>10, <1>11, <1>12, <1>13, <1>14, <1>15 DEF Next

\* Who writes the replies and the quotes, and that neither ever goes away.
LEMMA BooksGrow ==
    ASSUME Shape, Next
    PROVE  Shape' /\ Filed \subseteq Filed' /\ Quotes \subseteq Quotes'
<1>1. WellFormed(pass')
  BY PassMoves DEF Shape
<1>2. ASSUME NEW m \in Replies, Arrive(m)
      PROVE  Shape' /\ Filed \subseteq Filed' /\ Quotes \subseteq Quotes'
  BY <1>1, <1>2 DEF Shape, Arrive, Filed, Quotes
<1>3. ASSUME NEW w \in Readers, NEW m \in Replies, ReadReply(w, m)
      PROVE  Shape' /\ Filed \subseteq Filed' /\ Quotes \subseteq Quotes'
  <2>1. status' \in [Replies -> {"absent", "pending", "succeeded", "failed"}]
        /\ Filed \subseteq Filed'
    BY <1>3 DEF Shape, ReadReply, Filed
  <2>2. CASE UNCHANGED quote
    BY <2>1, <2>2, <1>1 DEF Shape, Quotes
  <2>3. CASE \E modes \in SUBSET Modes : quote' = Upserted(m, modes)
    BY <2>1, <2>3, <1>1 DEF Shape, Quotes, Upserted
  <2> QED
    BY <2>2, <2>3, <1>3 DEF ReadReply
<1>4. CASE RecordAsk
  <2>1. pass.target \in Listings /\ UNCHANGED status
    BY <1>4 DEF Shape, WellFormed, RecordAsk, replyVars
  <2>2. quote' = [quote EXCEPT ![RecordKey] = pass.target]
    BY <1>4 DEF RecordAsk
  <2>3. quote' \in [Keys -> {"none", "reply"} \union Listings] /\ Quotes \subseteq Quotes'
    BY <2>1, <2>2 DEF Shape, Quotes
  <2> QED
    BY <1>1, <2>1, <2>3 DEF Shape, Filed
<1>5. CASE UNCHANGED <<status, quote>>
  BY <1>1, <1>5 DEF Shape, Filed, Quotes
<1>6. \/ \E m \in Replies : Arrive(m)
      \/ \E w \in Readers, m \in Replies : ReadReply(w, m)
      \/ RecordAsk
      \/ UNCHANGED <<status, quote>>
  BY DEF Next, WeekPasses, ReadAlone, Load, ReadDone, ReaderFails, StartExtract, Detect, ScrapeChild,
         StartAudit, PersistAudits, StartCompare, RankQuotes, CompareDone, ChildFails, LogCompletion,
         StartTargeted, Approve, Decline, SendAsk, SendFails, RecordCollides, TickDecides, TickStarts,
         TickRecords, FloorElapses, CrashAndBoot, replyVars
<1> QED
  BY <1>2, <1>3, <1>4, <1>5, <1>6

LEMMA ShapeInit == Init => Shape
BY DEF Init, Shape, WellFormed, Passes, NoPass, Nothing

----------------------------------------------------------------------------
\* The frontier a compare captured is ranked when the child has read it.
RankInv ==
    /\ pass.held \subseteq Quotes
    /\ pass.at = "compared" => pass.held \subseteq ranked
    /\ ComparedWasRanked

LEMMA RankStep ==
    ASSUME Shape, RankInv, [Next]_vars
    PROVE  RankInv'
<1> USE DEF WellFormed, Passes
<1>1. (Shape' /\ Quotes \subseteq Quotes') \/ UNCHANGED vars
  BY BooksGrow
<1>2. CASE UNCHANGED vars
  BY <1>2 DEF vars, RankInv, ComparedWasRanked, Quotes
<1> SUFFICES ASSUME Next, Quotes \subseteq Quotes' PROVE RankInv'
  BY <1>1, <1>2
<1>3. CASE StartCompare
  BY <1>3 DEF StartCompare, Shape, RankInv, ComparedWasRanked, Quotes
<1>4. CASE RankQuotes
  BY <1>4 DEF RankQuotes, Shape, RankInv, ComparedWasRanked
<1>5. CASE CompareDone
  BY <1>5 DEF CompareDone, WatermarkOf, Shape, RankInv, ComparedWasRanked
<1>6. CASE StartAudit
  BY <1>6 DEF StartAudit, RecentUnaudited, Shape, RankInv, ComparedWasRanked
<1>7. CASE CrashAndBoot
  <2>1. UNCHANGED <<compared, ranked>> /\ (pass' = NoPass \/ pass' = Restarted(pass))
    BY <1>7 DEF CrashAndBoot
  <2>2. NoPass.held = {} /\ NoPass.at = "idle"
    BY DEF NoPass
  <2>3. Restarted(pass).held \subseteq pass.held /\ Restarted(pass).at # "compared"
    <3>1. CASE pass.at \in {"idle", "detect", "gate", "send"}
      BY <3>1 DEF Restarted
    <3>2. CASE pass.at = "record"
      BY <3>2 DEF Restarted, Shape
    <3>3. CASE pass.at \notin {"idle", "detect", "gate", "send", "record"}
      BY <3>3 DEF Restarted, Shape
    <3> QED
      BY <3>1, <3>2, <3>3
  <2>4. pass'.held \subseteq pass.held /\ pass'.at # "compared"
    BY <2>1, <2>2, <2>3
  <2> QED
    BY <2>1, <2>4 DEF RankInv, ComparedWasRanked
<1>8. CASE /\ UNCHANGED <<compared, ranked>>
           /\ \/ UNCHANGED pass
              \/ pass'.held \subseteq pass.held /\ pass'.at # "compared"
  BY <1>8 DEF RankInv, ComparedWasRanked
<1>9. CASE \/ \E m \in Replies : Arrive(m)
           \/ WeekPasses
           \/ \E w \in Readers : ReadAlone(w) \/ Load(w)
           \/ \E w \in Readers, m \in Replies : ReadReply(w, m)
           \/ TickDecides \/ TickRecords \/ FloorElapses
  <2>1. UNCHANGED <<pass, compared, ranked>>
    BY <1>9 DEF Arrive, WeekPasses, ReadAlone, Load, ReadReply, TickDecides, TickRecords,
                FloorElapses, passVars
  <2> QED
    BY <2>1, <1>8
<1>10. CASE \/ \E w \in Readers : ReadDone(w) \/ ReaderFails(w) \/ StartExtract(w)
            \/ Detect \/ ScrapeChild \/ PersistAudits \/ ChildFails \/ LogCompletion
  <2>1. UNCHANGED <<compared, ranked>>
    BY <1>10 DEF ReadDone, ReaderFails, StartExtract, Detect, ScrapeChild, PersistAudits, ChildFails,
                 LogCompletion
  <2>2. CASE \E w \in Readers : ReadDone(w) \/ ReaderFails(w) \/ StartExtract(w)
    <3>1. \/ UNCHANGED pass
          \/ pass' = [pass EXCEPT !.at = "fan", !.done = @ \union {Extract}]
          \/ pass' = [pass EXCEPT !.at = "fan"]
          \/ pass' = [pass EXCEPT !.at = "child", !.todo = @ \ {Extract}]
      BY <2>2 DEF ReadDone, ReaderFails, StartExtract
    <3>2. CASE pass' = [pass EXCEPT !.at = "fan", !.done = @ \union {Extract}]
      BY <3>2, <2>1, <1>8 DEF Shape
    <3>3. CASE pass' = [pass EXCEPT !.at = "fan"]
      BY <3>3, <2>1, <1>8 DEF Shape
    <3>4. CASE pass' = [pass EXCEPT !.at = "child", !.todo = @ \ {Extract}]
      BY <3>4, <2>1, <1>8 DEF Shape
    <3> QED
      BY <3>1, <3>2, <3>3, <3>4, <2>1, <1>8
  <2>3. CASE Detect \/ LogCompletion
    <3> DEFINE Sensed == [pass EXCEPT !.at = "fan", !.flags = Flags, !.todo = Flags,
                          !.saw = [unread |-> Unread, unaudited |-> Quotes \ audited,
                                   quotes |-> Quotes]]
    <3>1. pass' = NoPass \/ pass' = Sensed \/ pass' = [pass EXCEPT !.at = "gate"]
      BY <2>3 DEF Detect, LogCompletion
    <3>2. NoPass.held = {} /\ NoPass.at = "idle"
      BY DEF NoPass
    <3>3. Sensed.held = pass.held /\ Sensed.at = "fan"
      BY DEF Shape
    <3>4. [pass EXCEPT !.at = "gate"].held = pass.held /\ [pass EXCEPT !.at = "gate"].at = "gate"
      BY DEF Shape
    <3> HIDE DEF Sensed
    <3>5. pass'.held \subseteq pass.held /\ pass'.at # "compared"
      BY <3>1, <3>2, <3>3, <3>4
    <3> QED
      BY <3>5, <2>1, <1>8
  <2>4. CASE ScrapeChild
    <3>1. \/ pass' = [pass EXCEPT !.todo = @ \ {Scrape}, !.done = @ \union {Scrape}]
          \/ pass' = [pass EXCEPT !.todo = @ \ {Scrape}]
      BY <2>4 DEF ScrapeChild
    <3>2. pass'.held = pass.held /\ pass'.at = pass.at /\ pass.at = "fan"
      BY <3>1, <2>4 DEF Shape, ScrapeChild, NextChild
    <3> QED
      BY <3>2, <2>1, <1>8
  <2>5. CASE PersistAudits \/ ChildFails
    <3>1. pass'.held = {} /\ pass'.at = "fan"
      BY <2>5 DEF PersistAudits, ChildFails, Shape
    <3> QED
      BY <3>1, <2>1, <1>8
  <2> QED
    BY <1>10, <2>2, <2>3, <2>4, <2>5
<1>11. CASE \/ \E l \in Listings : StartTargeted(l)
            \/ Approve \/ Decline \/ SendAsk \/ SendFails \/ RecordAsk \/ RecordCollides \/ TickStarts
  <2>1. UNCHANGED <<compared, ranked>>
    BY <1>11 DEF StartTargeted, Approve, Decline, SendAsk, SendFails, RecordAsk, RecordCollides,
                 TickStarts
  <2>2. NoPass.held = {} /\ NoPass.at = "idle"
    BY DEF NoPass
  <2>3. [NoPass EXCEPT !.at = "detect"].held = {} /\ [NoPass EXCEPT !.at = "detect"].at = "detect"
    BY DEF NoPass
  <2>4. CASE \E l \in Listings : StartTargeted(l)
    <3>1. pass'.held = {} /\ pass'.at = "detect"
      BY <2>4 DEF StartTargeted, NoPass
    <3> QED
      BY <3>1, <2>1, <1>8
  <2>5. CASE Approve
    <3>1. pass'.held = pass.held /\ pass'.at = "send"
      BY <2>5 DEF Approve, Shape
    <3> QED
      BY <3>1, <2>1, <1>8
  <2>6. CASE SendAsk
    <3>1. pass'.held = pass.held /\ pass'.at = "record"
      BY <2>6 DEF SendAsk, Shape
    <3> QED
      BY <3>1, <2>1, <1>8
  <2>7. CASE Decline \/ SendFails \/ RecordAsk \/ RecordCollides
    <3>1. pass' = NoPass
      BY <2>7 DEF Decline, Declined, SendFails, RecordAsk, RecordCollides
    <3> QED
      BY <3>1, <2>2, <2>1, <1>8
  <2>8. CASE TickStarts
    <3>1. UNCHANGED pass \/ pass' = [NoPass EXCEPT !.at = "detect"]
      BY <2>8 DEF TickStarts
    <3> QED
      BY <3>1, <2>3, <2>1, <1>8
  <2> QED
    BY <1>11, <2>4, <2>5, <2>6, <2>7, <2>8
<1> QED
  BY <1>3, <1>4, <1>5, <1>6, <1>7, <1>9, <1>10, <1>11 DEF Next

(* A quote marked as compared has been read by a compare                   *)
(* (quotePipeline.ts:674).                                                 *)
THEOREM ComparedIsRanked == Spec => []ComparedWasRanked
<1>1. Init => Shape /\ RankInv
  BY ShapeInit DEF Init, RankInv, ComparedWasRanked, NoPass
<1>2. Shape /\ RankInv /\ [Next]_vars => (Shape /\ RankInv)'
  <2>1. ASSUME Shape, UNCHANGED vars PROVE Shape'
    BY <2>1 DEF Shape, vars
  <2> QED
    BY <2>1, BooksGrow, RankStep
<1>3. RankInv => ComparedWasRanked
  BY DEF RankInv
<1> QED
  BY <1>1, <1>2, <1>3, PTL DEF Spec

----------------------------------------------------------------------------
\* An approval not yet spent stands for the mail about to leave.
Owed == IF pass.at = "send" THEN 1 ELSE 0

AskInv ==
    /\ {asks, approvals, crashes} \subseteq Nat
    /\ asks + Owed <= approvals + crashes

LEMMA AskStep ==
    ASSUME Shape, AskInv, [Next]_vars
    PROVE  AskInv'
<1> USE DEF WellFormed, Passes
<1>1. asks \in Nat /\ approvals \in Nat /\ crashes \in Nat /\ Owed \in {0, 1} /\ Owed' \in {0, 1}
  BY DEF AskInv, Owed
<1>2. CASE UNCHANGED <<asks, approvals, crashes>> /\ (pass'.at = "send" => pass.at = "send")
  BY <1>1, <1>2 DEF AskInv, Owed
<1>3. CASE UNCHANGED vars
  BY <1>3, <1>2 DEF vars
<1>4. CASE Approve
  <2>1. asks' = asks /\ approvals' = approvals + 1 /\ crashes' = crashes
    BY <1>4 DEF Approve
  <2> QED
    BY <2>1, <1>1, <1>4 DEF Approve, AskInv, Owed
<1>5. CASE SendAsk
  <2>1. asks' = asks + 1 /\ approvals' = approvals /\ crashes' = crashes /\ pass.at = "send"
    BY <1>5 DEF SendAsk
  <2>2. pass'.at = "record"
    BY <1>5 DEF SendAsk, Shape
  <2> QED
    BY <2>1, <2>2, <1>1 DEF AskInv, Owed
<1>6. CASE CrashAndBoot
  <2>1. asks' = asks /\ approvals' = approvals /\ crashes' = crashes + 1
    BY <1>6 DEF CrashAndBoot, askVars
  <2> QED
    BY <2>1, <1>1 DEF AskInv, Owed
<1>7. CASE \/ \E m \in Replies : Arrive(m)
           \/ WeekPasses
           \/ \E w \in Readers : ReadAlone(w) \/ Load(w)
           \/ \E w \in Readers, m \in Replies : ReadReply(w, m)
           \/ TickDecides \/ TickRecords \/ FloorElapses
  <2>1. UNCHANGED <<pass, asks, approvals, crashes>>
    BY <1>7 DEF Arrive, WeekPasses, ReadAlone, Load, ReadReply, TickDecides, TickRecords,
                FloorElapses, passVars, askVars
  <2> QED
    BY <2>1, <1>2
<1>8. CASE \E w \in Readers : ReadDone(w) \/ ReaderFails(w) \/ StartExtract(w)
  <2>1. UNCHANGED <<asks, approvals, crashes>>
    BY <1>8 DEF ReadDone, ReaderFails, StartExtract, askVars
  <2>2. \/ UNCHANGED pass
        \/ pass' = [pass EXCEPT !.at = "fan", !.done = @ \union {Extract}]
        \/ pass' = [pass EXCEPT !.at = "fan"]
        \/ pass' = [pass EXCEPT !.at = "child", !.todo = @ \ {Extract}]
    BY <1>8 DEF ReadDone, ReaderFails, StartExtract
  <2>3. CASE pass' = [pass EXCEPT !.at = "fan", !.done = @ \union {Extract}]
    BY <2>3, <2>1, <1>2 DEF Shape
  <2>4. CASE pass' = [pass EXCEPT !.at = "fan"]
    BY <2>4, <2>1, <1>2 DEF Shape
  <2>5. CASE pass' = [pass EXCEPT !.at = "child", !.todo = @ \ {Extract}]
    BY <2>5, <2>1, <1>2 DEF Shape
  <2> QED
    BY <2>1, <2>2, <2>3, <2>4, <2>5, <1>2
<1>9. CASE Detect
  <2>1. UNCHANGED <<asks, approvals, crashes>>
    BY <1>9 DEF Detect, askVars
  <2> DEFINE Sensed == [pass EXCEPT !.at = "fan", !.flags = Flags, !.todo = Flags,
                        !.saw = [unread |-> Unread, unaudited |-> Quotes \ audited,
                                 quotes |-> Quotes]]
  <2>2. pass' = NoPass \/ pass' = Sensed \/ pass' = [pass EXCEPT !.at = "gate"]
    BY <1>9 DEF Detect
  <2>3. NoPass.at = "idle" /\ Sensed.at = "fan" /\ [pass EXCEPT !.at = "gate"].at = "gate"
    BY DEF NoPass, Shape
  <2> HIDE DEF Sensed
  <2> QED
    BY <2>1, <2>2, <2>3, <1>2
<1>10. CASE ScrapeChild
  <2>1. \/ pass' = [pass EXCEPT !.todo = @ \ {Scrape}, !.done = @ \union {Scrape}]
        \/ pass' = [pass EXCEPT !.todo = @ \ {Scrape}]
    BY <1>10 DEF ScrapeChild
  <2>2. pass'.at = pass.at
    BY <2>1 DEF Shape
  <2> QED
    BY <2>2, <1>10, <1>2 DEF ScrapeChild, askVars
<1>11. CASE StartAudit \/ StartCompare \/ PersistAudits \/ CompareDone \/ RankQuotes \/ ChildFails
  <2>1. UNCHANGED <<asks, approvals, crashes>>
    BY <1>11 DEF StartAudit, StartCompare, PersistAudits, CompareDone, RankQuotes, ChildFails, askVars
  <2>2. CASE StartAudit \/ StartCompare \/ RankQuotes
    BY <2>2, <2>1, <1>2 DEF StartAudit, StartCompare, RankQuotes, Shape
  <2>3. CASE PersistAudits \/ CompareDone \/ ChildFails
    BY <2>3, <2>1, <1>2 DEF PersistAudits, CompareDone, ChildFails, Shape
  <2> QED
    BY <1>11, <2>2, <2>3
<1>12. CASE \/ LogCompletion \/ Decline \/ SendFails \/ RecordAsk \/ RecordCollides
            \/ TickStarts \/ \E l \in Listings : StartTargeted(l)
  <2>1. UNCHANGED <<asks, approvals, crashes>>
    BY <1>12 DEF LogCompletion, Decline, SendFails, RecordAsk, RecordCollides, TickStarts,
                 StartTargeted, askVars
  <2>2. \/ UNCHANGED pass \/ pass' = NoPass
        \/ pass' = [NoPass EXCEPT !.at = "detect"]
        \/ \E l \in Listings : pass' = [NoPass EXCEPT !.at = "detect", !.target = l]
    BY <1>12 DEF LogCompletion, Decline, Declined, SendFails, RecordAsk, RecordCollides, TickStarts,
                 StartTargeted
  <2>3. CASE UNCHANGED pass
    BY <2>3, <2>1, <1>2
  <2>4. CASE pass' = NoPass
    BY <2>4, <2>1, <1>2 DEF NoPass
  <2>5. CASE pass' = [NoPass EXCEPT !.at = "detect"]
    BY <2>5, <2>1, <1>2 DEF NoPass
  <2>6. CASE \E l \in Listings : pass' = [NoPass EXCEPT !.at = "detect", !.target = l]
    BY <2>6, <2>1, <1>2 DEF NoPass
  <2> QED
    BY <2>2, <2>3, <2>4, <2>5, <2>6
<1> QED
  BY <1>3, <1>4, <1>5, <1>6, <1>7, <1>8, <1>9, <1>10, <1>11, <1>12 DEF Next

(* Every targeted ask that leaves had its own approval, up to the one a    *)
(* crash repeats (quotePipeline.ts:570-620).                               *)
THEOREM AsksCovered == Spec => []AsksApproved
<1>1. Init => Shape /\ AskInv
  BY ShapeInit DEF Init, AskInv, Owed, NoPass
<1>2. Shape /\ AskInv /\ [Next]_vars => (Shape /\ AskInv)'
  <2>1. ASSUME Shape, UNCHANGED vars PROVE Shape'
    BY <2>1 DEF Shape, vars
  <2> QED
    BY <2>1, BooksGrow, AskStep
<1>3. AskInv => AsksApproved
  BY DEF AskInv, AsksApproved, Owed
<1> QED
  BY <1>1, <1>2, <1>3, PTL DEF Spec

----------------------------------------------------------------------------
\* A running extraction has at most one parent, which awaits it.
ChildInv ==
    /\ reader \in [Readers -> Extractions]
    /\ \A w \in Readers : reader[w].child => pass.at = "child" /\ reader[w].at # "idle"
    /\ \A v, w \in Readers : reader[v].child /\ reader[w].child => v = w

ReaderActs ==
    \/ \E w \in Readers : ReadAlone(w) \/ Load(w) \/ ReadDone(w) \/ ReaderFails(w) \/ StartExtract(w)
    \/ \E w \in Readers, m \in Replies : ReadReply(w, m)

\* Nothing else touches the readers, and a pass that waits for its child or
\* for its detect stays as it is.
LEMMA WaitingPassStays ==
    ASSUME Next
    PROVE  \/ ReaderActs \/ Detect \/ CrashAndBoot
           \/ /\ UNCHANGED <<reader, sensed, crashes>>
              /\ pass.at \in {"child", "detect"} => UNCHANGED pass
<1>1. CASE \/ \E m \in Replies : Arrive(m)
           \/ WeekPasses \/ TickDecides \/ TickRecords \/ FloorElapses
  BY <1>1 DEF Arrive, WeekPasses, TickDecides, TickRecords, FloorElapses, passVars
<1>2. CASE \/ ScrapeChild \/ StartAudit \/ PersistAudits \/ StartCompare \/ RankQuotes
           \/ CompareDone \/ ChildFails \/ LogCompletion
  BY <1>2 DEF ScrapeChild, StartAudit, PersistAudits, StartCompare, RankQuotes, CompareDone,
              ChildFails, LogCompletion, NextChild
<1>3. CASE \/ \E l \in Listings : StartTargeted(l)
           \/ Approve \/ Decline \/ SendAsk \/ SendFails \/ RecordAsk \/ RecordCollides \/ TickStarts
  BY <1>3 DEF StartTargeted, Approve, Decline, SendAsk, SendFails, RecordAsk, RecordCollides, TickStarts
<1> QED
  BY <1>1, <1>2, <1>3 DEF Next, ReaderActs

LEMMA ChildStep ==
    ASSUME Shape, ChildInv, [Next]_vars
    PROVE  /\ ChildInv'
           /\ pass.at = "detect" /\ pass'.at # "detect" => Detect \/ CrashAndBoot
<1> USE DEF WellFormed, Passes, Extractions
<1>1. NoReader \in Extractions /\ NoReader.child = FALSE
  BY DEF NoReader
<1>2. CASE UNCHANGED vars
  BY <1>2 DEF vars, ChildInv
<1>3. CASE UNCHANGED reader /\ (pass.at \in {"child", "detect"} => UNCHANGED pass)
  BY <1>3 DEF ChildInv
<1>4. ASSUME NEW w \in Readers, ReadAlone(w) \/ Load(w) PROVE UNCHANGED pass /\ ChildInv'
  <2>1. UNCHANGED pass
    BY <1>4 DEF ReadAlone, Load, passVars
  <2>2. PICK r \in Extractions : /\ reader' = [reader EXCEPT ![w] = r]
                                 /\ r.child => reader[w].child
                                 /\ r.at # "idle"
    <3>1. CASE ReadAlone(w)
      <4>1. [NoReader EXCEPT !.at = "load"] \in Extractions
            /\ ~[NoReader EXCEPT !.at = "load"].child
            /\ [NoReader EXCEPT !.at = "load"].at = "load"
        BY DEF NoReader
      <4> QED
        BY <3>1, <4>1 DEF ReadAlone
    <3>2. CASE Load(w)
      <4>1. Candidates \in SUBSET Replies
        BY DEF Candidates
      <4> DEFINE r == [reader[w] EXCEPT !.at = "read", !.list = Candidates, !.todo = Candidates]
      <4>2. reader' = [reader EXCEPT ![w] = r]
        BY <3>2 DEF Load, ChildInv
      <4>3. r \in Extractions /\ r.child = reader[w].child /\ r.at = "read"
        BY <4>1 DEF ChildInv
      <4> HIDE DEF r
      <4> QED
        BY <4>2, <4>3
    <3> QED
      BY <1>4, <3>1, <3>2
  <2> QED
    BY <2>1, <2>2 DEF ChildInv
<1>5. ASSUME NEW w \in Readers, NEW m \in Replies, ReadReply(w, m) PROVE UNCHANGED pass /\ ChildInv'
  <2>1. UNCHANGED pass /\ reader' = [reader EXCEPT ![w].todo = @ \ {m}]
    BY <1>5 DEF ReadReply, passVars
  <2> QED
    BY <2>1 DEF ChildInv
<1>6. ASSUME NEW w \in Readers, ReadDone(w) \/ ReaderFails(w)
      PROVE  (pass.at = "detect" => UNCHANGED pass) /\ ChildInv'
  <2>1. /\ reader' = [reader EXCEPT ![w] = NoReader]
        /\ ~reader[w].child => UNCHANGED pass
    BY <1>6 DEF ReadDone, ReaderFails
  <2> QED
    BY <2>1, <1>1 DEF ChildInv
<1>7. ASSUME NEW w \in Readers, StartExtract(w)
      PROVE  pass.at # "detect" /\ ChildInv'
  <2>1. pass.at = "fan" /\ pass' = [pass EXCEPT !.at = "child", !.todo = @ \ {Extract}]
    BY <1>7 DEF StartExtract, NextChild
  <2>2. pass'.at = "child"
    BY <2>1 DEF Shape
  <2>3. \A v \in Readers : ~reader[v].child
    BY <2>1 DEF ChildInv
  <2> DEFINE r == [NoReader EXCEPT !.at = "load", !.child = TRUE]
  <2>4. reader' = [reader EXCEPT ![w] = r] /\ r \in Extractions /\ r.at = "load"
    BY <1>7 DEF StartExtract, NoReader
  <2> HIDE DEF r
  <2> QED
    BY <2>1, <2>2, <2>3, <2>4 DEF ChildInv
<1>8. CASE Detect
  <2>1. UNCHANGED reader /\ pass.at = "detect"
    BY <1>8 DEF Detect
  <2> QED
    BY <2>1, <1>8 DEF ChildInv
<1>9. CASE CrashAndBoot
  <2>1. PICK canceled \in SUBSET Readers :
          reader' = [w \in Readers |-> IF w \in canceled THEN NoReader ELSE ReaderBack(reader[w])]
    BY <1>9 DEF CrashAndBoot
  <2>2. ASSUME NEW w \in Readers PROVE reader'[w] \in Extractions /\ ~reader'[w].child
    <3>1. reader[w] \in Extractions /\ (reader[w].at = "idle" => ~reader[w].child)
      BY DEF ChildInv
    <3>2. ReaderBack(reader[w]) \in Extractions /\ ~ReaderBack(reader[w]).child
      BY <3>1 DEF ReaderBack
    <3> QED
      BY <2>1, <3>2, <1>1
  <2> QED
    BY <2>1, <2>2, <1>9 DEF ChildInv
<1> QED
  BY <1>2, <1>3, <1>4, <1>5, <1>6, <1>7, <1>8, <1>9, WaitingPassStays DEF ReaderActs

----------------------------------------------------------------------------
\* What the scheduler holds or recorded is in the database, and without a crash
\* is seen by the detect of the pass it started.
Within(f) == f.inbound \subseteq Filed /\ f.quotes \subseteq Quotes

Below(f, g) == f.inbound \subseteq g.inbound /\ f.quotes \subseteq g.quotes

InputInv ==
    /\ tick \in [at : {"idle", "start", "record"}, input : Frontiers]
    /\ crashes \in Nat
    /\ Within(admitted) /\ Within(tick.input)
    /\ crashes = 0 /\ pass.at # "detect" =>
          Below(admitted, sensed) /\ (tick.at = "record" => Below(tick.input, sensed))

LEMMA InputStep ==
    ASSUME Shape, ChildInv, InputInv, [Next]_vars
    PROVE  InputInv'
<1> USE DEF WellFormed, Passes, Frontiers
<1>1. CASE UNCHANGED vars
  BY <1>1 DEF vars, InputInv, Within, Below, Filed, Quotes
<1> SUFFICES ASSUME Next PROVE InputInv'
  BY <1>1
<1>2. Filed \subseteq Filed' /\ Quotes \subseteq Quotes'
  BY BooksGrow
<1>3. Frontier \in Frontiers /\ Within(Frontier) /\ Frontier = [inbound |-> Filed, quotes |-> Quotes]
  BY DEF Frontier, Within, Filed, Quotes
<1>4. pass.at = "detect" /\ pass'.at # "detect" => Detect \/ CrashAndBoot
  BY ChildStep
<1>5. CASE TickDecides
  <2>1. tick' = [at |-> "start", input |-> Frontier] /\ UNCHANGED <<pass, admitted, sensed, crashes>>
    BY <1>5 DEF TickDecides, passVars
  <2> QED
    BY <2>1, <1>2, <1>3 DEF InputInv, Within
<1>6. CASE TickStarts
  <2>1. UNCHANGED <<admitted, sensed, crashes>>
    BY <1>6 DEF TickStarts
  <2>2. CASE pass.at = "idle"
    <3>1. pass' = [NoPass EXCEPT !.at = "detect"] /\ tick' = [tick EXCEPT !.at = "record"]
      BY <1>6, <2>2 DEF TickStarts
    <3>2. pass'.at = "detect"
      BY <3>1 DEF NoPass
    <3> QED
      BY <2>1, <3>1, <3>2, <1>2 DEF InputInv, Within
  <2>3. CASE pass.at # "idle"
    <3>1. UNCHANGED pass /\ tick' = NoTick
      BY <1>6, <2>3 DEF TickStarts
    <3> QED
      BY <2>1, <3>1, <1>2 DEF InputInv, Within, NoTick
  <2> QED
    BY <2>2, <2>3
<1>7. CASE TickRecords
  <2>1. /\ tick.at = "record" /\ admitted' = tick.input /\ tick' = NoTick
        /\ UNCHANGED <<pass, sensed, crashes>>
    BY <1>7 DEF TickRecords, Observed, passVars
  <2> QED
    BY <2>1, <1>2 DEF InputInv, Within, NoTick
<1>8. CASE Detect
  <2>1. sensed' = Frontier /\ UNCHANGED <<tick, admitted, crashes>>
    BY <1>8 DEF Detect, tickVars
  <2>2. Below(admitted, Frontier) /\ Below(tick.input, Frontier)
    BY <1>3 DEF InputInv, Within, Below
  <2> QED
    BY <2>1, <2>2, <1>2 DEF InputInv, Within, Below
<1>9. CASE CrashAndBoot
  <2>1. tick' = NoTick /\ admitted' = admitted /\ crashes' = crashes + 1
    BY <1>9 DEF CrashAndBoot
  <2> QED
    BY <2>1, <1>2 DEF InputInv, Within, NoTick
<1>10. CASE UNCHANGED <<tick, admitted, sensed, crashes>> /\ ~Detect /\ ~CrashAndBoot
  BY <1>10, <1>2, <1>4 DEF InputInv, Within, Below
<1>11. CASE \/ \E m \in Replies : Arrive(m)
            \/ WeekPasses \/ FloorElapses
            \/ \E w \in Readers : ReadAlone(w) \/ Load(w) \/ ReadDone(w) \/ ReaderFails(w) \/ StartExtract(w)
            \/ \E w \in Readers, m \in Replies : ReadReply(w, m)
  <2>1. UNCHANGED <<tick, admitted, sensed, crashes>>
    BY <1>11 DEF Arrive, WeekPasses, FloorElapses, ReadAlone, Load, ReadDone, ReaderFails,
                 StartExtract, ReadReply, passVars, tickVars
  <2> QED
    BY <2>1, <1>8, <1>9, <1>10
<1>12. CASE \/ ScrapeChild \/ StartAudit \/ PersistAudits \/ StartCompare \/ RankQuotes
            \/ CompareDone \/ ChildFails \/ LogCompletion
  <2>1. UNCHANGED <<tick, admitted, sensed, crashes>>
    BY <1>12 DEF ScrapeChild, StartAudit, PersistAudits, StartCompare, RankQuotes, CompareDone,
                 ChildFails, LogCompletion, tickVars
  <2> QED
    BY <2>1, <1>8, <1>9, <1>10
<1>13. CASE \/ \E l \in Listings : StartTargeted(l)
            \/ Approve \/ Decline \/ SendAsk \/ SendFails \/ RecordAsk \/ RecordCollides
  <2>1. UNCHANGED <<tick, admitted, sensed, crashes>>
    BY <1>13 DEF StartTargeted, Approve, Decline, SendAsk, SendFails, RecordAsk, RecordCollides, tickVars
  <2> QED
    BY <2>1, <1>8, <1>9, <1>10
<1> QED
  BY <1>5, <1>6, <1>7, <1>8, <1>9, <1>11, <1>12, <1>13 DEF Next

(* Input that arrives while the scheduler starts a pass is admitted at     *)
(* once, not after the floor (portfolioScheduler.ts:135).                  *)
THEOREM InputSeen == Spec => []NoInputSwallowed
<1>1. Init => Shape /\ ChildInv /\ InputInv
  BY ShapeInit DEF Init, ChildInv, InputInv, NoPass, NoReader, NoTick, Extractions, Frontiers, Within, Below
<1>2. Shape /\ ChildInv /\ InputInv /\ [Next]_vars => (Shape /\ ChildInv /\ InputInv)'
  <2>1. ASSUME Shape, UNCHANGED vars PROVE Shape'
    BY <2>1 DEF Shape, vars
  <2> QED
    BY <2>1, BooksGrow, ChildStep, InputStep
<1>3. InputInv => NoInputSwallowed
  BY DEF InputInv, NoInputSwallowed, Below
<1> QED
  BY <1>1, <1>2, <1>3, PTL DEF Spec
----------------------------------------------------------------------------
(* What an "ok" says *)

\* Failed replies have used an attempt; only filed replies have quotes.
StoreInv ==
    /\ attempts \in [Replies -> Nat]
    /\ \A m \in Replies : status[m] = "failed" => attempts[m] > 0
    /\ \A k \in Quotes : k[1] \in Filed
    /\ aged \subseteq Quotes
    /\ pass.at = "record" => pass.about \in Filed

\* What a detect saw is in the database, and raised the flag of its step.
SawInv ==
    /\ pass.saw.unread \subseteq Filed
    /\ pass.saw.unaudited \union pass.saw.quotes \subseteq Quotes
    /\ \A k \in pass.saw.unaudited : k[1] \in Unread => k[1] \in pass.saw.unread
    /\ pass.saw.unread # {} => Extract \in pass.flags
    /\ pass.saw.unaudited # {} => Audit \in pass.flags

\* Extraction comes first, and no step that is done is still to do.
OrderInv ==
    /\ pass.at \in {"idle", "detect", "child"} \/ Extract \in pass.todo => pass.done = {}
    /\ pass.at \in {"child", "audit", "rank", "compared"} => Extract \notin pass.todo
    /\ pass.at = "audit" => Audit \notin pass.todo \union pass.done
    /\ pass.at \in {"rank", "compared"} => Compare \notin pass.todo
    /\ pass.todo \cap pass.done = {}

\* The extraction the pass awaits has on its list what the detect saw unread.
ReadInv ==
    /\ \A w \in Readers : reader[w].child /\ reader[w].at = "read" =>
          pass.saw.unread \cap Unread \subseteq reader[w].todo
    /\ Extract \in pass.done => pass.saw.unread \cap Unread = {}

\* After the extraction, the audit takes what the detect saw unaudited, but for aged
\* quotes and those of replies that failed.
AuditInv ==
    /\ pass.at = "audit" \/ Audit \in pass.done
    /\ pass.saw.unread = {} \/ Extract \in pass.done
    => \A k \in pass.saw.unaudited \ audited :
          \/ pass.at = "audit" /\ k \in pass.held
          \/ k \in aged \/ attempts[k[1]] > 0

\* The frontier a compare captured contains what the detect saw.
CompareInv ==
    /\ pass.at \in {"rank", "compared"} => pass.saw.quotes \subseteq pass.held
    /\ Compare \in pass.done => pass.saw.quotes \subseteq compared

OkInv == StoreInv /\ SawInv /\ OrderInv /\ ReadInv /\ AuditInv /\ CompareInv

\* Replies and quotes stay, a filed reply is read at most once, attempts and audits add up.
Growth ==
    /\ Filed \subseteq Filed' /\ Quotes \subseteq Quotes' /\ Filed \cap Unread' \subseteq Unread
    /\ aged \subseteq aged' /\ audited \subseteq audited'
    /\ \A m \in Replies : attempts[m] > 0 => attempts'[m] > 0

\* Actions that leave the replies, their attempts and the quotes alone.
LEMMA WhoWrites ==
    ASSUME Next
    PROVE  \/ \E m \in Replies : Arrive(m)
           \/ \E w \in Readers, m \in Replies : ReadReply(w, m)
           \/ RecordAsk
           \/ UNCHANGED <<status, attempts, quote>>
<1>1. CASE WeekPasses \/ TickDecides \/ TickStarts \/ TickRecords \/ FloorElapses \/ CrashAndBoot
  BY <1>1 DEF WeekPasses, TickDecides, TickStarts, TickRecords, FloorElapses, CrashAndBoot, replyVars
<1>2. CASE \E w \in Readers : ReadAlone(w) \/ Load(w) \/ ReadDone(w) \/ ReaderFails(w) \/ StartExtract(w)
  BY <1>2 DEF ReadAlone, Load, ReadDone, ReaderFails, StartExtract, replyVars
<1>3. CASE \/ Detect \/ ScrapeChild \/ StartAudit \/ PersistAudits
           \/ StartCompare \/ RankQuotes \/ CompareDone \/ ChildFails \/ LogCompletion
  BY <1>3 DEF Detect, ScrapeChild, StartAudit, PersistAudits, StartCompare, RankQuotes, CompareDone,
              ChildFails, LogCompletion, replyVars
<1>4. CASE \/ \E l \in Listings : StartTargeted(l)
           \/ Approve \/ Decline \/ SendAsk \/ SendFails \/ RecordCollides
  BY <1>4 DEF StartTargeted, Approve, Decline, SendAsk, SendFails, RecordCollides, replyVars
<1> QED
  BY <1>1, <1>2, <1>3, <1>4 DEF Next

LEMMA WhoAges ==
    ASSUME Next
    PROVE  (WeekPasses \/ UNCHANGED aged) /\ audited \subseteq audited'
<1>1. CASE \/ \E m \in Replies : Arrive(m)
           \/ WeekPasses
           \/ TickDecides \/ TickStarts \/ TickRecords \/ FloorElapses \/ CrashAndBoot
  BY <1>1 DEF Arrive, WeekPasses, TickDecides, TickStarts, TickRecords, FloorElapses, CrashAndBoot,
              passVars
<1>2. CASE \/ \E w \in Readers : ReadAlone(w) \/ Load(w) \/ ReadDone(w) \/ ReaderFails(w) \/ StartExtract(w)
           \/ \E w \in Readers, m \in Replies : ReadReply(w, m)
  BY <1>2 DEF ReadAlone, Load, ReadDone, ReaderFails, StartExtract, ReadReply, passVars
<1>3. CASE \/ Detect \/ ScrapeChild \/ StartAudit \/ PersistAudits
           \/ StartCompare \/ RankQuotes \/ CompareDone \/ ChildFails \/ LogCompletion
  BY <1>3 DEF Detect, ScrapeChild, StartAudit, PersistAudits, AuditedWith, StartCompare, RankQuotes,
              CompareDone, ChildFails, LogCompletion
<1>4. CASE \/ \E l \in Listings : StartTargeted(l)
           \/ Approve \/ Decline \/ SendAsk \/ SendFails \/ RecordAsk \/ RecordCollides
  BY <1>4 DEF StartTargeted, Approve, Decline, SendAsk, SendFails, RecordAsk, RecordCollides
<1> QED
  BY <1>1, <1>2, <1>3, <1>4 DEF Next

----------------------------------------------------------------------------
\* The fields of the next pass.
Fields(at, flags, todo, done, held, saw) ==
    /\ pass'.at = at /\ pass'.flags = flags /\ pass'.todo = todo
    /\ pass'.done = done /\ pass'.held = held /\ pass'.saw = saw

ToFan(todo, done, held) == Fields("fan", pass.flags, todo, done, held, pass.saw)

\* What a step makes of the pass: nothing, a new one, what the detect saw, an ask, a child
\* that starts or ends, or the same pass again after a boot.
PassSame == UNCHANGED <<pass, compared>>
PassAnew ==
    /\ UNCHANGED compared
    /\ pass'.at \in {"idle", "detect"} /\ pass'.todo = {} /\ pass'.done = {}
    /\ pass'.held = {} /\ pass'.saw = Nothing
PassSenses ==
    /\ UNCHANGED compared /\ Detect
    /\ Fields("fan", Flags, Flags, pass.done, pass.held,
              [unread |-> Unread, unaudited |-> Quotes \ audited, quotes |-> Quotes])
PassAsks ==
    /\ UNCHANGED compared /\ pass.at \in {"detect", "gate", "send", "record"}
    /\ \E at \in {"gate", "send", "record"} :
          /\ Fields(at, pass.flags, pass.todo, pass.done, pass.held, pass.saw)
          /\ at = "record" => SendAsk
PassReads ==
    /\ UNCHANGED compared /\ NextChild(Extract) /\ \E w \in Readers : StartExtract(w)
    /\ Fields("child", pass.flags, pass.todo \ {Extract}, pass.done, pass.held, pass.saw)
PassHasRead ==
    /\ UNCHANGED compared /\ \E w \in Readers : ReadDone(w) /\ reader[w].child
    /\ ToFan(pass.todo, pass.done \union {Extract}, pass.held)
PassLoses ==
    /\ UNCHANGED compared
    /\ \E held \in {{}, pass.held} : ToFan(pass.todo, pass.done, held)
PassScrapes ==
    /\ UNCHANGED compared /\ NextChild(Scrape)
    /\ \E done \in {pass.done, pass.done \union {Scrape}} : ToFan(pass.todo \ {Scrape}, done, pass.held)
PassAudits ==
    /\ UNCHANGED compared /\ NextChild(Audit) /\ StartAudit
    /\ Fields("audit", pass.flags, pass.todo \ {Audit}, pass.done, RecentUnaudited, pass.saw)
PassHasAudited ==
    /\ UNCHANGED compared /\ PersistAudits
    /\ ToFan(pass.todo, pass.done \union {Audit}, {})
PassCompares ==
    /\ UNCHANGED compared /\ NextChild(Compare)
    /\ Fields("rank", pass.flags, pass.todo \ {Compare}, pass.done, Quotes, pass.saw)
PassRanks ==
    /\ UNCHANGED compared /\ pass.at = "rank"
    /\ Fields("compared", pass.flags, pass.todo, pass.done, pass.held, pass.saw)
PassHasCompared ==
    /\ pass.at = "compared" /\ compared' = pass.held
    /\ ToFan(pass.todo, pass.done \union {Compare}, {})
PassAgain ==
    /\ UNCHANGED compared /\ ToFan(pass.flags, {}, {})

LEMMA PassFields ==
    ASSUME Shape, Next
    PROVE  \/ PassSame \/ PassAnew \/ PassSenses \/ PassAsks
           \/ PassReads \/ PassHasRead \/ PassLoses \/ PassScrapes \/ PassAudits \/ PassHasAudited
           \/ PassCompares \/ PassRanks \/ PassHasCompared \/ PassAgain
<1>0. pass \in Passes
  BY DEF Shape, WellFormed
<1>i. /\ NoPass.at = "idle" /\ NoPass.todo = {} /\ NoPass.done = {} /\ NoPass.held = {}
      /\ NoPass.saw = Nothing /\ NoPass \in Passes
  BY DEF NoPass, Passes, Nothing
<1>j. pass' = NoPass /\ UNCHANGED compared => PassAnew
  BY <1>i DEF PassAnew
<1>1. CASE \/ \E m \in Replies : Arrive(m)
           \/ WeekPasses \/ TickDecides \/ TickRecords \/ FloorElapses
           \/ \E w \in Readers : ReadAlone(w) \/ Load(w)
           \/ \E w \in Readers, m \in Replies : ReadReply(w, m)
  BY <1>1 DEF PassSame, Arrive, WeekPasses, TickDecides, TickRecords, FloorElapses, ReadAlone, Load,
              ReadReply, passVars
<1>2. CASE LogCompletion \/ Decline \/ SendFails \/ RecordAsk \/ RecordCollides
  BY <1>2, <1>j DEF LogCompletion, Decline, Declined, SendFails, RecordAsk, RecordCollides
<1>3. CASE TickStarts \/ \E l \in Listings : StartTargeted(l)
  <2>1. CASE pass' = [NoPass EXCEPT !.at = "detect"]
    <3>1. UNCHANGED compared
      BY <1>3 DEF TickStarts, StartTargeted
    <3> QED BY <2>1, <3>1, <1>i DEF PassAnew, Passes
  <2>2. ASSUME NEW l \in Listings, pass' = [NoPass EXCEPT !.at = "detect", !.target = l]
        PROVE  PassAnew
    <3>1. UNCHANGED compared
      BY <1>3 DEF TickStarts, StartTargeted
    <3> QED BY <2>2, <3>1, <1>i DEF PassAnew, Passes
  <2>3. CASE UNCHANGED pass
    BY <1>3, <2>3 DEF TickStarts, StartTargeted, PassSame
  <2> QED BY <1>3, <2>1, <2>2, <2>3 DEF TickStarts, StartTargeted
<1>4. CASE Detect
  <2>1. CASE pass' = NoPass
    BY <2>1, <1>4, <1>j DEF Detect
  <2>2. CASE pass' = [pass EXCEPT !.at = "gate"]
    BY <2>2, <1>0, <1>4 DEF Detect, PassAsks, Fields, Passes
  <2>3. CASE pass.target = NoListing
    <3> DEFINE saw == [unread |-> Unread, unaudited |-> Quotes \ audited, quotes |-> Quotes]
    <3>1. pass' = [pass EXCEPT !.at = "fan", !.flags = Flags, !.todo = Flags, !.saw = saw]
      BY <1>4, <2>3 DEF Detect
    <3> HIDE DEF saw
    <3>2. Fields("fan", Flags, Flags, pass.done, pass.held, saw)
      BY <3>1, <1>0 DEF Fields, Passes
    <3> QED BY <3>2, <1>4 DEF PassSenses, Detect, saw
  <2> QED BY <1>4, <2>1, <2>2, <2>3 DEF Detect
<1>5. CASE Approve \/ SendAsk
  <2>1. CASE Approve
    BY <2>1, <1>0 DEF Approve, PassAsks, Fields, Passes
  <2>2. CASE SendAsk
    <3>1. PICK m \in Filed : pass' = [pass EXCEPT !.at = "record", !.about = m]
      BY <2>2 DEF SendAsk
    <3>2. Fields("record", pass.flags, pass.todo, pass.done, pass.held, pass.saw)
      BY <3>1, <1>0 DEF Fields, Passes
    <3> QED BY <2>2, <3>2 DEF SendAsk, PassAsks
  <2> QED BY <1>5, <2>1, <2>2
<1>6. ASSUME NEW w \in Readers, StartExtract(w) PROVE PassReads
  <2>1. pass' = [pass EXCEPT !.at = "child", !.todo = @ \ {Extract}]
    BY <1>6 DEF StartExtract
  <2>2. Fields("child", pass.flags, pass.todo \ {Extract}, pass.done, pass.held, pass.saw)
    BY <2>1, <1>0 DEF Fields, Passes
  <2> QED BY <1>6, <2>2 DEF StartExtract, PassReads
<1>7. ASSUME NEW w \in Readers, ReadDone(w) PROVE PassSame \/ PassHasRead
  <2>1. CASE reader[w].child
    <3>1. pass' = [pass EXCEPT !.at = "fan", !.done = @ \union {Extract}]
      BY <1>7, <2>1 DEF ReadDone
    <3>2. ToFan(pass.todo, pass.done \union {Extract}, pass.held)
      BY <3>1, <1>0 DEF ToFan, Fields, Passes
    <3> QED BY <1>7, <2>1, <3>2 DEF ReadDone, PassHasRead
  <2>2. CASE ~ reader[w].child
    BY <1>7, <2>2 DEF ReadDone, PassSame
  <2> QED BY <2>1, <2>2
<1>8. ASSUME NEW w \in Readers, ReaderFails(w) PROVE PassSame \/ PassLoses
  <2>1. CASE reader[w].child
    <3>1. pass' = [pass EXCEPT !.at = "fan"]
      BY <1>8, <2>1 DEF ReaderFails
    <3>2. ToFan(pass.todo, pass.done, pass.held)
      BY <3>1, <1>0 DEF ToFan, Fields, Passes
    <3> QED BY <1>8, <3>2 DEF ReaderFails, PassLoses
  <2>2. CASE ~ reader[w].child
    BY <1>8, <2>2 DEF ReaderFails, PassSame
  <2> QED BY <2>1, <2>2
<1>9. CASE ChildFails
  <2>1. ToFan(pass.todo, pass.done, {})
    BY <1>9, <1>0 DEF ChildFails, ToFan, Fields, Passes
  <2> QED BY <1>9, <2>1 DEF ChildFails, PassLoses
<1>10. CASE ScrapeChild
  <2>1. PICK done \in {pass.done, pass.done \union {Scrape}} :
          pass' = [pass EXCEPT !.todo = @ \ {Scrape}, !.done = done]
    <3>1. CASE pass' = [pass EXCEPT !.todo = @ \ {Scrape}, !.done = @ \union {Scrape}]
      BY <3>1, <1>0 DEF Passes
    <3>2. CASE pass' = [pass EXCEPT !.todo = @ \ {Scrape}]
      <4>1. [pass EXCEPT !.todo = @ \ {Scrape}] = [pass EXCEPT !.todo = @ \ {Scrape}, !.done = pass.done]
        BY <1>0 DEF Passes
      <4> QED BY <3>2, <4>1
    <3> QED BY <1>10, <3>1, <3>2 DEF ScrapeChild
  <2>2. pass.at = "fan" /\ NextChild(Scrape)
    BY <1>10 DEF ScrapeChild, NextChild
  <2>3. ToFan(pass.todo \ {Scrape}, done, pass.held)
    BY <2>1, <2>2, <1>0 DEF ToFan, Fields, Passes
  <2> QED BY <1>10, <2>2, <2>3 DEF ScrapeChild, PassScrapes
<1>11. CASE StartAudit
  <2>1. Fields("audit", pass.flags, pass.todo \ {Audit}, pass.done, RecentUnaudited, pass.saw)
    BY <1>11, <1>0 DEF StartAudit, Fields, Passes
  <2> QED BY <1>11, <2>1 DEF StartAudit, PassAudits
<1>12. CASE PersistAudits
  <2>1. ToFan(pass.todo, pass.done \union {Audit}, {})
    BY <1>12, <1>0 DEF PersistAudits, ToFan, Fields, Passes
  <2> QED BY <1>12, <2>1 DEF PersistAudits, PassHasAudited
<1>13. CASE StartCompare
  <2>1. Fields("rank", pass.flags, pass.todo \ {Compare}, pass.done, Quotes, pass.saw)
    BY <1>13, <1>0 DEF StartCompare, Fields, Passes
  <2> QED BY <1>13, <2>1 DEF StartCompare, PassCompares
<1>14. CASE RankQuotes
  <2>1. Fields("compared", pass.flags, pass.todo, pass.done, pass.held, pass.saw)
    BY <1>14, <1>0 DEF RankQuotes, Fields, Passes
  <2> QED BY <1>14, <2>1 DEF RankQuotes, PassRanks
<1>15. CASE CompareDone
  <2>1. ToFan(pass.todo, pass.done \union {Compare}, {})
    BY <1>15, <1>0 DEF CompareDone, ToFan, Fields, Passes
  <2> QED BY <1>15, <2>1 DEF CompareDone, WatermarkOf, PassHasCompared
<1>16. CASE CrashAndBoot
  <2>1. UNCHANGED compared /\ (pass' = NoPass \/ pass' = Restarted(pass))
    BY <1>16 DEF CrashAndBoot
  <2>2. CASE pass.at \in {"idle", "detect", "gate", "send"}
    BY <2>1, <2>2, <1>j DEF Restarted, PassSame
  <2>3. CASE pass.at = "record" /\ pass' = Restarted(pass)
    <3>1. pass' = [pass EXCEPT !.at = "send", !.about = 0]
      BY <2>3 DEF Restarted
    <3>2. Fields("send", pass.flags, pass.todo, pass.done, pass.held, pass.saw)
      BY <3>1, <1>0 DEF Fields, Passes
    <3> QED BY <2>1, <2>3, <3>2 DEF PassAsks
  <2>4. CASE pass.at \notin {"idle", "detect", "gate", "send", "record"} /\ pass' = Restarted(pass)
    <3>1. pass' = [pass EXCEPT !.at = "fan", !.todo = pass.flags, !.done = {}, !.held = {}]
      BY <2>4 DEF Restarted
    <3>2. ToFan(pass.flags, {}, {})
      BY <3>1, <1>0 DEF ToFan, Fields, Passes
    <3> QED BY <2>1, <3>2 DEF PassAgain
  <2> QED BY <2>1, <2>2, <2>3, <2>4, <1>j
<1> QED
  BY <1>1, <1>2, <1>3, <1>4, <1>5, <1>6, <1>7, <1>8, <1>9, <1>10, <1>11, <1>12, <1>13, <1>14, <1>15,
     <1>16 DEF Next
LEMMA StoreStep ==
    ASSUME Shape, StoreInv, Next
    PROVE  StoreInv' /\ Growth
<1>0. /\ status \in [Replies -> {"absent", "pending", "succeeded", "failed"}]
      /\ attempts \in [Replies -> Nat] /\ quote \in [Keys -> {"none", "reply"} \union Listings]
      /\ \A k \in Keys : k[1] \in Replies
  BY DEF Shape, StoreInv, Keys
<1>1. Filed \subseteq Filed' /\ Quotes \subseteq Quotes'
  BY BooksGrow
<1>2. aged' \subseteq Quotes' /\ aged \subseteq aged' /\ audited \subseteq audited'
  BY <1>1, WhoAges DEF StoreInv, WeekPasses
<1>3. pass'.at = "record" => pass'.about \in Filed'
  <2>1. CASE UNCHANGED pass
    BY <1>1, <2>1 DEF StoreInv
  <2>2. CASE SendAsk
    <3>1. PICK m \in Filed : pass' = [pass EXCEPT !.at = "record", !.about = m]
      BY <2>2 DEF SendAsk
    <3>2. pass'.about = m
      BY <3>1 DEF Shape, WellFormed, Passes
    <3> QED BY <1>1, <3>2
  <2>3. SendAsk \/ UNCHANGED pass \/ pass'.at # "record"
    <3>1. CASE PassSame \/ PassAnew
      BY <3>1 DEF PassSame, PassAnew
    <3>2. CASE PassSenses \/ PassReads \/ PassHasRead \/ PassLoses \/ PassScrapes
      BY <3>2 DEF PassSenses, PassReads, PassHasRead, PassLoses, PassScrapes, ToFan, Fields
    <3>3. CASE PassAudits \/ PassHasAudited \/ PassCompares \/ PassRanks \/ PassHasCompared \/ PassAgain
      BY <3>3 DEF PassAudits, PassHasAudited, PassCompares, PassRanks, PassHasCompared, PassAgain,
                  ToFan, Fields
    <3>4. CASE PassAsks
      BY <3>4 DEF PassAsks, Fields
    <3> QED BY <3>1, <3>2, <3>3, <3>4, PassFields
  <2> QED BY <2>1, <2>2, <2>3
<1>4. ASSUME NEW m \in Replies, Arrive(m)
      PROVE  StoreInv' /\ Growth
  <2>1. status[m] = "absent" /\ status' = [status EXCEPT ![m] = "pending"]
        /\ UNCHANGED <<attempts, quote>>
    BY <1>4 DEF Arrive
  <2> QED BY <1>0, <1>1, <1>2, <1>3, <2>1 DEF StoreInv, Growth, Filed, Unread, Quotes
<1>5. ASSUME NEW w \in Readers, NEW m \in Replies, ReadReply(w, m)
      PROVE  StoreInv' /\ Growth
  <2>1. \/ status' = [status EXCEPT ![m] = "succeeded"] /\ UNCHANGED attempts
        \/ /\ status' = [status EXCEPT ![m] = "failed"]
           /\ attempts' = [attempts EXCEPT ![m] = @ + 1]
    BY <1>5 DEF ReadReply
  <2>2. \A k \in Quotes' : k \in Quotes \/ k[1] = m
    <3>1. CASE UNCHANGED quote
      BY <3>1 DEF Quotes
    <3>2. CASE \E modes \in SUBSET Modes : quote' = Upserted(m, modes)
      BY <3>2, <1>0 DEF Quotes, Upserted
    <3> QED BY <1>5, <3>1, <3>2 DEF ReadReply
  <2>3. m \in Filed' /\ Unread' \subseteq Unread
    BY <1>0, <2>1 DEF Filed, Unread
  <2>4. \A k \in Quotes' : k[1] \in Filed'
    BY <1>1, <2>2, <2>3 DEF StoreInv
  <2>5. attempts' \in [Replies -> Nat] /\ \A i \in Replies : attempts[i] > 0 => attempts'[i] > 0
    BY <1>0, <2>1
  <2>6. \A i \in Replies : status'[i] = "failed" => attempts'[i] > 0
    BY <1>0, <2>1 DEF StoreInv
  <2> QED BY <1>1, <1>2, <1>3, <2>3, <2>4, <2>5, <2>6 DEF StoreInv, Growth
<1>6. CASE RecordAsk
  <2>1. UNCHANGED <<status, attempts>> /\ pass.about \in Filed
        /\ quote' = [quote EXCEPT ![RecordKey] = pass.target]
    BY <1>6 DEF RecordAsk, replyVars, StoreInv
  <2>2. \A k \in Quotes' : k \in Quotes \/ k[1] = pass.about
    BY <1>0, <2>1 DEF Quotes, RecordKey
  <2>3. \A k \in Quotes' : k[1] \in Filed'
    BY <1>1, <2>1, <2>2 DEF StoreInv
  <2> QED BY <1>0, <1>1, <1>2, <1>3, <2>1, <2>3 DEF StoreInv, Growth, Filed, Unread
<1>7. CASE UNCHANGED <<status, attempts, quote>>
  BY <1>0, <1>1, <1>2, <1>3, <1>7 DEF StoreInv, Growth, Filed, Unread, Quotes
<1> QED BY <1>4, <1>5, <1>6, <1>7, WhoWrites

LEMMA SawStep ==
    ASSUME Shape, StoreInv, SawInv, Next
    PROVE  SawInv'
<1>0. Growth
  BY StoreStep
<1>1. CASE pass'.saw = pass.saw /\ pass'.flags = pass.flags
  BY <1>0, <1>1 DEF SawInv, StoreInv, Growth
<1>2. CASE pass'.saw = Nothing
  BY <1>2 DEF SawInv, Nothing
<1>3. CASE PassSenses
  <2>1. pass'.saw.unread = Unread /\ pass'.saw.unaudited = Quotes \ audited
        /\ pass'.saw.quotes = Quotes /\ pass'.flags = Flags
    BY <1>3 DEF PassSenses, Fields
  <2>2. UNCHANGED status
    BY <1>3 DEF PassSenses, Detect, replyVars
  <2>3. Unread \subseteq Filed /\ Unread' = Unread
    BY <2>2 DEF Unread, Filed
  <2>4. (Unread # {} => Extract \in Flags) /\ (Quotes \ audited # {} => Audit \in Flags)
    BY DEF Flags, Extract, Scrape, Audit, Compare, Steps
  <2> HIDE DEF Flags
  <2> QED BY <1>0, <2>1, <2>3, <2>4 DEF SawInv, Growth
<1>4. PassSenses \/ pass'.saw = Nothing \/ (pass'.saw = pass.saw /\ pass'.flags = pass.flags)
  BY PassFields DEF PassSame, PassAnew, PassAsks, PassReads, PassHasRead, PassLoses, PassScrapes,
     PassAudits, PassHasAudited, PassCompares, PassRanks, PassHasCompared, PassAgain, ToFan, Fields
<1> QED BY <1>1, <1>2, <1>3, <1>4

LEMMA OrderStep ==
    ASSUME Shape, ChildInv, OrderInv, Next
    PROVE  OrderInv'
<1> USE DEF OrderInv, Fields, ToFan
<1>0. /\ \A s \in Steps : NextChild(s) => pass.at = "fan" /\ s \in pass.todo
      /\ \A s \in {Scrape, Audit, Compare} : NextChild(s) => Extract \notin pass.todo
      /\ {Extract, Scrape, Audit, Compare} = Steps
      /\ pass.todo \subseteq Steps
  BY DEF NextChild, Steps, Extract, Scrape, Audit, Compare, Shape, WellFormed, Passes
<1>1. CASE PassSame \/ PassAnew \/ PassAsks
  BY <1>1 DEF PassSame, PassAnew, PassAsks
<1>2. CASE PassSenses
  BY <1>2 DEF PassSenses, Detect
<1>3. CASE PassReads
  BY <1>3, <1>0 DEF PassReads
<1>4. CASE PassHasRead
  BY <1>4 DEF PassHasRead, ChildInv
<1>5. CASE PassLoses \/ PassAgain
  BY <1>5 DEF PassLoses, PassAgain
<1>6. CASE PassScrapes
  BY <1>6, <1>0 DEF PassScrapes
<1>7. CASE PassAudits \/ PassHasAudited
  BY <1>7, <1>0 DEF PassAudits, PassHasAudited, PersistAudits
<1>8. CASE PassCompares \/ PassRanks \/ PassHasCompared
  BY <1>8, <1>0 DEF PassCompares, PassRanks, PassHasCompared
<1> QED BY <1>1, <1>2, <1>3, <1>4, <1>5, <1>6, <1>7, <1>8, PassFields

\* What the extraction of the pass has on its list.
LEMMA ListStep ==
    ASSUME Shape, ChildInv, StoreInv, SawInv, ReadInv, Next, pass'.saw = pass.saw,
           NEW w \in Readers, reader'[w].child, reader'[w].at = "read"
    PROVE  pass.saw.unread \cap Unread' \subseteq reader'[w].todo
<1>0. /\ Filed \cap Unread' \subseteq Unread /\ pass.saw.unread \subseteq Filed
      /\ reader \in [Readers -> Extractions] /\ reader[w] \in Extractions
  BY StoreStep DEF Growth, SawInv, ChildInv
<1>1. CASE reader'[w] = reader[w]
  BY <1>0, <1>1 DEF ReadInv
<1>2. CASE Load(w)
  <2>1. reader'[w] = [reader[w] EXCEPT !.at = "read", !.list = Candidates, !.todo = Candidates]
    BY <1>0, <1>2 DEF Load
  <2>2. reader'[w].todo = Candidates
    BY <1>0, <2>1 DEF Extractions
  <2>3. Unread \subseteq Candidates
    BY DEF Unread, Candidates
  <2> QED BY <1>0, <2>2, <2>3
<1>3. ASSUME NEW m \in Replies, ReadReply(w, m)
      PROVE  pass.saw.unread \cap Unread' \subseteq reader'[w].todo
  <2>1. reader'[w] = [reader[w] EXCEPT !.todo = @ \ {m}] /\ reader[w].at = "read"
    BY <1>0, <1>3 DEF ReadReply
  <2>2. reader'[w].todo = reader[w].todo \ {m} /\ reader'[w].child = reader[w].child
    BY <1>0, <2>1 DEF Extractions
  <2>3. m \notin Unread'
    BY <1>3 DEF ReadReply, Unread, Shape
  <2> QED BY <1>0, <2>1, <2>2, <2>3 DEF ReadInv
<1>4. CASE reader'[w].at # "read" \/ ~ reader'[w].child
  BY <1>4
<1>5. CASE CrashAndBoot
  <2>1. reader'[w] = NoReader \/ reader'[w] = ReaderBack(reader[w])
    BY <1>5 DEF CrashAndBoot
  <2>2. ~ NoReader.child /\ NoReader.at = "idle"
    BY DEF NoReader
  <2>3. ~ ReaderBack(reader[w]).child
    BY <1>0 DEF ReaderBack, ChildInv, Extractions
  <2> QED BY <1>4, <2>1, <2>2, <2>3
<1>6. ASSUME NEW v \in Readers,
             ReadAlone(v) \/ Load(v) \/ ReadDone(v) \/ ReaderFails(v) \/ StartExtract(v)
      PROVE  pass.saw.unread \cap Unread' \subseteq reader'[w].todo
  <2>1. CASE v # w
    BY <1>0, <1>1, <1>6, <2>1 DEF ReadAlone, Load, ReadDone, ReaderFails, StartExtract
  <2>2. CASE v = w /\ ~ Load(w)
    <3>1. reader'[w] = NoReader \/ reader'[w] = [NoReader EXCEPT !.at = "load"]
          \/ reader'[w] = [NoReader EXCEPT !.at = "load", !.child = TRUE]
      BY <1>0, <1>6, <2>2 DEF ReadAlone, ReadDone, ReaderFails, StartExtract
    <3>2. /\ NoReader.at = "idle" /\ [NoReader EXCEPT !.at = "load"].at = "load"
          /\ [NoReader EXCEPT !.at = "load", !.child = TRUE].at = "load"
      BY DEF NoReader
    <3> QED BY <1>4, <3>1, <3>2
  <2> QED BY <1>2, <1>6, <2>1, <2>2
<1>7. ASSUME NEW v \in Readers, NEW m \in Replies, ReadReply(v, m)
      PROVE  pass.saw.unread \cap Unread' \subseteq reader'[w].todo
  <2>1. CASE v # w
    BY <1>0, <1>1, <1>7, <2>1 DEF ReadReply
  <2> QED BY <1>3, <1>7, <2>1
<1>8. CASE UNCHANGED reader
  BY <1>1, <1>8
<1> QED BY <1>5, <1>6, <1>7, <1>8, WaitingPassStays DEF ReaderActs, Detect

LEMMA ReadStep ==
    ASSUME Shape, ChildInv, StoreInv, SawInv, OrderInv, ReadInv, Next
    PROVE  ReadInv'
<1>0. Filed \cap Unread' \subseteq Unread /\ pass.saw.unread \subseteq Filed
  BY StoreStep DEF Growth, SawInv
<1>1. CASE pass'.saw = pass.saw /\ (Extract \in pass'.done => Extract \in pass.done \/ PassHasRead)
  <2>1. CASE PassHasRead
    <3>1. PICK w \in Readers : ReadDone(w) /\ reader[w].child
      BY <2>1 DEF PassHasRead
    <3>2. pass.saw.unread \cap Unread = {}
      BY <3>1 DEF ReadDone, ReadInv
    <3> QED BY <1>0, <1>1, <3>2, ListStep DEF ReadInv
  <2>2. CASE ~ PassHasRead
    BY <1>0, <1>1, <2>2, ListStep DEF ReadInv
  <2> QED BY <2>1, <2>2
<1>2. CASE PassAnew
  BY <1>2 DEF PassAnew, ReadInv, Nothing
<1>3. CASE PassSenses
  <2>1. UNCHANGED reader /\ \A w \in Readers : ~ reader[w].child
    BY <1>3 DEF PassSenses, Detect, ChildInv
  <2>2. Extract \notin pass'.done
    BY <1>3 DEF PassSenses, Detect, Fields, OrderInv
  <2> QED BY <2>1, <2>2 DEF ReadInv
<1>4. Extract # Scrape /\ Extract # Audit /\ Extract # Compare
  BY DEF Extract, Scrape, Audit, Compare
<1>5. CASE PassSame \/ PassAsks \/ PassReads \/ PassHasRead \/ PassLoses \/ PassScrapes \/ PassAudits
  BY <1>1, <1>4, <1>5 DEF PassSame, PassAsks, PassReads, PassHasRead, PassLoses, PassScrapes,
     PassAudits, ToFan, Fields
<1>6. CASE PassHasAudited \/ PassCompares \/ PassRanks \/ PassHasCompared \/ PassAgain
  BY <1>1, <1>4, <1>6 DEF PassHasAudited, PassCompares, PassRanks, PassHasCompared, PassAgain, ToFan, Fields
<1> QED BY <1>2, <1>3, <1>5, <1>6, PassFields
LEMMA AuditStep ==
    ASSUME Shape, ChildInv, StoreInv, SawInv, OrderInv, ReadInv, AuditInv, Next
    PROVE  AuditInv'
<1>0. Growth /\ pass.saw.unaudited \subseteq Quotes /\ (\A k \in Quotes : k[1] \in Filed /\ k[1] \in Replies)
  BY StoreStep DEF SawInv, StoreInv, Filed
<1>1. Extract # Audit /\ Scrape # Audit /\ Compare # Audit /\ Scrape # Extract /\ Compare # Extract
  BY DEF Extract, Scrape, Audit, Compare
<1>2. ASSUME pass'.saw = pass.saw,
             pass'.at = "audit" \/ Audit \in pass'.done => pass.at = "audit" \/ Audit \in pass.done,
             Extract \in pass'.done => Extract \in pass.done,
             \A k \in pass.saw.unaudited \ audited' :
               pass.at = "audit" /\ k \in pass.held => pass'.at = "audit" /\ k \in pass'.held
      PROVE  AuditInv'
  BY <1>0, <1>2 DEF AuditInv, Growth
<1>3. CASE PassSame
  BY <1>2, <1>3 DEF PassSame
<1>4. CASE PassAnew
  BY <1>4 DEF PassAnew, AuditInv, Nothing
<1>5. CASE PassSenses
  BY <1>5 DEF PassSenses, Fields, AuditInv, Detect, OrderInv
<1>6. ASSUME pass'.saw = pass.saw, pass'.at # "audit",
             Audit \in pass'.done => Audit \in pass.done,
             Extract \in pass'.done => Extract \in pass.done,
             pass.at # "audit"
      PROVE  AuditInv'
  BY <1>2, <1>6
<1>7. CASE PassHasRead
  <2>1. pass.done = {}
    BY <1>7 DEF PassHasRead, ChildInv, OrderInv
  <2> QED BY <1>1, <1>7, <2>1 DEF PassHasRead, ToFan, Fields, AuditInv
<1>8. CASE PassAudits
  <2>1. ASSUME pass.saw.unread = {} \/ Extract \in pass.done,
               NEW k \in pass.saw.unaudited \ audited,
               k \notin RecentUnaudited, k \notin aged
        PROVE  attempts[k[1]] > 0
    <3>1. status[k[1]] # "succeeded" /\ status[k[1]] # "absent"
      BY <1>0, <2>1 DEF RecentUnaudited, Filed
    <3>2. k[1] \notin Unread
      BY <1>0, <2>1 DEF SawInv, ReadInv
    <3>3. status[k[1]] = "failed"
      BY <1>0, <3>1, <3>2 DEF Unread, Shape
    <3> QED BY <1>0, <3>3 DEF StoreInv
  <2> QED BY <1>0, <1>8, <2>1 DEF PassAudits, Fields, AuditInv, Growth
<1>9. CASE PassHasAudited
  <2>1. audited' = audited \union pass.held /\ pass.at = "audit"
    BY <1>9 DEF PassHasAudited, PersistAudits, AuditedWith
  <2> QED BY <1>0, <1>1, <1>9, <2>1 DEF PassHasAudited, ToFan, Fields, AuditInv, Growth
<1>10. CASE PassAgain
  BY <1>10 DEF PassAgain, ToFan, Fields, AuditInv
<1>11. CASE PassLoses
  BY <1>0, <1>11 DEF PassLoses, ToFan, Fields, OrderInv, AuditInv, Growth
<1>12. CASE PassAsks \/ PassReads
  BY <1>6, <1>12 DEF PassAsks, PassReads, NextChild, Fields
<1>14. CASE PassScrapes
  BY <1>1, <1>6, <1>14 DEF PassScrapes, NextChild, ToFan, Fields
<1>13. CASE PassCompares \/ PassRanks \/ PassHasCompared
  BY <1>1, <1>6, <1>13 DEF PassCompares, PassRanks, PassHasCompared, NextChild, ToFan, Fields
<1> QED BY <1>3, <1>4, <1>5, <1>7, <1>8, <1>9, <1>10, <1>11, <1>12, <1>13, <1>14, PassFields

LEMMA CompareStep ==
    ASSUME Shape, StoreInv, SawInv, OrderInv, CompareInv, Next
    PROVE  CompareInv'
<1> USE DEF CompareInv, Fields, ToFan
<1>0. pass.saw.quotes \subseteq Quotes
  BY DEF SawInv
<1>1. Compare # Extract /\ Compare # Scrape /\ Compare # Audit
  BY DEF Extract, Scrape, Audit, Compare
<1>2. CASE PassSame \/ PassAnew \/ PassSenses \/ PassAsks
  BY <1>2 DEF PassSame, PassAnew, PassSenses, PassAsks, Nothing, Detect, OrderInv
<1>3. CASE PassReads \/ PassHasRead
  BY <1>1, <1>3 DEF PassReads, PassHasRead
<1>4. CASE PassLoses \/ PassAgain
  BY <1>4 DEF PassLoses, PassAgain
<1>5. CASE PassScrapes
  BY <1>1, <1>5 DEF PassScrapes
<1>6. CASE PassAudits \/ PassHasAudited
  BY <1>1, <1>6 DEF PassAudits, PassHasAudited
<1>7. CASE PassCompares \/ PassRanks
  BY <1>0, <1>7 DEF PassCompares, PassRanks
<1>8. CASE PassHasCompared
  BY <1>8 DEF PassHasCompared
<1> QED BY <1>2, <1>3, <1>4, <1>5, <1>6, <1>7, <1>8, PassFields

(* A pass that logs "ok" tells the truth about what its detect found       *)
(* (quotePipeline.ts, finalState): the flags were raised by what it saw,   *)
(* and each step that is done dealt with it.                               *)
THEOREM OkHolds == Spec => OkIsTrue
<1> DEFINE Inv == Shape /\ ChildInv /\ OkInv
<1>1. Init => Inv
  <2> SUFFICES ASSUME Init PROVE Inv
    OBVIOUS
  <2>0. Shape /\ ChildInv
    BY ShapeInit DEF Init, ChildInv, NoPass, NoReader, Extractions
  <2>1. Filed = {} /\ Quotes = {} /\ Unread = {}
    BY DEF Init, Filed, Quotes, Unread
  <2>2. /\ pass.at = "idle" /\ pass.done = {} /\ pass.todo = {} /\ pass.held = {}
        /\ pass.saw = Nothing /\ aged = {}
        /\ \A w \in Readers : ~ reader[w].child
    BY DEF Init, NoPass, NoReader
  <2>3. StoreInv
    BY <2>1, <2>2 DEF Init, StoreInv
  <2> QED BY <2>0, <2>1, <2>2, <2>3 DEF OkInv, SawInv, OrderInv, ReadInv, AuditInv, CompareInv, Nothing
<1>2. Inv /\ [Next]_vars => Inv'
  <2>1. ASSUME Inv, Next PROVE Inv'
    BY <2>1, BooksGrow, ChildStep, StoreStep, SawStep, OrderStep, ReadStep, AuditStep, CompareStep
       DEF OkInv
  <2>2. ASSUME Inv, UNCHANGED vars PROVE Inv'
    <3>1. (Shape /\ ChildInv)'
      BY <2>2 DEF Shape, ChildInv, vars
    <3>2. (StoreInv /\ SawInv /\ OrderInv)'
      BY <2>2 DEF OkInv, StoreInv, SawInv, OrderInv, Filed, Quotes, Unread, vars
    <3>3. (ReadInv /\ AuditInv /\ CompareInv)'
      BY <2>2 DEF OkInv, ReadInv, AuditInv, CompareInv, Filed, Quotes, Unread, vars
    <3> QED BY <3>1, <3>2, <3>3 DEF OkInv
  <2> QED BY <2>1, <2>2
<1>3. Inv /\ [Next]_vars =>
        [LogCompletion /\ FinalState(pass.flags, pass.done) = "ok" =>
          /\ pass.saw.unread \cap Unread = {}
          /\ \A k \in pass.saw.unaudited \ audited :
               k \in aged \/ status[k[1]] # "succeeded" \/ attempts[k[1]] > 0
          /\ Compare \in pass.flags => pass.saw.quotes \subseteq compared]_vars
  <2> SUFFICES ASSUME Inv, LogCompletion, FinalState(pass.flags, pass.done) = "ok"
               PROVE  /\ pass.saw.unread \cap Unread = {}
                      /\ \A k \in pass.saw.unaudited \ audited :
                           k \in aged \/ status[k[1]] # "succeeded" \/ attempts[k[1]] > 0
                      /\ Compare \in pass.flags => pass.saw.quotes \subseteq compared
    OBVIOUS
  <2>1. pass.flags \subseteq pass.done /\ pass.at = "fan"
    BY DEF FinalState, LogCompletion
  <2>2. pass.saw.unread \cap Unread = {}
    BY <2>1 DEF OkInv, SawInv, ReadInv
  <2>3. \A k \in pass.saw.unaudited \ audited : k \in aged \/ attempts[k[1]] > 0
    BY <2>1 DEF OkInv, SawInv, AuditInv
  <2>4. Compare \in pass.flags => pass.saw.quotes \subseteq compared
    BY <2>1 DEF OkInv, CompareInv
  <2> QED BY <2>2, <2>3, <2>4
<1> HIDE DEF Inv
<1> QED
  BY <1>1, <1>2, <1>3, PTL DEF Spec, OkIsTrue
----------------------------------------------------------------------------
(* The shape of the books *)

\* What is counted or switched.
Counters ==
    /\ {drafts, fresh, cooled} \subseteq BOOLEAN /\ {starts, fails} \subseteq Nat
    /\ {admitted, sensed} \subseteq Frontiers

\* The step in progress was detected, and so was each that is to do or done.
StepInv ==
    /\ pass.todo \union pass.done \subseteq pass.flags
    /\ pass.at = "child" => Extract \in pass.flags
    /\ pass.at = "audit" => Audit \in pass.flags
    /\ pass.at \in {"rank", "compared"} => Compare \in pass.flags

\* A pass that awaits its extraction has one.
AwaitInv == pass.at = "child" => \E w \in Readers : reader[w].child

\* Audits and watermarks name stored quotes.
NamedInv == audited \union compared \union ranked \subseteq Quotes

LEMMA CountersStep ==
    ASSUME Shape, InputInv, Counters, Next
    PROVE  Counters'
<1>1. Frontier \in Frontiers
  BY DEF Frontier, Frontiers, Filed, Quotes
<1>2. CASE \/ \E m \in Replies : Arrive(m)
           \/ WeekPasses \/ LogCompletion \/ Approve \/ Decline \/ RecordAsk \/ RecordCollides
  BY <1>2 DEF Counters, Arrive, WeekPasses, LogCompletion, Approve, Decline, RecordAsk,
              RecordCollides, passVars, tickVars
<1>12. CASE \/ \E w \in Readers : Load(w) \/ ReadDone(w) \/ StartExtract(w)
            \/ \E w \in Readers, m \in Replies : ReadReply(w, m)
  <2>1. UNCHANGED <<drafts, fresh, cooled, starts, fails, admitted, sensed>>
    <3>1. ASSUME NEW w \in Readers, Load(w) \/ ReadDone(w)
          PROVE  UNCHANGED <<drafts, fresh, cooled, starts, fails, admitted, sensed>>
      BY <3>1 DEF Load, ReadDone, passVars, tickVars
    <3>2. ASSUME NEW w \in Readers, StartExtract(w)
          PROVE  UNCHANGED <<drafts, fresh, cooled, starts, fails, admitted, sensed>>
      BY <3>2 DEF StartExtract, tickVars
    <3>3. ASSUME NEW w \in Readers, NEW m \in Replies, ReadReply(w, m)
          PROVE  UNCHANGED <<drafts, fresh, cooled, starts, fails, admitted, sensed>>
      BY <3>3 DEF ReadReply, passVars, tickVars
    <3> QED
      BY <1>12, <3>1, <3>2, <3>3
  <2> QED
    BY <2>1 DEF Counters
<1>3. CASE StartAudit \/ PersistAudits \/ StartCompare \/ RankQuotes \/ CompareDone
  BY <1>3 DEF Counters, StartAudit, PersistAudits, StartCompare, RankQuotes, CompareDone, passVars,
              tickVars
<1>13. CASE SendAsk \/ SendFails \/ TickDecides \/ TickStarts
  BY <1>13 DEF Counters, SendAsk, SendFails, TickDecides, TickStarts, passVars, tickVars
<1>14. CASE FloorElapses \/ CrashAndBoot
  BY <1>14 DEF Counters, FloorElapses, CrashAndBoot, passVars, tickVars
<1>4. CASE Detect
  BY <1>1, <1>4 DEF Counters, Detect, tickVars
<1>5. CASE ScrapeChild
  <2>1. fresh' \in {fresh, TRUE} /\ UNCHANGED <<drafts, cooled, starts, fails, admitted, sensed>>
    BY <1>5 DEF ScrapeChild, tickVars
  <2> QED
    BY <2>1 DEF Counters
<1>6. CASE TickRecords
  <2>1. admitted' = tick.input /\ cooled' = FALSE /\ UNCHANGED <<drafts, fresh, starts, fails, sensed>>
    BY <1>6 DEF TickRecords, Observed, passVars
  <2>2. tick.input \in Frontiers
    BY DEF InputInv
  <2> QED
    BY <2>1, <2>2 DEF Counters
<1>7. CASE ChildFails \/ \E w \in Readers : ReaderFails(w)
  <2>1. fails' = fails + 1 /\ UNCHANGED <<drafts, fresh, cooled, starts, admitted, sensed>>
    BY <1>7 DEF ChildFails, ReaderFails, tickVars
  <2> QED
    BY <2>1 DEF Counters
<1>8. CASE (\E w \in Readers : ReadAlone(w)) \/ \E l \in Listings : StartTargeted(l)
  <2>1. starts' = starts + 1 /\ UNCHANGED <<drafts, fresh, cooled, fails, admitted, sensed>>
    BY <1>8 DEF ReadAlone, StartTargeted, passVars, tickVars
  <2> QED
    BY <2>1 DEF Counters
<1> QED
  BY <1>2, <1>12, <1>3, <1>13, <1>14, <1>4, <1>5, <1>6, <1>7, <1>8 DEF Next

LEMMA NamedStep ==
    ASSUME Shape, RankInv, NamedInv, Next
    PROVE  NamedInv'
<1>1. Quotes \subseteq Quotes' /\ pass.held \subseteq Quotes
  BY BooksGrow DEF RankInv
<1>2. \/ UNCHANGED compared \/ compared' = pass.held
  BY PassFields DEF PassSame, PassAnew, PassSenses, PassAsks, PassReads, PassHasRead, PassLoses,
                    PassScrapes, PassAudits, PassHasAudited, PassCompares, PassRanks,
                    PassHasCompared, PassAgain
<1>3. audited' \subseteq audited \union pass.held /\ ranked' \subseteq ranked \union Quotes
  <2>1. CASE \/ \E m \in Replies : Arrive(m)
             \/ WeekPasses \/ LogCompletion \/ Approve \/ Decline \/ RecordAsk \/ RecordCollides
             \/ \E w \in Readers : ReadAlone(w) \/ Load(w) \/ ReadDone(w) \/ StartExtract(w) \/ ReaderFails(w)
             \/ \E w \in Readers, m \in Replies : ReadReply(w, m)
             \/ \E l \in Listings : StartTargeted(l)
    BY <2>1 DEF Arrive, WeekPasses, LogCompletion, Approve, Decline, RecordAsk, StartTargeted,
                RecordCollides, ReadAlone, Load, ReadDone, StartExtract, ReaderFails, ReadReply, passVars
  <2>2. CASE \/ Detect \/ ScrapeChild \/ ChildFails \/ StartAudit \/ StartCompare \/ CompareDone
             \/ SendAsk \/ SendFails \/ TickDecides \/ TickStarts \/ TickRecords \/ FloorElapses
    BY <2>2 DEF Detect, ScrapeChild, ChildFails, StartAudit, StartCompare, CompareDone, SendAsk,
                SendFails, TickDecides, TickStarts, TickRecords, FloorElapses, passVars
  <2>3. CASE PersistAudits \/ RankQuotes
    BY <2>3 DEF PersistAudits, AuditedWith, RankQuotes
  <2>4. CASE CrashAndBoot
    BY <2>4 DEF CrashAndBoot
  <2> QED
    BY <2>1, <2>2, <2>3, <2>4 DEF Next
<1> QED
  BY <1>1, <1>2, <1>3 DEF NamedInv

LEMMA StepsStep ==
    ASSUME Shape, ChildInv, OrderInv, StepInv, Next
    PROVE  StepInv'
<1> USE DEF StepInv, Fields, ToFan
<1>1. CASE PassSame \/ PassLoses \/ PassRanks \/ PassAgain
  BY <1>1 DEF PassSame, PassLoses, PassRanks, PassAgain
<1>2. CASE PassAnew \/ PassAsks
  BY <1>2 DEF PassAnew, PassAsks
<1>3. CASE PassSenses
  BY <1>3 DEF PassSenses, Detect, OrderInv
<1>4. CASE PassReads \/ PassScrapes \/ PassAudits \/ PassCompares
  BY <1>4 DEF PassReads, PassScrapes, PassAudits, PassCompares, NextChild
<1>5. CASE PassHasRead
  BY <1>5 DEF PassHasRead, ChildInv
<1>6. CASE PassHasAudited \/ PassHasCompared
  BY <1>6 DEF PassHasAudited, PassHasCompared, PersistAudits
<1> QED
  BY <1>1, <1>2, <1>3, <1>4, <1>5, <1>6, PassFields

LEMMA AwaitStep ==
    ASSUME Shape, ChildInv, AwaitInv, Next
    PROVE  AwaitInv'
<1> USE DEF WellFormed, Passes
<1>1. reader \in [Readers -> Extractions] /\ pass \in Passes
  BY DEF ChildInv, Shape
<1>2. ASSUME NEW w \in Readers, StartExtract(w) PROVE AwaitInv'
  <2>1. reader' = [reader EXCEPT ![w] = [NoReader EXCEPT !.at = "load", !.child = TRUE]]
    BY <1>2 DEF StartExtract
  <2>2. reader'[w].child
    BY <1>1, <2>1 DEF NoReader
  <2> QED
    BY <2>2 DEF AwaitInv
<1>3. ASSUME NEW w \in Readers, ReadDone(w) \/ ReaderFails(w) PROVE AwaitInv'
  <2>1. /\ reader' = [reader EXCEPT ![w] = NoReader]
        /\ reader[w].child => \/ pass' = [pass EXCEPT !.at = "fan", !.done = @ \union {Extract}]
                              \/ pass' = [pass EXCEPT !.at = "fan"]
        /\ ~ reader[w].child => UNCHANGED pass
    BY <1>3 DEF ReadDone, ReaderFails
  <2>2. reader[w].child => pass'.at = "fan"
    BY <1>1, <2>1
  <2>3. \A v \in Readers \ {w} : reader'[v] = reader[v]
    BY <1>1, <2>1
  <2> QED
    BY <2>1, <2>2, <2>3 DEF AwaitInv
<1>4. ASSUME NEW w \in Readers, ReadAlone(w) \/ Load(w) \/ \E m \in Replies : ReadReply(w, m)
      PROVE  AwaitInv'
  <2>1. UNCHANGED pass
    BY <1>4 DEF ReadAlone, Load, ReadReply, passVars
  <2>2. reader[w] \in Extractions
    BY <1>1
  <2>3. \A v \in Readers : reader[v].child => reader'[v].child
    <3>1. CASE ReadAlone(w)
      <4>1. ~ reader[w].child /\ \A v \in Readers \ {w} : reader'[v] = reader[v]
        BY <1>1, <3>1 DEF ReadAlone, ChildInv
      <4> QED
        BY <4>1
    <3>2. CASE Load(w)
      <4>1. reader' = [reader EXCEPT ![w] = [reader[w] EXCEPT !.at = "read",
                                             !.list = Candidates, !.todo = Candidates]]
        BY <1>1, <3>2 DEF Load
      <4> QED
        BY <1>1, <2>2, <4>1 DEF Extractions
    <3>3. ASSUME NEW m \in Replies, ReadReply(w, m)
          PROVE  \A v \in Readers : reader[v].child => reader'[v].child
      <4>1. reader' = [reader EXCEPT ![w] = [reader[w] EXCEPT !.todo = reader[w].todo \ {m}]]
        BY <1>1, <3>3 DEF ReadReply
      <4> QED
        BY <1>1, <2>2, <4>1 DEF Extractions
    <3> QED
      BY <1>4, <3>1, <3>2, <3>3
  <2> QED
    BY <2>1, <2>3 DEF AwaitInv
<1>5. CASE Detect
  <2>1. pass.at = "detect" /\ pass' \in {NoPass, [pass EXCEPT !.at = "gate"],
          [pass EXCEPT !.at = "fan", !.flags = Flags, !.todo = Flags,
                       !.saw = [unread |-> Unread, unaudited |-> Quotes \ audited, quotes |-> Quotes]]}
    BY <1>5 DEF Detect
  <2>2. \A saw : [pass EXCEPT !.at = "fan", !.flags = Flags, !.todo = Flags, !.saw = saw].at = "fan"
    BY <1>1
  <2>3. [pass EXCEPT !.at = "gate"].at = "gate" /\ NoPass.at = "idle"
    BY <1>1 DEF NoPass
  <2>4. pass'.at # "child"
    BY <2>1, <2>2, <2>3
  <2> QED
    BY <2>4 DEF AwaitInv
<1>6. CASE CrashAndBoot
  <2>1. pass' = NoPass \/ pass' = Restarted(pass)
    BY <1>6 DEF CrashAndBoot
  <2>2. Restarted(pass) = CASE pass.at \in {"idle", "detect", "gate", "send"} -> pass
          [] pass.at = "record" -> [pass EXCEPT !.at = "send", !.about = 0]
          [] OTHER -> [pass EXCEPT !.at = "fan", !.todo = pass.flags, !.done = {}, !.held = {}]
    BY DEF Restarted
  <2>3. Restarted(pass).at # "child"
    BY <1>1, <2>2
  <2> QED
    BY <2>1, <2>3 DEF AwaitInv, NoPass
<1>7. CASE /\ UNCHANGED <<reader, sensed, crashes>>
           /\ pass.at \in {"child", "detect"} => UNCHANGED pass
           /\ pass'.at = "child" => pass.at = "child"
  BY <1>7 DEF AwaitInv
<1>8. pass'.at = "child" => pass.at = "child" \/ \E w \in Readers : StartExtract(w)
  BY PassFields
     DEF PassSame, PassAnew, PassSenses, PassAsks, PassReads, PassHasRead, PassLoses, PassScrapes,
         PassAudits, PassHasAudited, PassCompares, PassRanks, PassHasCompared, PassAgain, Fields, ToFan
<1> QED
  BY <1>2, <1>3, <1>4, <1>5, <1>6, <1>7, <1>8, WaitingPassStays DEF ReaderActs

(* The books stay well formed, for any replies, modes, listings, readers   *)
(* and crashes: audits and watermarks name stored quotes, a pass does what *)
(* it detected, and an awaited extraction is there (quotePipeline.ts).     *)
THEOREM PipelineTypes == Spec => []TypeOK
<1> DEFINE Inv == /\ Shape /\ ChildInv /\ StoreInv /\ OrderInv /\ RankInv /\ AskInv /\ InputInv
                  /\ Counters /\ NamedInv /\ StepInv /\ AwaitInv
<1>1. Init => Inv
  <2> SUFFICES ASSUME Init PROVE Inv
    OBVIOUS
  <2>1. Shape
    BY ShapeInit
  <2>2. /\ Filed = {} /\ Quotes = {}
        /\ pass = NoPass /\ reader = [w \in Readers |-> NoReader] /\ tick = NoTick
        /\ admitted = NoTick.input /\ sensed = NoTick.input
    BY DEF Init, Filed, Quotes
  <2>3. ChildInv /\ StoreInv /\ OrderInv
    BY <2>2 DEF Init, ChildInv, StoreInv, OrderInv, NoPass, NoReader, Extractions
  <2>4. RankInv /\ AskInv /\ NamedInv /\ StepInv /\ AwaitInv
    BY <2>2 DEF Init, RankInv, ComparedWasRanked, AskInv, Owed, NamedInv, StepInv, AwaitInv, NoPass
  <2>5. InputInv
    BY DEF Init, InputInv, NoPass, NoTick, Frontiers, Within, Below
  <2>6. NoTick.input \in Frontiers
    BY DEF NoTick, Frontiers
  <2>7. Counters
    <3>1. {admitted, sensed} \subseteq Frontiers
      BY <2>2, <2>6
    <3>2. {drafts, fresh, cooled} \subseteq BOOLEAN
      BY DEF Init
    <3>3. {starts, fails} \subseteq Nat
      BY DEF Init
    <3> QED
      BY <3>1, <3>2, <3>3 DEF Counters
  <2> QED
    BY <2>1, <2>3, <2>4, <2>5, <2>7
<1>2. Inv /\ [Next]_vars => Inv'
  <2>1. ASSUME Inv, Next PROVE Inv'
    <3>1. (Shape /\ ChildInv /\ StoreInv /\ OrderInv)'
      BY <2>1, BooksGrow, ChildStep, StoreStep, OrderStep
    <3>2. (RankInv /\ AskInv /\ InputInv)'
      BY <2>1, RankStep, AskStep, InputStep
    <3>3. (Counters /\ NamedInv /\ StepInv /\ AwaitInv)'
      BY <2>1, CountersStep, NamedStep, StepsStep, AwaitStep
    <3> QED
      BY <3>1, <3>2, <3>3
  <2>2. ASSUME Inv, UNCHANGED vars PROVE Inv'
    <3>1. (Shape /\ ChildInv)'
      BY <2>2 DEF Shape, ChildInv, vars
    <3>2. (StoreInv /\ OrderInv)'
      BY <2>2 DEF StoreInv, OrderInv, Filed, Quotes, Unread, vars
    <3>3. (RankInv /\ AskInv /\ InputInv)'
      BY <2>2, RankStep, AskStep, InputStep
    <3>4. (Counters /\ NamedInv /\ StepInv /\ AwaitInv)'
      BY <2>2 DEF Counters, NamedInv, StepInv, AwaitInv, Quotes, vars
    <3> QED
      BY <3>1, <3>2, <3>3, <3>4
  <2> QED
    BY <2>1, <2>2
<1>3. Inv => TypeOK
  <2> SUFFICES ASSUME Inv PROVE TypeOK
    OBVIOUS
  <2>1. /\ pass \in Passes /\ status \in [Replies -> {"absent", "pending", "succeeded", "failed"}]
        /\ quote \in [Keys -> {"none", "reply"} \union Listings]
        /\ attempts \in [Replies -> Nat] /\ \A k \in Quotes : k[1] \in Filed
    BY DEF Shape, WellFormed, StoreInv
  <2>2. /\ reader \in [Readers -> Extractions]
        /\ (pass.at = "child") = (\E w \in Readers : reader[w].child)
    BY DEF ChildInv, AwaitInv
  <2>3. /\ tick \in [at : {"idle", "start", "record"}, input : Frontiers]
        /\ {admitted, sensed} \subseteq Frontiers /\ {drafts, fresh, cooled} \subseteq BOOLEAN
        /\ {asks, approvals, starts, fails, crashes} \subseteq Nat
    BY DEF InputInv, Counters, AskInv
  <2>4. /\ audited \union compared \union ranked \union aged \union pass.held \subseteq Quotes
        /\ pass.todo \union pass.done \subseteq pass.flags
    BY DEF NamedInv, StoreInv, RankInv, StepInv
  <2> QED
    BY <2>1, <2>2, <2>3, <2>4 DEF TypeOK
<1> HIDE DEF Inv
<1> QED
  BY <1>1, <1>2, <1>3, PTL DEF Spec
=============================================================================
