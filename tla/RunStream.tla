------------------------------- MODULE RunStream -------------------------------
(***************************************************************************)
(* What a watcher of one run sees.  The server keeps the run's frames in   *)
(* memory (RunPubSub), replays them to each new connection and then feeds  *)
(* it live; /stream-v2 turns a frame into chunks; the page's transport     *)
(* reconnects after a drop and skips, by count, what it already has; the   *)
(* page keeps the chunks as the parts of one message.  The process dies    *)
(* and boots, connections drop with chunks on the wire, pages are reloaded.*)
(*                                                                         *)
(* A frame is its number and its kind; payloads are left out.  The run     *)
(* behind it is reduced to where it stands (SkillRuns has the rest).       *)
(* Definitions named ...Bug are seeded faults.                             *)
(***************************************************************************)
EXTENDS Naturals, Sequences, SequencesExt

CONSTANTS
  MaxAttempts,  \* ReconnectPolicy.maxAttempts
  MaxFrames,    \* bound: frames a step emits
  MaxShots,     \* bound: those among them that carry a screenshot
  MaxGates,     \* bound: gates of the run
  MaxDrops,     \* bound: dropped connections and pages left
  MaxCrashes    \* bound: process deaths

ASSUME StreamAssumption ==
  {MaxAttempts, MaxFrames, MaxShots, MaxGates, MaxDrops, MaxCrashes} \subseteq Nat

VARIABLES
  run,     \* where the run stands in Mastra's storage
  owed,    \* its last settling is not yet translated into frames
  proc,    \* "up", "down"
  chan,    \* the run's channel; absent after a boot that did not reattach the run
  conn,    \* the page's connection: its queue, translator and socket
  view,    \* the page's transport and message
  minted, shots, gates, drops, crashes

bounds == <<minted, shots, gates, drops, crashes>>
vars == <<run, owed, proc, chan, conn, view, bounds>>

Ended == {"completed", "declined", "failed", "canceled"}
TerminalKind == {"done", "error", "declined", "canceled"}  \* the last two: aborted{reason}
StepKind == {"step", "browser"}   \* tool_call, tool_result and the like; browser.*
Kind == StepKind \cup TerminalKind \cup {"start", "init", "text", "gate", "shot"}
Frame == [n : Nat, k : Kind]

----------------------------------------------------------------------------
(* Frames and chunks *)

\* UiStreamTranslator: the chunks of frame f, the i-th of its connection.  A text has
\* its prose (one chunk here) and its metadata; an end has its frame and the end mark.
\* The id is what the page tells data parts apart by.
Chunk(f, part, id) == [n |-> f.n, k |-> f.k, part |-> part, id |-> id]
Translate(f, i) ==
  CASE f.k = "start" -> <<Chunk(f, "start", 0)>>
    [] f.k = "text" -> <<Chunk(f, "text", i), Chunk(f, "frame", i)>>
    [] f.k = "gate" -> <<Chunk(f, "gate", f.n)>>
    [] f.k \in {"browser", "shot"} -> <<Chunk(f, "live", i)>>
    [] f.k \in TerminalKind -> <<Chunk(f, "frame", i), Chunk(f, "end", i)>>
    [] OTHER -> <<Chunk(f, "frame", i)>>

TranslateAll(fs, i) == FlattenSeq([j \in DOMAIN fs |-> Translate(fs[j], i + j - 1)])

Start == [n |-> 0, k |-> "start"]

\* The page's projection counts a chunk if a replay has it again.
\* Seeded fault: every chunk counts.
ReplayStableBug(c) == TRUE
ReplayStable(c) == c.k # "shot"

\* useChat: a data part with a known id takes the old one's place; a text part is added;
\* browser parts are shown and not kept.
Place(parts, c) ==
  LET old == {j \in DOMAIN parts : parts[j].part = c.part /\ parts[j].id = c.id}
  IN  CASE c.part \in {"start", "live", "end"} -> parts
        [] c.part \in {"gate", "frame"} /\ old # {} -> [j \in DOMAIN parts |-> IF j \in old THEN c ELSE parts[j]]
        [] OTHER -> Append(parts, c)

----------------------------------------------------------------------------
(* RunPubSub *)

NoChannel == [open |-> FALSE, log |-> <<>>, terminal |-> FALSE]
NoConn == [fed |-> FALSE, wire |-> <<>>, at |-> 0]

\* The queue, the handler's loop and the socket are one line of chunks.
Fed(c, fs, closes) ==
  IF c.fed
    THEN [fed |-> ~ closes, wire |-> c.wire \o TranslateAll(fs, c.at), at |-> c.at + Len(fs)]
    ELSE c

\* append, for frames appended in one go: the first terminal one is the last.
\* Seeded fault: frames after the terminal one are kept.
HeardBug(fs) == fs
Heard(fs) == IF chan.terminal THEN <<>> ELSE fs
AppendFrames(fs) ==
  LET heard == Heard(fs)
      ends == \E j \in DOMAIN heard : heard[j].k \in TerminalKind
  IN  /\ chan' = [chan EXCEPT !.log = @ \o heard, !.terminal = @ \/ ends]
      /\ conn' = Fed(conn, heard, ends)

\* subscribe, and the replay the handler writes first.  A terminal channel is replayed
\* and closed.
\* Seeded fault: the queue is attached without the backlog.
SubscribedBug == [fed |-> ~ chan.terminal, wire |-> Translate(Start, 0), at |-> 0]
Subscribed ==
  [fed |-> ~ chan.terminal,
   wire |-> Translate(Start, 0) \o TranslateAll(chan.log, 0),
   at |-> Len(chan.log)]

----------------------------------------------------------------------------
(* The run and its frames *)

NewFrames(kinds) == [j \in 1 .. Len(kinds) |-> [n |-> minted + j, k |-> kinds[j]]]
Mint(kinds) == AppendFrames(NewFrames(kinds)) /\ minted' = minted + Len(kinds)

\* A frame of a step.  A browser may still be busy when the run has ended.
Emit(k) ==
  /\ proc = "up" /\ chan.open /\ minted < MaxFrames
  /\ k # "browser" => run = "executing" /\ ~ owed
  /\ Mint(<<k>>)
  /\ UNCHANGED <<run, owed, proc, view, shots, gates, drops, crashes>>

\* appendWithScreenshot: the frame is logged bare, and its picture is sent to the live
\* queue only (appendTransient).
EmitShot ==
  /\ proc = "up" /\ chan.open /\ minted < MaxFrames /\ shots < MaxShots
  /\ LET bare == [n |-> minted + 1, k |-> "browser"]
         shot == [n |-> minted + 2, k |-> "shot"]
         heard == Heard(<<bare>>)
     IN  /\ chan' = [chan EXCEPT !.log = @ \o heard]
         /\ conn' = IF chan.terminal THEN conn ELSE Fed(conn, <<bare, shot>>, FALSE)
  /\ minted' = minted + 2 /\ shots' = shots + 1
  /\ UNCHANGED <<run, owed, proc, view, gates, drops, crashes>>

\* The drive settles: the snapshot is durable before the frames of it are made.
Settle(to) ==
  /\ proc = "up" /\ run = "executing" /\ ~ owed
  /\ to = "parked" => gates < MaxGates
  /\ gates' = IF to = "parked" THEN gates + 1 ELSE gates
  /\ run' = to /\ owed' = TRUE
  /\ UNCHANGED <<proc, chan, conn, view, minted, shots, drops, crashes>>

\* translate.  The summary, the data pulse and the announcement of a chained scan come
\* before done, in one go.  A run the service does not track is not heard.
FramesOf(chained) ==
  CASE run = "parked" -> <<"gate">>
    [] run = "completed" -> IF chained THEN <<"text", "step", "text", "done">> ELSE <<"text", "step", "done">>
    [] run = "failed" -> <<"error">>
    [] OTHER -> <<run>>
TranslateResult(chained) ==
  /\ proc = "up" /\ owed /\ owed' = FALSE
  /\ chained => run = "completed"
  /\ IF chan.open THEN Mint(FramesOf(chained)) ELSE UNCHANGED <<chan, conn, minted>>
  /\ UNCHANGED <<run, proc, view, shots, gates, drops, crashes>>

\* translate throws on an ended run: its DELETE, before any frame, or the progress mark
\* of a completed one, after the summary.  The run is terminal, so nobody adds an end.
TranslateFails(kinds) ==
  /\ proc = "up" /\ owed /\ owed' = FALSE
  /\ chan.open /\ run \in Ended
  /\ kinds = <<>> \/ (kinds = <<"text">> /\ run = "completed")
  /\ Mint(kinds)
  /\ UNCHANGED <<run, proc, view, shots, gates, drops, crashes>>

\* formDecision, accepted; SkillRuns has its phases.  One refused before the engine took
\* it changes nothing here; one left running in its row is a run that never goes on.
Resume ==
  /\ proc = "up" /\ chan.open /\ run = "parked" /\ ~ owed
  /\ run' = "executing"
  /\ UNCHANGED <<owed, proc, chan, conn, view, bounds>>

\* The resume of a run that passed a gate rejects after the engine took it: the run is
\* over, the answer is an error, and nothing is translated.
ResumeRejected ==
  /\ proc = "up" /\ chan.open /\ run = "executing" /\ ~ owed /\ gates > 0
  /\ run' = "failed"
  /\ UNCHANGED <<owed, proc, chan, conn, view, bounds>>

\* Channels are process memory, and the sockets die with it.
Crash ==
  /\ proc = "up" /\ crashes < MaxCrashes /\ crashes' = crashes + 1
  /\ proc' = "down" /\ owed' = FALSE /\ chan' = NoChannel
  /\ conn' = [conn EXCEPT !.fed = FALSE, !.wire = <<>>]
  /\ UNCHANGED <<run, view, minted, shots, gates, drops>>

\* Boot: a parked run is reattached, with a new channel and its gate under a new
\* decision id; an executing run is restarted without a channel.
Reattached == <<"init", "gate">>
Boot ==
  /\ proc = "down" /\ proc' = "up"
  /\ IF run = "parked"
       THEN /\ chan' = [open |-> TRUE, log |-> NewFrames(Reattached), terminal |-> FALSE]
            /\ minted' = minted + Len(Reattached)
       ELSE UNCHANGED <<chan, minted>>
  /\ UNCHANGED <<run, owed, conn, view, shots, gates, drops, crashes>>

----------------------------------------------------------------------------
(* The page *)

Closed == [mode |-> "closed", given |-> <<>>, skip |-> 0, tries |-> 0, parts |-> <<>>]

\* Seeded fault: of statusSummary, a declined run is one that succeeded.
StatusShownBug ==
  CASE proc = "up" /\ run \in {"completed", "declined"} -> "done"
    [] proc = "up" /\ run = "canceled" -> "canceled"
    [] OTHER -> "error"
\* statusSummary, as the fallback shows it.  That a run was declined is read off the end
\* frame in its channel: a boot forgets it, and before the frame is logged the run passes
\* for one that succeeded.  A run that goes on, or a server that does not answer, is
\* shown as an error.
StatusShown ==
  CASE proc = "up" /\ run = "completed" -> "done"
    [] proc = "up" /\ run = "declined" -> IF chan.terminal THEN "declined" ELSE "done"
    [] proc = "up" /\ run = "canceled" -> "canceled"
    [] OTHER -> "error"
\* The page does not tell an early read, of a channel without its end, from a late one.
Fallback ==
  [n |-> 0, k |-> StatusShown, part |-> IF chan.terminal THEN "fallback" ELSE "early", id |-> 0]

\* A page opens the run: launched here, or a reload.  Without a channel the durable
\* end is shown, if there is one.
Open ==
  /\ proc = "up" /\ view.mode = "closed"
  /\ \/ /\ chan.open /\ conn' = Subscribed
        /\ view' = [Closed EXCEPT !.mode = "open"]
     \/ /\ ~ chan.open /\ run \in Ended
        /\ view' = [Closed EXCEPT !.mode = "landed", !.parts = <<Fallback>>]
        /\ conn' = conn
  /\ UNCHANGED <<run, owed, proc, chan, bounds>>

\* A reload, or another run is shown: the reader is canceled, the socket closes.
Leave ==
  /\ view.mode # "closed" /\ drops < MaxDrops /\ drops' = drops + 1
  /\ view' = Closed /\ conn' = NoConn
  /\ UNCHANGED <<run, owed, proc, chan, minted, shots, gates, crashes>>

\* The connection breaks; what is on the wire is lost.
Drop ==
  /\ view.mode = "open" /\ (conn.fed \/ conn.wire # <<>>)
  /\ drops < MaxDrops /\ drops' = drops + 1
  /\ conn' = NoConn
  /\ UNCHANGED <<run, owed, proc, chan, view, minted, shots, gates, crashes>>

\* pull, with a chunk: after a reconnect the known prefix is dropped, by count.
\* Seeded fault: one less, for a start chunk that may not have come.
ToSkipBug == Len(view.given) - 1
ToSkip == Len(view.given)
Read ==
  /\ view.mode = "open" /\ conn.wire # <<>>
  /\ LET c == Head(conn.wire)
     IN  view' = IF view.skip > 0
                   THEN [view EXCEPT !.skip = IF ReplayStable(c) THEN @ - 1 ELSE @]
                   ELSE [view EXCEPT !.given = IF ReplayStable(c) THEN Append(@, c) ELSE @,
                                     !.parts = Place(@, c)]
  /\ conn' = [conn EXCEPT !.wire = Tail(@)]
  /\ UNCHANGED <<run, owed, proc, chan, bounds>>

SawEnd == \E j \in DOMAIN view.given : view.given[j].part = "end"

\* pull, at the end of the stream: after an end mark the turn lands, otherwise the
\* stream was dropped.
StreamEnds ==
  /\ view.mode = "open" /\ ~ conn.fed /\ conn.wire = <<>>
  /\ view' = IF SawEnd THEN [view EXCEPT !.mode = "landed"]
             ELSE [view EXCEPT !.mode = "retry", !.tries = 0]
  /\ UNCHANGED <<run, owed, proc, chan, conn, bounds>>

Reconnect ==
  /\ view.mode = "retry" /\ view.tries < MaxAttempts
  /\ proc = "up" /\ chan.open
  /\ conn' = Subscribed
  /\ view' = [view EXCEPT !.mode = "open", !.skip = ToSkip]
  /\ UNCHANGED <<run, owed, proc, chan, bounds>>

\* No server, no channel (404), or a network that fails once more.
AttemptFails ==
  /\ view.mode = "retry" /\ view.tries < MaxAttempts
  /\ view' = [view EXCEPT !.tries = @ + 1]
  /\ UNCHANGED <<run, owed, proc, chan, conn, bounds>>

\* The attempts are used up: one status read lands the turn.
\* Seeded fault: an answer that is an error is not taken for the end of the run.
GivesUpBug == view.tries = MaxAttempts /\ StatusShown # "error"
GivesUp == view.tries = MaxAttempts
FallBack ==
  /\ view.mode = "retry" /\ GivesUp
  /\ view' = [view EXCEPT !.mode = "landed", !.parts = Append(@, Fallback)]
  /\ UNCHANGED <<run, owed, proc, chan, conn, bounds>>

----------------------------------------------------------------------------

Init ==
  /\ run = "executing" /\ owed = FALSE /\ proc = "up"
  /\ chan = [open |-> TRUE, log |-> <<[n |-> 1, k |-> "init"]>>, terminal |-> FALSE]
  /\ conn = NoConn /\ view = Closed
  /\ minted = 1 /\ shots = 0 /\ gates = 0 /\ drops = 0 /\ crashes = 0

Next ==
  \/ \E k \in StepKind : Emit(k)
  \/ \E to \in Ended \cup {"parked"} : Settle(to)
  \/ \E chained \in BOOLEAN : TranslateResult(chained)
  \/ \E kinds \in {<<>>, <<"text">>} : TranslateFails(kinds)
  \/ EmitShot \/ Resume \/ ResumeRejected \/ Crash \/ Boot
  \/ Open \/ Leave \/ Drop \/ Read \/ StreamEnds \/ Reconnect \/ AttemptFails \/ FallBack

Spec == Init /\ [][Next]_vars

\* The page's reader and its timers run, the translation follows its promise, and a
\* dead process is booted again.  Nothing makes the run itself go on.
FairSpec ==
  /\ Spec
  /\ WF_vars(Read) /\ WF_vars(StreamEnds) /\ WF_vars(FallBack)
  /\ WF_vars(Reconnect \/ AttemptFails)
  /\ WF_vars(\/ \E chained \in BOOLEAN : TranslateResult(chained)
             \/ \E kinds \in {<<>>, <<"text">>} : TranslateFails(kinds))
  /\ WF_vars(Boot)

----------------------------------------------------------------------------
(* Properties *)

Part == {"start", "text", "frame", "gate", "live", "end", "fallback", "early"}
ChunkSet == [n : Nat, k : Kind, part : Part, id : Nat]

\* The shape of the state.
TypeOK ==
  /\ run \in Ended \cup {"executing", "parked"} /\ owed \in BOOLEAN
  /\ proc \in {"up", "down"}
  /\ chan \in [open : BOOLEAN, log : Seq(Frame), terminal : BOOLEAN]
  /\ conn \in [fed : BOOLEAN, wire : Seq(ChunkSet), at : Nat]
  /\ view \in [mode : {"closed", "open", "retry", "landed"}, given : Seq(ChunkSet),
               skip : Nat, tries : 0 .. MaxAttempts, parts : Seq(ChunkSet)]
  /\ {minted, shots, gates, drops, crashes} \subseteq Nat

\* "The terminal frame wins": a channel has one terminal frame, its last, whatever
\* was still emitting when the run ended.
OneEnd ==
  \A j \in DOMAIN chan.log : chan.log[j].k \in TerminalKind => j = Len(chan.log)

\* What a chunk stands for, its id aside.
Meaning(cs) == [j \in DOMAIN cs |-> <<cs[j].n, cs[j].part>>]

\* Nothing is lost or doubled over drops, replays and screenshots: in the life of one
\* process the page was given a prefix of the backlog's chunks, and all of it once the
\* stream landed the turn.
NothingLostOrDoubled ==
  crashes = 0 =>
    LET all == Translate(Start, 0) \o TranslateAll(chan.log, 0)
    IN  /\ IsPrefix(Meaning(view.given), Meaning(all))
        /\ view.mode = "landed" /\ SawEnd => Len(view.given) = Len(all)

\* What the page says of the run: projectAssistantTurn, over the kept parts in order.
ShownStatus ==
  LET speaks == {j \in DOMAIN view.parts : view.parts[j].k \in TerminalKind \cup {"gate"}}
  IN  IF speaks = {} THEN "running"
      ELSE view.parts[CHOOSE j \in speaks : \A i \in speaks : i <= j].k

\* A turn that landed over the stream, or over the status read of the process that
\* ran the run, says how the run ended - and the page never says a run has ended
\* while it goes on, unless it could not be reached.  But a decline whose end frame
\* was not yet (or never) logged when its status was read passes for a success.
EarlyDecline ==
  run = "declined" /\ \E j \in DOMAIN view.parts : view.parts[j].part = "early"
TrueEnding ==
  crashes = 0 /\ shots = 0 =>
    /\ ShownStatus = "done" => run = "completed" \/ EarlyDecline
    /\ ShownStatus \in {"declined", "canceled"} => run = ShownStatus
    /\ view.mode = "landed" /\ SawEnd => ShownStatus \in TerminalKind

\* The run has ended and no end frame will ever say so: its translation threw, or its
\* resume was rejected.
Muted == run \in Ended /\ ~ owed /\ chan.open /\ ~ chan.terminal

\* A turn lands: while a page watches a run that has ended, it gets to the end, by the
\* stream or by the status read - except over a channel that a boot made anew, whose
\* backlog is shorter than the count to skip, and over the channel of a muted run,
\* which stays open without an end until the process dies.
TurnLands ==
  (run \in Ended /\ view.mode \in {"open", "retry"})
    ~> (view.mode \in {"landed", "closed"} \/ Muted \/ (crashes > 0 /\ chan.open))

\* The page has the gate the run is parked at.
HasGate ==
  \E j \in DOMAIN view.parts :
    /\ view.parts[j].part = "gate"
    /\ \A i \in DOMAIN chan.log : chan.log[i].k = "gate" => chan.log[i].n <= view.parts[j].n

\* A page that watches a parked run comes to show its gate (same exception).
GateShows ==
  (run = "parked" /\ ~ owed /\ view.mode \in {"open", "retry"})
    ~> (\/ HasGate \/ run # "parked"
        \/ view.mode \in {"closed", "landed"} \/ (crashes > 0 /\ chan.open))

\* streamV2.ts:29-30: part ids derive from the backlog position, "so a replayed backlog
\* produces identical ids - reconcile-safe": no part the page was given is overwritten
\* by another frame.
\* Violated: a screenshot takes a position on a live connection and none in a replay;
\* after a reconnect a new frame comes under the id of an old one and replaces it.
NoPartOverwritten ==
  \A j \in DOMAIN view.given :
    view.given[j].part \in {"frame", "gate"} =>
      \E i \in DOMAIN view.parts : view.parts[i].n = view.given[j].n /\ view.parts[i].part # "text"
=============================================================================
