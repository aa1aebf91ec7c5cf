---------------------------- MODULE RunStreamProofs ----------------------------
(***************************************************************************)
(* What a watcher is given and shown, for any bounds.                      *)
(*   ChanInv    the flag that append looks at is tied to the log it guards *)
(*   LineInv    in the life of one process: what the page was given is a   *)
(*              prefix of the backlog, and what is on the wire of a live   *)
(*              connection is the rest of it, from the place the page is   *)
(*              at (a reconnect goes back to the start, and its skip count *)
(*              takes it off again); screenshots are on no backlog, so     *)
(*              both are compared by what ReplayStable leaves of them      *)
(*   SaysInv    no chunk anywhere tells of an ending the run does not have *)
(*              but for an early read of a decline                         *)
(*   ExactInv   without screenshots, the same chunks under the same ids    *)
(*   PlacesInv  and the terminal frame is then the last part kept          *)
(* Sequences are reasoned about by induction on their length, stated with  *)
(* sets (SeqGrows): a set that has <<>> and is closed under Append has     *)
(* every sequence.                                                         *)
(***************************************************************************)
EXTENDS RunStream, SequenceTheorems, WellFoundedInduction, TLAPS

Channel == [open : BOOLEAN, log : Seq(Frame), terminal : BOOLEAN]

\* The flag is up as soon as the log has a terminal frame.
FlagUp == (\E j \in DOMAIN chan.log : chan.log[j].k \in TerminalKind) => chan.terminal

ChanInv ==
  /\ chan \in Channel /\ minted \in Nat
  /\ run \in Ended \cup {"executing", "parked"}
  /\ (owed => run # "executing") /\ owed \in BOOLEAN
  /\ FlagUp /\ OneEnd

----------------------------------------------------------------------------
\* Frames made in one go are frames, numbered on from the last, and keep their kinds.
LEMMA NewFramesType ==
  ASSUME minted \in Nat, NEW kinds \in Seq(Kind)
  PROVE  /\ NewFrames(kinds) \in Seq(Frame) /\ Len(NewFrames(kinds)) = Len(kinds)
         /\ \A j \in 1 .. Len(kinds) : NewFrames(kinds)[j].k = kinds[j]
<1>1. \A j \in 1 .. Len(kinds) : [n |-> minted + j, k |-> kinds[j]] \in Frame
  BY DEF Frame
<1> QED
  BY <1>1 DEF NewFrames

\* What translate makes of a settled run ends at its first terminal frame.
LEMMA TranslatedEndsLast ==
  ASSUME run \in Ended \cup {"executing", "parked"}, run # "executing",
         NEW chained \in BOOLEAN
  PROVE  /\ FramesOf(chained) \in Seq(Kind)
         /\ \A j \in 1 .. Len(FramesOf(chained)) :
              FramesOf(chained)[j] \in TerminalKind => j = Len(FramesOf(chained))
<1>1. CASE run = "completed" /\ chained
  BY <1>1 DEF FramesOf, Kind, TerminalKind, StepKind
<1>2. CASE run = "completed" /\ ~ chained
  BY <1>2 DEF FramesOf, Kind, TerminalKind, StepKind
<1>3. CASE run = "parked"
  BY <1>3 DEF FramesOf, Kind, TerminalKind, StepKind
<1>4. CASE run = "failed"
  BY <1>4 DEF FramesOf, Kind, TerminalKind, StepKind
<1>5. CASE run \in {"declined", "canceled"}
  <2>1. FramesOf(chained) = <<run>> /\ run \in Kind
    BY <1>5 DEF FramesOf, Kind, TerminalKind
  <2> QED
    BY <2>1
<1> QED
  BY <1>1, <1>2, <1>3, <1>4, <1>5 DEF Ended

\* A translation that throws has made no frame, or the summary only.
LEMMA FailedFrames ==
  ASSUME NEW kinds \in {<<>>, <<"text">>}
  PROVE  kinds \in Seq(Kind) /\ \A j \in 1 .. Len(kinds) : kinds[j] = "text"
<1>1. CASE kinds = <<>>
  BY <1>1
<1>2. CASE kinds = <<"text">>
  BY <1>2 DEF Kind
<1> QED
  BY <1>1, <1>2

\* A channel whose log is what it was, with the flag no lower, is as good as before.
LEMMA SameLog ==
  ASSUME ChanInv, chan' \in Channel, chan'.log = chan.log,
         chan.terminal => chan'.terminal
  PROVE  FlagUp' /\ OneEnd'
BY DEF ChanInv, FlagUp, OneEnd

\* A log without a terminal frame, continued by frames that end at their first one.
LEMMA Grown ==
  ASSUME NEW log \in Seq(Frame), NEW fs \in Seq(Frame),
         \A j \in 1 .. Len(log) : log[j].k \notin TerminalKind,
         \A j \in 1 .. Len(fs) : fs[j].k \in TerminalKind => j = Len(fs),
         NEW j \in DOMAIN (log \o fs), (log \o fs)[j].k \in TerminalKind
  PROVE  j = Len(log \o fs) /\ \E i \in DOMAIN fs : fs[i].k \in TerminalKind
<1>1. /\ log \o fs \in Seq(Frame) /\ Len(log \o fs) = Len(log) + Len(fs)
      /\ \A i \in 1 .. Len(log) + Len(fs) :
           (log \o fs)[i] = IF i <= Len(log) THEN log[i] ELSE fs[i - Len(log)]
  BY ConcatProperties
<1>2. Len(log) \in Nat /\ Len(fs) \in Nat /\ DOMAIN fs = 1 .. Len(fs)
  BY LenProperties
<1>3. j \in 1 .. Len(log) + Len(fs)
  BY <1>1, LenProperties
<1> DEFINE L == Len(log) F == Len(fs) whole == log \o fs
<1> HIDE DEF L, F, whole
<1>4. /\ L \in Nat /\ F \in Nat /\ j \in 1 .. L + F /\ Len(whole) = L + F
      /\ whole[j] = IF j <= L THEN log[j] ELSE fs[j - L]
      /\ whole[j].k \in TerminalKind
      /\ \A i \in 1 .. L : log[i].k \notin TerminalKind
      /\ \A i \in 1 .. F : fs[i].k \in TerminalKind => i = F
  BY <1>1, <1>2, <1>3 DEF L, F, whole
<1>5. ~ (j <= L)
  BY <1>4
<1>6. j - L \in 1 .. F /\ fs[j - L].k \in TerminalKind
  BY <1>4, <1>5
<1>7. j = Len(whole)
  BY <1>4, <1>6
<1> QED
  BY <1>2, <1>6, <1>7 DEF F, whole

\* append keeps the channel, if what it is given ends at its first terminal frame.
LEMMA AppendKeeps ==
  ASSUME ChanInv, NEW fs \in Seq(Frame),
         \A j \in 1 .. Len(fs) : fs[j].k \in TerminalKind => j = Len(fs),
         AppendFrames(fs)
  PROVE  chan' \in Channel /\ FlagUp' /\ OneEnd'
<1>1. chan.log \in Seq(Frame) /\ chan.terminal \in BOOLEAN
  BY DEF ChanInv, Channel
<1>2. CASE chan.terminal = TRUE
  <2>1. chan' = [chan EXCEPT !.log = chan.log \o <<>>, !.terminal = TRUE]
    BY <1>2 DEF AppendFrames, Heard
  <2>2. chan.log \o <<>> = chan.log
    BY <1>1, ConcatEmptySeq
  <2>3. chan' \in Channel /\ chan'.log = chan.log /\ chan'.terminal = TRUE
    BY <2>1, <2>2 DEF ChanInv, Channel
  <2> QED
    BY <2>3, SameLog
<1>3. CASE chan.terminal = FALSE
  <2> DEFINE ends == \E j \in DOMAIN fs : fs[j].k \in TerminalKind
  <2>1. chan' = [chan EXCEPT !.log = chan.log \o fs, !.terminal = ends]
    BY <1>3 DEF AppendFrames, Heard
  <2>2. chan.log \o fs \in Seq(Frame)
    BY <1>1, ConcatProperties
  <2>3. chan' \in Channel /\ chan'.log = chan.log \o fs /\ chan'.terminal = ends
    <3> HIDE DEF ends
    <3>1. ends \in BOOLEAN
      BY DEF ends
    <3> QED
      BY <2>1, <2>2, <3>1 DEF ChanInv, Channel
  <2>4. \A j \in 1 .. Len(chan.log) : chan.log[j].k \notin TerminalKind
    BY <1>1, <1>3, LenProperties DEF ChanInv, FlagUp
  <2>5. \A j \in DOMAIN (chan.log \o fs) :
          (chan.log \o fs)[j].k \in TerminalKind => j = Len(chan.log \o fs) /\ ends
    BY <1>1, <2>4, Grown
  <2> QED
    BY <2>3, <2>5 DEF FlagUp, OneEnd
<1> QED
  BY <1>1, <1>2, <1>3

----------------------------------------------------------------------------
LEMMA ChanInit == Init => ChanInv
<1> SUFFICES ASSUME Init PROVE ChanInv
  OBVIOUS
<1>1. [n |-> 1, k |-> "init"] \in Frame
  BY DEF Frame, Kind
<1>2. chan \in Channel /\ chan.log = <<[n |-> 1, k |-> "init"]>>
  BY <1>1 DEF Init, Channel
<1>3. \A j \in DOMAIN chan.log : chan.log[j].k \notin TerminalKind
  BY <1>2 DEF TerminalKind
<1> QED
  BY <1>2, <1>3 DEF Init, ChanInv, FlagUp, OneEnd

LEMMA ChanStep == ChanInv /\ [Next]_vars => ChanInv'
<1> SUFFICES ASSUME ChanInv, [Next]_vars PROVE ChanInv'
  OBVIOUS
<1>1. ASSUME NEW k \in StepKind, Emit(k) PROVE ChanInv'
  <2> DEFINE kinds == <<k>>
  <2>1. kinds \in Seq(Kind) /\ Len(kinds) = 1 /\ kinds[1] = k /\ k \notin TerminalKind
    BY DEF Kind, StepKind, TerminalKind
  <2>2. AppendFrames(NewFrames(kinds)) /\ minted' = minted + 1 /\ UNCHANGED <<run, owed>>
    BY <1>1, <2>1 DEF Emit, Mint
  <2> HIDE DEF kinds
  <2>3. /\ NewFrames(kinds) \in Seq(Frame) /\ Len(NewFrames(kinds)) = 1
        /\ NewFrames(kinds)[1].k = k
    BY <2>1, NewFramesType DEF ChanInv
  <2> QED
    BY <2>1, <2>2, <2>3, AppendKeeps DEF ChanInv
<1>2. ASSUME EmitShot PROVE ChanInv'
  <2> DEFINE fs == <<[n |-> minted + 1, k |-> "browser"]>>
  <2>1. fs \in Seq(Frame) /\ Len(fs) = 1 /\ fs[1].k = "browser" /\ "browser" \notin TerminalKind
    BY DEF ChanInv, Frame, Kind, StepKind, TerminalKind
  <2> HIDE DEF fs
  <2>2. chan' = [chan EXCEPT !.log = @ \o Heard(fs)] /\ chan.terminal \in BOOLEAN
        /\ chan.log \in Seq(Frame)
    BY <1>2 DEF EmitShot, ChanInv, Channel, fs
  <2>3. CASE chan.terminal = TRUE
    <3>1. chan' = chan
      <4>1. chan.log \o Heard(fs) = chan.log
        BY <2>2, <2>3, ConcatEmptySeq DEF Heard
      <4>2. chan \in Channel
        BY DEF ChanInv
      <4> QED
        BY <2>2, <4>1, <4>2 DEF Channel
    <3>2. chan' \in Channel /\ chan'.log = chan.log /\ chan'.terminal = TRUE
      BY <2>3, <3>1 DEF ChanInv
    <3> QED
      <4>1. FlagUp' /\ OneEnd'
        BY <2>3, <3>2, SameLog
      <4>2. minted' = minted + 2 /\ UNCHANGED <<run, owed>>
        BY <1>2 DEF EmitShot
      <4> QED
        BY <3>2, <4>1, <4>2 DEF ChanInv
  <2>4. CASE chan.terminal = FALSE
    <3>1. chan' = [chan EXCEPT !.log = chan.log \o fs]
      BY <2>2, <2>4 DEF Heard
    <3>2. chan.log \o fs \in Seq(Frame)
      BY <2>1, <2>2, ConcatProperties
    <3>3. chan' \in Channel /\ chan'.log = chan.log \o fs
      BY <3>1, <3>2 DEF ChanInv, Channel
    <3>4. \A j \in 1 .. Len(chan.log) : chan.log[j].k \notin TerminalKind
      BY <2>2, <2>4, LenProperties DEF ChanInv, FlagUp
    <3>5. \A j \in 1 .. Len(fs) : fs[j].k \notin TerminalKind
      BY <2>1
    <3>6. \A j \in DOMAIN chan'.log : chan'.log[j].k \notin TerminalKind
      <4> SUFFICES ASSUME NEW j \in DOMAIN (chan.log \o fs),
                          (chan.log \o fs)[j].k \in TerminalKind
                   PROVE  FALSE
        BY <3>3
      <4>1. \E i \in DOMAIN fs : fs[i].k \in TerminalKind
        BY <2>1, <2>2, <3>4, <3>5, Grown
      <4> QED
        BY <2>1, <3>5, <4>1, LenProperties
    <3>7. FlagUp' /\ OneEnd'
      BY <3>6 DEF FlagUp, OneEnd
    <3>8. minted' = minted + 2 /\ UNCHANGED <<run, owed>>
      BY <1>2 DEF EmitShot
    <3> QED
      BY <3>3, <3>7, <3>8 DEF ChanInv
  <2> QED
    BY <2>2, <2>3, <2>4
<1>3. ASSUME NEW to \in Ended \cup {"parked"}, Settle(to) PROVE ChanInv'
  BY <1>3 DEF Settle, ChanInv, FlagUp, OneEnd, Ended
<1>4. ASSUME NEW chained \in BOOLEAN, TranslateResult(chained) PROVE ChanInv'
  <2>1. CASE ~ chan.open
    BY <1>4, <2>1 DEF TranslateResult, ChanInv, FlagUp, OneEnd
  <2>2. run # "executing"
    BY <1>4 DEF TranslateResult, ChanInv
  <2>3. CASE chan.open
    <3> DEFINE kinds == FramesOf(chained)
    <3>1. /\ kinds \in Seq(Kind)
          /\ \A j \in 1 .. Len(kinds) : kinds[j] \in TerminalKind => j = Len(kinds)
      BY <2>2, TranslatedEndsLast DEF ChanInv
    <3> HIDE DEF kinds
    <3>2. /\ NewFrames(kinds) \in Seq(Frame) /\ Len(NewFrames(kinds)) = Len(kinds)
          /\ \A j \in 1 .. Len(kinds) : NewFrames(kinds)[j].k = kinds[j]
      BY <3>1, NewFramesType DEF ChanInv
    <3>3. AppendFrames(NewFrames(kinds)) /\ minted' = minted + Len(kinds) /\ run' = run
          /\ owed' = FALSE
      BY <1>4, <2>3 DEF TranslateResult, Mint, kinds
    <3>4. chan' \in Channel /\ FlagUp' /\ OneEnd'
      BY <3>1, <3>2, <3>3, AppendKeeps
    <3>5. minted' \in Nat
      BY <3>1, <3>3, LenProperties DEF ChanInv
    <3> QED
      BY <3>3, <3>4, <3>5 DEF ChanInv
  <2> QED
    BY <2>1, <2>3 DEF ChanInv, Channel
<1>9. ASSUME NEW kinds \in {<<>>, <<"text">>}, TranslateFails(kinds) PROVE ChanInv'
  <2>1. kinds \in Seq(Kind) /\ \A j \in 1 .. Len(kinds) : kinds[j] = "text"
    BY FailedFrames
  <2>2. /\ NewFrames(kinds) \in Seq(Frame) /\ Len(NewFrames(kinds)) = Len(kinds)
        /\ \A j \in 1 .. Len(kinds) : NewFrames(kinds)[j].k = "text"
    BY <2>1, NewFramesType DEF ChanInv
  <2>3. AppendFrames(NewFrames(kinds)) /\ minted' = minted + Len(kinds) /\ run' = run
        /\ owed' = FALSE
    BY <1>9 DEF TranslateFails, Mint
  <2>4. chan' \in Channel /\ FlagUp' /\ OneEnd'
    BY <2>1, <2>2, <2>3, AppendKeeps DEF TerminalKind
  <2>5. minted' \in Nat
    BY <2>1, <2>3, LenProperties DEF ChanInv
  <2> QED
    BY <2>3, <2>4, <2>5 DEF ChanInv
<1>5. ASSUME Boot PROVE ChanInv'
  <2>1. CASE run # "parked"
    BY <1>5, <2>1 DEF Boot, ChanInv, FlagUp, OneEnd
  <2>2. CASE run = "parked"
    <3>1. Reattached \in Seq(Kind) /\ Len(Reattached) = 2
          /\ \A j \in 1 .. 2 : Reattached[j] \notin TerminalKind
      BY DEF Reattached, Kind, TerminalKind
    <3>2. /\ NewFrames(Reattached) \in Seq(Frame) /\ Len(NewFrames(Reattached)) = 2
          /\ \A j \in 1 .. 2 : NewFrames(Reattached)[j].k = Reattached[j]
      BY <3>1, NewFramesType DEF ChanInv
    <3> DEFINE frames == NewFrames(Reattached)
    <3>3. /\ chan' = [open |-> TRUE, log |-> frames, terminal |-> FALSE]
          /\ minted' = minted + 2 /\ UNCHANGED <<run, owed>>
      BY <1>5, <2>2, <3>1 DEF Boot
    <3>4. frames \in Seq(Frame) /\ \A j \in DOMAIN frames : frames[j].k \notin TerminalKind
      BY <3>1, <3>2
    <3> HIDE DEF frames
    <3>5. chan' \in Channel /\ chan'.log = frames
      BY <3>3, <3>4 DEF Channel
    <3> QED
      BY <3>3, <3>4, <3>5 DEF ChanInv, FlagUp, OneEnd
  <2> QED
    BY <2>1, <2>2
<1>6. ASSUME Crash PROVE ChanInv'
  <2>1. chan' \in Channel /\ DOMAIN chan'.log = {}
    BY <1>6 DEF Crash, NoChannel, Channel
  <2> QED
    BY <1>6, <2>1 DEF Crash, ChanInv, FlagUp, OneEnd
<1>7. ASSUME UNCHANGED <<chan, minted, owed>>,
             UNCHANGED run \/ (~ owed /\ run' \in {"executing", "failed"})
      PROVE ChanInv'
  BY <1>7 DEF ChanInv, FlagUp, OneEnd, Ended
<1>8. Resume \/ ResumeRejected \/ Open \/ Leave \/ Drop \/ Read \/ StreamEnds \/ Reconnect \/ AttemptFails
        \/ FallBack \/ UNCHANGED vars
      => /\ UNCHANGED <<chan, minted, owed>>
         /\ UNCHANGED run \/ (~ owed /\ run' \in {"executing", "failed"})
  BY DEF Resume, ResumeRejected, Open, Leave, Drop, Read, StreamEnds, Reconnect, AttemptFails, FallBack,
         vars, bounds
<1> QED
  BY <1>1, <1>2, <1>3, <1>4, <1>5, <1>6, <1>7, <1>8, <1>9 DEF Next

\* runPubSub.ts, SINGLE-TERMINAL-FRAME INVARIANT: for any number of frames, gates, drops
\* and crashes, a channel has at most one terminal frame and it is the last.
THEOREM TerminalFrameWins == Spec => []OneEnd
<1>1. Init => ChanInv
  BY ChanInit
<1>2. ChanInv /\ [Next]_vars => ChanInv'
  BY ChanStep
<1>3. ChanInv => OneEnd
  BY DEF ChanInv
<1> QED
  BY <1>1, <1>2, <1>3, PTL DEF Spec

----------------------------------------------------------------------------
(* Flattening.  Induction over the length of a sequence, in the form the provers can *)
(* use: a set of sequences that has the empty one and every continuation of its own. *)

LEMMA SeqGrows ==
  ASSUME NEW S, NEW T, <<>> \in T,
         \A s \in Seq(S), x \in S : s \in T => Append(s, x) \in T
  PROVE  Seq(S) \subseteq T
<1> SUFFICES ASSUME NEW bad \in Seq(S), bad \notin T PROVE FALSE
  OBVIOUS
<1> DEFINE N == {n \in Nat : \E s \in Seq(S) : s \notin T /\ Len(s) = n}
<1>1. Len(bad) \in N
  BY LenProperties
<1>2. PICK n \in N : \A m \in N : ~ (<<m, n>> \in OpToRel(<, Nat))
  <2>1. N \subseteq Nat /\ N # {}
    BY <1>1
  <2> HIDE DEF N
  <2> QED
    BY <2>1, WFMin, NatLessThanWellFounded
<1>3. \A m \in N : ~ (m < n)
  BY <1>2 DEF OpToRel
<1>4. PICK s \in Seq(S) : s \notin T /\ Len(s) = n
  OBVIOUS
<1>5. PICK f \in Seq(S), x \in S : s = Append(f, x)
  BY <1>4, SequenceEmptyOrAppend
<1>6. Len(f) \in Nat /\ Len(s) = Len(f) + 1
  BY <1>5, AppendProperties, LenProperties
<1>7. f \notin T
  BY <1>4, <1>5
<1>8. Len(f) \in N
  BY <1>6, <1>7
<1>9. Len(f) < n
  BY <1>4, <1>6
<1> QED
  BY <1>3, <1>8, <1>9

\* g is what FlattenSeq's recursion computes on the prefixes of s.
Flattens(g, s) ==
  g = [i \in 1 .. Len(s) |-> IF i = 1 THEN s[i] ELSE g[i - 1] \o s[i]]

LEMMA FlattensTwice ==
  ASSUME NEW S
  PROVE  \A s \in Seq(S) : \A g, h : Flattens(g, s) /\ Flattens(h, s) => g = h
<1> DEFINE T == {s \in Seq(S) : \A g, h : Flattens(g, s) /\ Flattens(h, s) => g = h}
<1>1. <<>> \in T
  <2>1. <<>> \in Seq(S) /\ Len(<<>>) = 0
    BY EmptySeq
  <2>2. \A g, h : Flattens(g, <<>>) /\ Flattens(h, <<>>) => g = h
    BY <2>1 DEF Flattens
  <2> QED
    BY <2>1, <2>2
<1>2. ASSUME NEW s \in Seq(S), NEW x \in S, s \in T PROVE Append(s, x) \in T
  <2> DEFINE w == Append(s, x)  n == Len(s)
  <2>1. /\ w \in Seq(S) /\ Len(w) = n + 1 /\ n \in Nat
        /\ \A i \in 1 .. n : w[i] = s[i]
    BY AppendProperties, LenProperties
  <2> HIDE DEF w, n
  <2>2. ASSUME NEW g, NEW h, Flattens(g, w), Flattens(h, w) PROVE g = h
    <3> DEFINE gs == [i \in 1 .. n |-> g[i]]  hs == [i \in 1 .. n |-> h[i]]
    <3>1. /\ g = [i \in 1 .. n + 1 |-> IF i = 1 THEN w[i] ELSE g[i - 1] \o w[i]]
          /\ h = [i \in 1 .. n + 1 |-> IF i = 1 THEN w[i] ELSE h[i - 1] \o w[i]]
      BY <2>1, <2>2 DEF Flattens
    <3>2. ASSUME NEW f, f = [i \in 1 .. n + 1 |-> IF i = 1 THEN w[i] ELSE f[i - 1] \o w[i]]
          PROVE  Flattens([i \in 1 .. n |-> f[i]], s)
      <4> DEFINE fs == [i \in 1 .. n |-> f[i]]
      <4>1. \A i \in 1 .. n : fs[i] = IF i = 1 THEN s[i] ELSE fs[i - 1] \o s[i]
        <5> SUFFICES ASSUME NEW i \in 1 .. n
                     PROVE  fs[i] = IF i = 1 THEN s[i] ELSE fs[i - 1] \o s[i]
          OBVIOUS
        <5>1. f[i] = IF i = 1 THEN s[i] ELSE f[i - 1] \o s[i]
          <6>1. i \in 1 .. n + 1 /\ w[i] = s[i]
            BY <2>1
          <6> QED
            BY <3>2, <6>1
        <5>2. i # 1 => i - 1 \in 1 .. n
          BY <2>1
        <5> QED
          BY <5>1, <5>2
      <4>2. fs = [i \in 1 .. n |-> IF i = 1 THEN s[i] ELSE fs[i - 1] \o s[i]]
        BY <4>1
      <4> QED
        BY <4>2 DEF Flattens, n
    <3>3. Flattens(gs, s) /\ Flattens(hs, s)
      BY <3>1, <3>2
    <3>4. gs = hs
      BY <3>3, <1>2
    <3>5. \A i \in 1 .. n : g[i] = h[i]
      <4>1. \A i \in 1 .. n : gs[i] = g[i] /\ hs[i] = h[i]
        OBVIOUS
      <4> QED
        BY <3>4, <4>1
    <3>6. \A i \in 1 .. n + 1 : g[i] = h[i]
      <4> SUFFICES ASSUME NEW i \in 1 .. n + 1 PROVE g[i] = h[i]
        OBVIOUS
      <4>1. i # 1 => g[i - 1] = h[i - 1]
        BY <2>1, <3>5
      <4>2. /\ g[i] = IF i = 1 THEN w[i] ELSE g[i - 1] \o w[i]
            /\ h[i] = IF i = 1 THEN w[i] ELSE h[i - 1] \o w[i]
        BY <3>1
      <4> QED
        BY <4>1, <4>2
    <3>7. g = [i \in 1 .. n + 1 |-> g[i]] /\ h = [i \in 1 .. n + 1 |-> h[i]]
      BY <3>1
    <3> QED
      BY <3>6, <3>7
  <2> QED
    BY <2>1, <2>2 DEF w
<1>3. Seq(S) \subseteq T
  <2> HIDE DEF T
  <2> QED
    BY <1>1, <1>2, SeqGrows
<1> QED
  BY <1>3

LEMMA FlattensOnce ==
  ASSUME NEW S
  PROVE  \A s \in Seq(Seq(S)) : \E g : Flattens(g, s)
<1> DEFINE T == {s \in Seq(Seq(S)) : \E g : Flattens(g, s)}
<1>1. <<>> \in T
  <2>1. <<>> \in Seq(Seq(S)) /\ Len(<<>>) = 0
    BY EmptySeq
  <2> DEFINE g == [i \in 1 .. 0 |-> <<>>]
  <2>2. g = [i \in 1 .. 0 |-> IF i = 1 THEN <<>>[i] ELSE g[i - 1] \o <<>>[i]]
    OBVIOUS
  <2>3. Flattens(g, <<>>)
    <3> HIDE DEF g
    <3> QED
      BY <2>1, <2>2 DEF Flattens
  <2> QED
    BY <2>1, <2>3
<1>2. ASSUME NEW s \in Seq(Seq(S)), NEW x \in Seq(S), s \in T PROVE Append(s, x) \in T
  <2> DEFINE w == Append(s, x)  n == Len(s)
  <2>1. /\ w \in Seq(Seq(S)) /\ Len(w) = n + 1 /\ n \in Nat
        /\ \A i \in 1 .. n : w[i] = s[i]
        /\ w[n + 1] = x
    BY AppendProperties, LenProperties
  <2> HIDE DEF w, n
  <2>2. PICK g : g = [i \in 1 .. n |-> IF i = 1 THEN s[i] ELSE g[i - 1] \o s[i]]
    BY <1>2 DEF Flattens, n
  <2> DEFINE h == [i \in 1 .. n + 1 |->
                     IF i <= n THEN g[i] ELSE IF n = 0 THEN x ELSE g[n] \o x]
  <2>3. ASSUME NEW i \in 1 .. n + 1
        PROVE  h[i] = IF i = 1 THEN w[i] ELSE h[i - 1] \o w[i]
    <3>1. CASE i <= n
      <4>1. i \in 1 .. n /\ h[i] = g[i] /\ w[i] = s[i]
        BY <2>1, <3>1
      <4>2. g[i] = IF i = 1 THEN s[i] ELSE g[i - 1] \o s[i]
        BY <2>2, <4>1
      <4>3. i # 1 => i - 1 \in 1 .. n + 1 /\ i - 1 <= n
        BY <2>1, <3>1
      <4>4. i # 1 => h[i - 1] = g[i - 1]
        BY <4>3
      <4> HIDE DEF h
      <4> QED
        BY <4>1, <4>2, <4>4
    <3>2. CASE ~ (i <= n)
      <4>1. i = n + 1
        BY <2>1, <3>2
      <4>2. h[i] = IF n = 0 THEN x ELSE g[n] \o x
        BY <2>1, <4>1
      <4>3. n # 0 => h[n] = g[n]
        BY <2>1
      <4>4. w[i] = x
        BY <2>1, <4>1
      <4> HIDE DEF h
      <4> QED
        BY <2>1, <4>1, <4>2, <4>3, <4>4
    <3> QED
      BY <3>1, <3>2
  <2>4. h = [i \in 1 .. n + 1 |-> IF i = 1 THEN w[i] ELSE h[i - 1] \o w[i]]
    <3>1. \E e : h = [i \in 1 .. n + 1 |-> e[i]]
      <4>1. h = [i \in 1 .. n + 1 |-> h[i]]
        OBVIOUS
      <4> QED
        BY <4>1
    <3> HIDE DEF h
    <3> QED
      BY <2>3, <3>1
  <2>5. Flattens(h, w)
    <3> HIDE DEF h
    <3> QED
      BY <2>1, <2>4 DEF Flattens
  <2> QED
    BY <2>1, <2>5 DEF w
<1>3. Seq(Seq(S)) \subseteq T
  <2> HIDE DEF T
  <2> QED
    BY <1>1, <1>2, SeqGrows
<1> QED
  BY <1>3

\* The recursion that FlattenSeq means is the one that exists.
LEMMA FlattenIs ==
  ASSUME NEW S, NEW s \in Seq(Seq(S)), NEW g, Flattens(g, s), s # <<>>
  PROVE  FlattenSeq(s) = g[Len(s)]
<1> DEFINE flatten[i \in 1 .. Len(s)] == IF i = 1 THEN s[i] ELSE flatten[i - 1] \o s[i]
<1>1. Len(s) # 0
  BY EmptySeq
<1>2. flatten = CHOOSE f : Flattens(f, s)
  BY DEF Flattens
<1>3. Flattens(flatten, s)
  <2> HIDE DEF flatten
  <2> QED
    BY <1>2
<1>4. flatten = g
  <2> HIDE DEF flatten
  <2> QED
    BY <1>3, FlattensTwice
<1>5. FlattenSeq(s) = flatten[Len(s)]
  BY <1>1 DEF FlattenSeq
<1> QED
  BY <1>4, <1>5

\* One more sequence at the end.
LEMMA FlattenAppend ==
  ASSUME NEW S, NEW s \in Seq(Seq(S)), NEW x \in Seq(S)
  PROVE  FlattenSeq(Append(s, x)) = FlattenSeq(s) \o x
<1> DEFINE w == Append(s, x)  n == Len(s)
<1>1. /\ w \in Seq(Seq(S)) /\ w # <<>> /\ Len(w) = n + 1 /\ n \in Nat
      /\ \A i \in 1 .. n : w[i] = s[i]
      /\ w[n + 1] = x
  BY AppendProperties, LenProperties
<1> HIDE DEF w
<1>2. PICK h : Flattens(h, w)
  BY <1>1, FlattensOnce
<1>3. FlattenSeq(w) = h[n + 1]
  BY <1>1, <1>2, FlattenIs
<1>4. h = [i \in 1 .. n + 1 |-> IF i = 1 THEN w[i] ELSE h[i - 1] \o w[i]]
  BY <1>1, <1>2 DEF Flattens
<1>5. CASE n = 0
  <2>1. h[1] = w[1]
    BY <1>4, <1>5
  <2>2. s = <<>>
    BY <1>5, EmptySeq
  <2>3. FlattenSeq(s) = <<>>
    BY <1>5, <2>2 DEF FlattenSeq
  <2>4. <<>> \o x = x
    BY ConcatEmptySeq
  <2> QED
    BY <1>1, <1>3, <1>5, <2>1, <2>3, <2>4 DEF w
<1>6. CASE n # 0
  <2> HIDE DEF n
  <2>1. h[n + 1] = h[n] \o x
    <3>1. n + 1 \in 1 .. n + 1 /\ n + 1 # 1 /\ (n + 1) - 1 = n
      BY <1>1, <1>6
    <3>2. h[n + 1] = h[(n + 1) - 1] \o w[n + 1]
      BY <1>4, <3>1
    <3> QED
      BY <1>1, <3>1, <3>2
  <2> DEFINE g == [i \in 1 .. n |-> h[i]]
  <2>2. \A i \in 1 .. n : g[i] = IF i = 1 THEN s[i] ELSE g[i - 1] \o s[i]
    <3> SUFFICES ASSUME NEW i \in 1 .. n
                 PROVE  g[i] = IF i = 1 THEN s[i] ELSE g[i - 1] \o s[i]
      OBVIOUS
    <3>1. i \in 1 .. n + 1 /\ w[i] = s[i]
      BY <1>1
    <3>2. h[i] = IF i = 1 THEN s[i] ELSE h[i - 1] \o s[i]
      BY <1>4, <3>1
    <3>3. i # 1 => i - 1 \in 1 .. n
      BY <1>1
    <3> QED
      BY <3>2, <3>3
  <2>3. g = [i \in 1 .. n |-> IF i = 1 THEN s[i] ELSE g[i - 1] \o s[i]]
    BY <2>2
  <2>4. g[n] = h[n]
    BY <1>1, <1>6
  <2>5. Flattens(g, s)
    <3> HIDE DEF g
    <3> QED
      BY <2>3 DEF Flattens, n
  <2>6. s # <<>>
    BY <1>6, EmptySeq DEF n
  <2>7. FlattenSeq(s) = g[n]
    <3> HIDE DEF g
    <3> QED
      BY <2>5, <2>6, FlattenIs DEF n
  <2> QED
    BY <1>3, <2>1, <2>4, <2>7 DEF w
<1> QED
  BY <1>5, <1>6

LEMMA FlattenNone == FlattenSeq(<<>>) = <<>>
BY EmptySeq DEF FlattenSeq

\* What is true of every element of every part is true of the whole.
LEMMA FlattenType ==
  ASSUME NEW S
  PROVE  \A s \in Seq(Seq(S)) : FlattenSeq(s) \in Seq(S)
<1> DEFINE T == {s \in Seq(Seq(S)) : FlattenSeq(s) \in Seq(S)}
<1>1. <<>> \in T
  BY FlattenNone, EmptySeq
<1>2. ASSUME NEW s \in Seq(Seq(S)), NEW x \in Seq(S), s \in T PROVE Append(s, x) \in T
  <2>1. FlattenSeq(Append(s, x)) = FlattenSeq(s) \o x
    BY FlattenAppend
  <2>2. FlattenSeq(s) \o x \in Seq(S)
    BY <1>2, ConcatProperties
  <2>3. Append(s, x) \in Seq(Seq(S))
    BY AppendProperties
  <2> QED
    BY <2>1, <2>2, <2>3
<1>3. Seq(Seq(S)) \subseteq T
  <2> HIDE DEF T
  <2> QED
    BY <1>1, <1>2, SeqGrows
<1> QED
  BY <1>3

LEMMA AppendConcat ==
  ASSUME NEW S, NEW s \in Seq(S), NEW t \in Seq(S), NEW x \in S
  PROVE  s \o Append(t, x) = Append(s \o t, x)
<1>1. <<x>> \in Seq(S)
  OBVIOUS
<1>2. Append(t, x) = t \o <<x>>
  BY AppendIsConcat
<1>3. s \o t \in Seq(S)
  BY ConcatProperties
<1>4. Append(s \o t, x) = (s \o t) \o <<x>>
  BY <1>3, AppendIsConcat
<1>5. (s \o t) \o <<x>> = s \o (t \o <<x>>)
  BY <1>1, ConcatAssociative
<1> QED
  BY <1>2, <1>4, <1>5

LEMMA FlattenConcat ==
  ASSUME NEW S
  PROVE  \A t \in Seq(Seq(S)) : \A s \in Seq(Seq(S)) :
           FlattenSeq(s \o t) = FlattenSeq(s) \o FlattenSeq(t)
<1> DEFINE T == {t \in Seq(Seq(S)) : \A s \in Seq(Seq(S)) :
                   FlattenSeq(s \o t) = FlattenSeq(s) \o FlattenSeq(t)}
<1>1. <<>> \in T
  <2>1. \A s \in Seq(Seq(S)) : s \o <<>> = s /\ FlattenSeq(s) \in Seq(S)
    BY ConcatEmptySeq, FlattenType
  <2>2. \A s \in Seq(Seq(S)) : FlattenSeq(s) \o <<>> = FlattenSeq(s)
    BY <2>1, ConcatEmptySeq
  <2> QED
    BY <2>1, <2>2, FlattenNone, EmptySeq
<1>2. ASSUME NEW t \in Seq(Seq(S)), NEW x \in Seq(S), t \in T PROVE Append(t, x) \in T
  <2>1. ASSUME NEW s \in Seq(Seq(S))
        PROVE  FlattenSeq(s \o Append(t, x)) = FlattenSeq(s) \o FlattenSeq(Append(t, x))
    <3>1. s \o t \in Seq(Seq(S)) /\ s \o Append(t, x) = Append(s \o t, x)
      BY ConcatProperties, AppendConcat
    <3>2. FlattenSeq(Append(s \o t, x)) = FlattenSeq(s \o t) \o x
      BY <3>1, FlattenAppend
    <3>3. FlattenSeq(s \o t) = FlattenSeq(s) \o FlattenSeq(t)
      BY <1>2
    <3>4. FlattenSeq(s) \in Seq(S) /\ FlattenSeq(t) \in Seq(S)
      BY FlattenType
    <3>5. (FlattenSeq(s) \o FlattenSeq(t)) \o x = FlattenSeq(s) \o (FlattenSeq(t) \o x)
      BY <3>4, ConcatAssociative, SMTT(30)
    <3>6. FlattenSeq(Append(t, x)) = FlattenSeq(t) \o x
      BY FlattenAppend
    <3>7. FlattenSeq(s \o Append(t, x)) = FlattenSeq(s \o t) \o x
      BY <3>1, <3>2
    <3>8. FlattenSeq(s \o t) \o x = (FlattenSeq(s) \o FlattenSeq(t)) \o x
      BY <3>3
    <3>9. FlattenSeq(s) \o (FlattenSeq(t) \o x) = FlattenSeq(s) \o FlattenSeq(Append(t, x))
      BY <3>6
    <3> QED
      BY <3>5, <3>7, <3>8, <3>9
  <2>2. Append(t, x) \in Seq(Seq(S))
    BY AppendProperties
  <2> QED
    BY <2>1, <2>2
<1>3. Seq(Seq(S)) \subseteq T
  <2> HIDE DEF T
  <2> QED
    BY <1>1, <1>2, SeqGrows
<1> QED
  BY <1>3

LEMMA FlattenOne ==
  ASSUME NEW S, NEW x \in Seq(S)
  PROVE  FlattenSeq(<<x>>) = x
<1>1. Append(<<>>, x) = <<x>> /\ <<>> \in Seq(Seq(S))
  BY EmptySeq
<1>2. FlattenSeq(Append(<<>>, x)) = FlattenSeq(<<>>) \o x
  BY <1>1, FlattenAppend
<1> QED
  BY <1>1, <1>2, FlattenNone, ConcatEmptySeq

----------------------------------------------------------------------------
(* Frames and their chunks *)

\* The chunks of f that are translated at place i.
ChunksOf(f, i) ==
  {c \in ChunkSet : /\ c.n = f.n /\ c.k = f.k
                    /\ c.part = "frame" => c.id = i
                    /\ c.part = "end" => f.k \in TerminalKind}

LEMMA TranslateType ==
  ASSUME NEW f \in Frame, NEW i \in Nat
  PROVE  Translate(f, i) \in Seq(ChunksOf(f, i))
<1>1. f.n \in Nat /\ f.k \in Kind
  BY DEF Frame
<1>2. \A part \in Part, id \in Nat :
        /\ part = "frame" => id = i
        /\ part = "end" => f.k \in TerminalKind
        => Chunk(f, part, id) \in ChunksOf(f, i)
  <2> SUFFICES ASSUME NEW part \in Part, NEW id \in Nat,
                      part = "frame" => id = i, part = "end" => f.k \in TerminalKind
               PROVE  Chunk(f, part, id) \in ChunksOf(f, i)
    OBVIOUS
  <2>1. Chunk(f, part, id) \in ChunkSet
    BY <1>1 DEF Chunk, ChunkSet
  <2> QED
    BY <2>1 DEF Chunk, ChunksOf
<1>3. CASE f.k = "start"
  BY <1>2, <1>3 DEF Translate, Part
<1>4. CASE f.k = "text"
  BY <1>2, <1>4 DEF Translate, Part
<1>5. CASE f.k = "gate"
  BY <1>1, <1>2, <1>5 DEF Translate, Part
<1>6. CASE f.k \in {"browser", "shot"}
  BY <1>2, <1>6 DEF Translate, Part
<1>7. CASE f.k \in TerminalKind
  BY <1>2, <1>7 DEF Translate, Part, TerminalKind
<1>8. CASE f.k \notin {"start", "text", "gate", "browser", "shot"} \cup TerminalKind
  BY <1>2, <1>8 DEF Translate, Part, TerminalKind
<1> QED
  BY <1>3, <1>4, <1>5, <1>6, <1>7, <1>8

Each(fs, i) == [j \in DOMAIN fs |-> Translate(fs[j], i + j - 1)]

LEMMA EachType ==
  ASSUME NEW X, NEW fs \in Seq(Frame), NEW i \in Nat,
         \A j \in 1 .. Len(fs) : Translate(fs[j], i + j - 1) \in Seq(X)
  PROVE  Each(fs, i) \in Seq(Seq(X)) /\ Len(Each(fs, i)) = Len(fs)
<1>1. DOMAIN fs = 1 .. Len(fs) /\ Len(fs) \in Nat
  BY LenProperties
<1>2. Each(fs, i) = [j \in 1 .. Len(fs) |-> Translate(fs[j], i + j - 1)]
  BY <1>1 DEF Each
<1>3. Each(fs, i) \in [1 .. Len(fs) -> Seq(X)]
  BY <1>2
<1> QED
  BY <1>1, <1>3

\* What is true of every chunk of every frame is true of every chunk.
LEMMA TranslateAllIn ==
  ASSUME NEW X, NEW fs \in Seq(Frame), NEW i \in Nat,
         \A j \in 1 .. Len(fs) : Translate(fs[j], i + j - 1) \in Seq(X)
  PROVE  TranslateAll(fs, i) \in Seq(X)
<1>1. TranslateAll(fs, i) = FlattenSeq(Each(fs, i))
  BY DEF TranslateAll, Each
<1>2. Each(fs, i) \in Seq(Seq(X))
  BY EachType
<1> QED
  BY <1>1, <1>2, FlattenType

LEMMA ChunkPlace ==
  ASSUME NEW fs \in Seq(Frame), NEW i \in Nat, NEW j \in 1 .. Len(fs)
  PROVE  fs[j] \in Frame /\ i + j - 1 \in Nat
BY ElementOfSeq

LEMMA ChunksAreChunks ==
  ASSUME NEW f \in Frame, NEW i \in Nat
  PROVE  Translate(f, i) \in Seq(ChunkSet)
<1>1. ChunksOf(f, i) \subseteq ChunkSet
  BY DEF ChunksOf
<1> QED
  BY <1>1, TranslateType, SeqMonotonic

LEMMA TranslateAllType ==
  ASSUME NEW fs \in Seq(Frame), NEW i \in Nat
  PROVE  TranslateAll(fs, i) \in Seq(ChunkSet)
<1>1. \A j \in 1 .. Len(fs) : Translate(fs[j], i + j - 1) \in Seq(ChunkSet)
  BY ChunkPlace, ChunksAreChunks
<1> QED
  BY <1>1, TranslateAllIn

LEMMA TranslateAllConcat ==
  ASSUME NEW fs \in Seq(Frame), NEW gs \in Seq(Frame), NEW i \in Nat
  PROVE  TranslateAll(fs \o gs, i) = TranslateAll(fs, i) \o TranslateAll(gs, i + Len(fs))
<1> DEFINE L == Len(fs)  G == Len(gs)  w == fs \o gs
<1>1. /\ w \in Seq(Frame) /\ Len(w) = L + G /\ L \in Nat /\ G \in Nat
      /\ \A j \in 1 .. L + G : w[j] = IF j <= L THEN fs[j] ELSE gs[j - L]
  BY ConcatProperties, LenProperties
<1>2. i + L \in Nat
  BY <1>1
<1>3. /\ Each(fs, i) \in Seq(Seq(ChunkSet)) /\ Len(Each(fs, i)) = L
      /\ Each(gs, i + L) \in Seq(Seq(ChunkSet)) /\ Len(Each(gs, i + L)) = G
      /\ Each(w, i) \in Seq(Seq(ChunkSet)) /\ Len(Each(w, i)) = L + G
  <2>1. \A hs \in Seq(Frame), k \in Nat :
          \A j \in 1 .. Len(hs) : Translate(hs[j], k + j - 1) \in Seq(ChunkSet)
    BY ChunkPlace, ChunksAreChunks
  <2>2. \A hs \in Seq(Frame), k \in Nat :
          Each(hs, k) \in Seq(Seq(ChunkSet)) /\ Len(Each(hs, k)) = Len(hs)
    BY <2>1, EachType
  <2> QED
    BY <1>1, <1>2, <2>2
<1> DEFINE u == Each(fs, i)  v == Each(gs, i + L)
<1>4. /\ \A j \in 1 .. L : u[j] = Translate(fs[j], i + j - 1)
      /\ \A j \in 1 .. G : v[j] = Translate(gs[j], i + L + j - 1)
      /\ \A j \in 1 .. L + G : Each(w, i)[j] = Translate(w[j], i + j - 1)
  BY <1>1, LenProperties DEF Each
<1> HIDE DEF w, u, v, L, G
<1>5. /\ u \o v \in Seq(Seq(ChunkSet)) /\ Len(u \o v) = L + G
      /\ \A j \in 1 .. L + G : (u \o v)[j] = IF j <= L THEN u[j] ELSE v[j - L]
  <2>1. u \in Seq(Seq(ChunkSet)) /\ v \in Seq(Seq(ChunkSet)) /\ Len(u) = L /\ Len(v) = G
    BY <1>3 DEF u, v
  <2> QED
    BY <2>1, ConcatProperties
<1>6. \A j \in 1 .. L + G : Each(w, i)[j] = (u \o v)[j]
  <2> SUFFICES ASSUME NEW j \in 1 .. L + G PROVE Each(w, i)[j] = (u \o v)[j]
    OBVIOUS
  <2>1. CASE j <= L
    <3>1. j \in 1 .. L
      BY <1>1, <2>1
    <3>2. w[j] = fs[j] /\ (u \o v)[j] = u[j]
      BY <1>1, <1>5, <2>1
    <3> QED
      BY <1>4, <3>1, <3>2
  <2>2. CASE ~ (j <= L)
    <3>1. j - L \in 1 .. G /\ i + L + (j - L) - 1 = i + j - 1
      BY <1>1, <2>2
    <3>2. v[j - L] = Translate(gs[j - L], i + j - 1)
      BY <1>4, <3>1
    <3>3. w[j] = gs[j - L] /\ (u \o v)[j] = v[j - L]
      BY <1>1, <1>5, <2>2
    <3> QED
      BY <1>4, <3>2, <3>3
  <2> QED
    BY <2>1, <2>2
<1>7. Each(w, i) = u \o v
  <2>1. Each(w, i) \in Seq(Seq(ChunkSet)) /\ Len(Each(w, i)) = Len(u \o v)
    BY <1>3, <1>5
  <2>2. \A j \in 1 .. Len(Each(w, i)) : Each(w, i)[j] = (u \o v)[j]
    BY <1>3, <1>6
  <2>3. u \o v \in Seq(Seq(ChunkSet))
    BY <1>5
  <2> QED
    BY <2>1, <2>2, <2>3, SeqEqual
<1>8. FlattenSeq(u \o v) = FlattenSeq(u) \o FlattenSeq(v)
  BY <1>3, FlattenConcat DEF u, v
<1> QED
  BY <1>7, <1>8 DEF TranslateAll, Each, u, v, w, L

LEMMA TranslateAllOne ==
  ASSUME NEW f \in Frame, NEW i \in Nat
  PROVE  TranslateAll(<<f>>, i) = Translate(f, i)
<1>1. <<f>> \in Seq(Frame) /\ Len(<<f>>) = 1 /\ DOMAIN <<f>> = 1 .. 1 /\ <<f>>[1] = f
  OBVIOUS
<1>2. i + 1 - 1 = i
  OBVIOUS
<1>3. Each(<<f>>, i) = <<Translate(f, i)>>
  BY <1>1, <1>2 DEF Each
<1>4. Translate(f, i) \in Seq(ChunkSet)
  BY ChunksAreChunks
<1> QED
  BY <1>3, <1>4, FlattenOne DEF TranslateAll, Each

LEMMA TranslateAllNone ==
  ASSUME NEW i \in Nat
  PROVE  TranslateAll(<<>>, i) = <<>>
<1>1. Each(<<>>, i) = <<>>
  BY DEF Each
<1> QED
  BY <1>1, FlattenNone DEF TranslateAll, Each

----------------------------------------------------------------------------
(* What chunks stand for, screenshots and ids aside *)

Meanings == Nat \X Part
Sensed(c) == IF c.k = "shot" THEN <<>> ELSE << <<c.n, c.part>> >>
Sense(w) == FlattenSeq([j \in DOMAIN w |-> Sensed(w[j])])

LEMMA SensedType ==
  ASSUME NEW c \in ChunkSet
  PROVE  Sensed(c) \in Seq(Meanings)
<1>1. <<c.n, c.part>> \in Meanings
  BY DEF ChunkSet, Meanings
<1> QED
  BY <1>1 DEF Sensed

SensedEach(w) == [j \in DOMAIN w |-> Sensed(w[j])]

LEMMA SensedEachType ==
  ASSUME NEW w \in Seq(ChunkSet)
  PROVE  /\ SensedEach(w) \in Seq(Seq(Meanings)) /\ Len(SensedEach(w)) = Len(w)
         /\ \A j \in 1 .. Len(w) : SensedEach(w)[j] = Sensed(w[j])
<1>1. DOMAIN w = 1 .. Len(w) /\ Len(w) \in Nat
  BY LenProperties
<1>2. \A j \in 1 .. Len(w) : Sensed(w[j]) \in Seq(Meanings)
  BY ElementOfSeq, SensedType
<1>3. SensedEach(w) = [j \in 1 .. Len(w) |-> Sensed(w[j])]
  BY <1>1 DEF SensedEach
<1>4. SensedEach(w) \in [1 .. Len(w) -> Seq(Meanings)]
  BY <1>2, <1>3
<1> QED
  BY <1>1, <1>3, <1>4

LEMMA SenseType ==
  ASSUME NEW w \in Seq(ChunkSet)
  PROVE  Sense(w) \in Seq(Meanings)
BY SensedEachType, FlattenType DEF Sense, SensedEach

LEMMA SenseNone == Sense(<<>>) = <<>>
<1>1. SensedEach(<<>>) = <<>>
  BY DEF SensedEach
<1> QED
  BY <1>1, FlattenNone DEF Sense, SensedEach

LEMMA SenseAppend ==
  ASSUME NEW w \in Seq(ChunkSet), NEW c \in ChunkSet
  PROVE  Sense(Append(w, c)) = Sense(w) \o Sensed(c)
<1> DEFINE n == Len(w)  u == Append(w, c)  s == SensedEach(w)  x == Sensed(c)
<1>1. /\ u \in Seq(ChunkSet) /\ Len(u) = n + 1 /\ n \in Nat
      /\ \A j \in 1 .. n : u[j] = w[j]
      /\ u[n + 1] = c
  BY AppendProperties, LenProperties
<1> HIDE DEF u
<1>2. /\ s \in Seq(Seq(Meanings)) /\ Len(s) = n
      /\ \A j \in 1 .. n : s[j] = Sensed(w[j])
      /\ SensedEach(u) \in Seq(Seq(Meanings)) /\ Len(SensedEach(u)) = n + 1
      /\ \A j \in 1 .. n + 1 : SensedEach(u)[j] = Sensed(u[j])
  BY <1>1, SensedEachType
<1>3. x \in Seq(Meanings)
  BY SensedType
<1> HIDE DEF s, x, n
<1>4. /\ Append(s, x) \in Seq(Seq(Meanings)) /\ Len(Append(s, x)) = n + 1
      /\ \A j \in 1 .. n : Append(s, x)[j] = s[j]
      /\ Append(s, x)[n + 1] = x
  BY <1>2, <1>3, AppendProperties
<1>5. \A j \in 1 .. n + 1 : SensedEach(u)[j] = Append(s, x)[j]
  <2> SUFFICES ASSUME NEW j \in 1 .. n + 1 PROVE SensedEach(u)[j] = Append(s, x)[j]
    OBVIOUS
  <2>1. CASE j = n + 1
    BY <1>1, <1>2, <1>4, <2>1 DEF x
  <2>2. CASE j # n + 1
    <3>1. j \in 1 .. n
      BY <1>1, <2>2
    <3> QED
      BY <1>1, <1>2, <1>4, <3>1
  <2> QED
    BY <2>1, <2>2
<1>6. SensedEach(u) = Append(s, x)
  BY <1>2, <1>4, <1>5, SeqEqual
<1>7. FlattenSeq(Append(s, x)) = FlattenSeq(s) \o x
  BY <1>2, <1>3, FlattenAppend
<1> QED
  BY <1>6, <1>7 DEF Sense, SensedEach, u, s, x

LEMMA SenseOne ==
  ASSUME NEW c \in ChunkSet
  PROVE  Sense(<<c>>) = Sensed(c)
<1>1. <<>> \in Seq(ChunkSet) /\ Append(<<>>, c) = <<c>>
  BY EmptySeq
<1>2. <<>> \o Sensed(c) = Sensed(c)
  BY SensedType, ConcatEmptySeq
<1>3. Sense(Append(<<>>, c)) = Sense(<<>>) \o Sensed(c)
  BY <1>1, SenseAppend
<1> QED
  BY <1>1, <1>2, <1>3, SenseNone

LEMMA SenseConcat ==
  \A v \in Seq(ChunkSet) : \A u \in Seq(ChunkSet) : Sense(u \o v) = Sense(u) \o Sense(v)
<1> DEFINE T == {v \in Seq(ChunkSet) : \A u \in Seq(ChunkSet) :
                   Sense(u \o v) = Sense(u) \o Sense(v)}
<1>1. <<>> \in T
  <2>1. \A u \in Seq(ChunkSet) : u \o <<>> = u /\ Sense(u) \in Seq(Meanings)
    BY ConcatEmptySeq, SenseType
  <2>2. \A u \in Seq(ChunkSet) : Sense(u) \o <<>> = Sense(u)
    BY <2>1, ConcatEmptySeq
  <2> QED
    BY <2>1, <2>2, SenseNone, EmptySeq
<1>2. ASSUME NEW v \in Seq(ChunkSet), NEW c \in ChunkSet, v \in T PROVE Append(v, c) \in T
  <2>1. ASSUME NEW u \in Seq(ChunkSet)
        PROVE  Sense(u \o Append(v, c)) = Sense(u) \o Sense(Append(v, c))
    <3>1. u \o v \in Seq(ChunkSet) /\ u \o Append(v, c) = Append(u \o v, c)
      BY ConcatProperties, AppendConcat
    <3>2. Sense(Append(u \o v, c)) = Sense(u \o v) \o Sensed(c)
      BY <3>1, SenseAppend
    <3>3. Sense(u \o v) = Sense(u) \o Sense(v)
      BY <1>2
    <3>4. Sense(u) \in Seq(Meanings) /\ Sense(v) \in Seq(Meanings) /\ Sensed(c) \in Seq(Meanings)
      BY SenseType, SensedType
    <3>5. (Sense(u) \o Sense(v)) \o Sensed(c) = Sense(u) \o (Sense(v) \o Sensed(c))
      BY <3>4, ConcatAssociative, SMTT(30)
    <3>6. Sense(Append(v, c)) = Sense(v) \o Sensed(c)
      BY SenseAppend
    <3>7. Sense(u \o Append(v, c)) = Sense(u \o v) \o Sensed(c)
      BY <3>1, <3>2
    <3>8. Sense(u \o v) \o Sensed(c) = (Sense(u) \o Sense(v)) \o Sensed(c)
      BY <3>3
    <3>9. Sense(u) \o (Sense(v) \o Sensed(c)) = Sense(u) \o Sense(Append(v, c))
      BY <3>6
    <3> QED
      BY <3>5, <3>7, <3>8, <3>9
  <2>2. Append(v, c) \in Seq(ChunkSet)
    BY AppendProperties
  <2> QED
    BY <2>1, <2>2
<1>3. Seq(ChunkSet) \subseteq T
  <2> HIDE DEF T
  <2> QED
    BY <1>1, <1>2, SeqGrows
<1> QED
  BY <1>3

\* Without screenshots it is Meaning.
PlainChunk == {c \in ChunkSet : c.k # "shot"}

LEMMA SensePlain ==
  \A w \in Seq(PlainChunk) : Sense(w) = Meaning(w) /\ Len(Sense(w)) = Len(w)
<1> DEFINE T == {w \in Seq(PlainChunk) : Sense(w) = Meaning(w)}
<1>1. <<>> \in T
  <2>1. Meaning(<<>>) = <<>>
    BY DEF Meaning
  <2> QED
    BY <2>1, SenseNone, EmptySeq
<1>2. ASSUME NEW w \in Seq(PlainChunk), NEW c \in PlainChunk, w \in T PROVE Append(w, c) \in T
  <2> DEFINE n == Len(w)  u == Append(w, c)  m == <<c.n, c.part>>
  <2>1. /\ u \in Seq(PlainChunk) /\ Len(u) = n + 1 /\ n \in Nat
        /\ \A j \in 1 .. n : u[j] = w[j]
        /\ u[n + 1] = c
        /\ DOMAIN u = 1 .. n + 1 /\ DOMAIN w = 1 .. n
    BY AppendProperties, LenProperties
  <2>2. w \in Seq(ChunkSet) /\ c \in ChunkSet /\ Sensed(c) = <<m>> /\ m \in Meanings
    <3>1. PlainChunk \subseteq ChunkSet
      BY DEF PlainChunk
    <3>2. c.k # "shot" /\ c.n \in Nat /\ c.part \in Part
      BY <3>1 DEF PlainChunk, ChunkSet
    <3> QED
      BY <3>1, <3>2, SeqMonotonic DEF Sensed, Meanings
  <2> HIDE DEF u, m, n
  <2>3. Sense(u) = Sense(w) \o <<m>>
    BY <2>2, SenseAppend DEF u
  <2>4. Meaning(w) = [j \in 1 .. n |-> <<w[j].n, w[j].part>>] /\ Meaning(w) \in Seq(Meanings)
    BY <2>1, <2>2, <1>2, SenseType DEF Meaning
  <2>5. Meaning(u) = [j \in 1 .. n + 1 |-> <<u[j].n, u[j].part>>]
    BY <2>1 DEF Meaning
  <2>6. Len(Meaning(w)) = n
    BY <2>1, <2>4
  <2> DEFINE a == Append(Meaning(w), m)
  <2>7. /\ a \in Seq(Meanings) /\ Len(a) = n + 1
        /\ \A j \in 1 .. n : a[j] = Meaning(w)[j]
        /\ a[n + 1] = m
    <3>1. /\ a \in Seq(Meanings) /\ Len(a) = Len(Meaning(w)) + 1
          /\ \A j \in 1 .. Len(Meaning(w)) : a[j] = Meaning(w)[j]
          /\ a[Len(Meaning(w)) + 1] = m
      <4> DEFINE mw == Meaning(w)
      <4>1. mw \in Seq(Meanings) /\ m \in Meanings
        BY <2>2, <2>4
      <4> HIDE DEF mw
      <4>2. /\ Append(mw, m) \in Seq(Meanings) /\ Len(Append(mw, m)) = Len(mw) + 1
            /\ \A j \in 1 .. Len(mw) : Append(mw, m)[j] = mw[j]
            /\ Append(mw, m)[Len(mw) + 1] = m
        BY <4>1, AppendProperties
      <4> QED
        BY <4>2 DEF mw
    <3> QED
      BY <2>6, <3>1
  <2>8. a = Meaning(w) \o <<m>>
    BY <2>2, <2>4, AppendIsConcat
  <2> HIDE DEF a
  <2>9. \A j \in 1 .. n + 1 : Meaning(u)[j] = a[j]
    <3> SUFFICES ASSUME NEW j \in 1 .. n + 1 PROVE Meaning(u)[j] = a[j]
      OBVIOUS
    <3>1. CASE j = n + 1
      BY <2>1, <2>5, <2>7, <3>1 DEF m
    <3>2. CASE j # n + 1
      <4>1. j \in 1 .. n
        BY <2>1, <3>2
      <4> QED
        BY <2>1, <2>4, <2>5, <2>7, <4>1
    <3> QED
      BY <3>1, <3>2
  <2>10. DOMAIN a = 1 .. n + 1 /\ a = [j \in 1 .. n + 1 |-> a[j]]
    <3>1. a \in [1 .. n + 1 -> Meanings]
      BY <2>7, LenProperties
    <3> QED
      BY <3>1
  <2>11. Meaning(u) = a
    BY <2>5, <2>9, <2>10
  <2>12. Sense(u) = Meaning(u)
    BY <1>2, <2>3, <2>8, <2>11
  <2> QED
    BY <2>1, <2>12 DEF u
<1>3. Seq(PlainChunk) \subseteq T
  <2> HIDE DEF T
  <2> QED
    BY <1>1, <1>2, SeqGrows
<1>4. \A w \in Seq(PlainChunk) : Len(Meaning(w)) = Len(w)
  <2> TAKE w \in Seq(PlainChunk)
  <2>1. DOMAIN w = 1 .. Len(w) /\ Len(w) \in Nat
    BY LenProperties
  <2> QED
    BY <2>1 DEF Meaning
<1> QED
  BY <1>3, <1>4

\* What frames stand for does not hang on where they are translated.
LEMMA SenseOfFrame ==
  ASSUME NEW f \in Frame, NEW i \in Nat, NEW k \in Nat
  PROVE  Sense(Translate(f, i)) = Sense(Translate(f, k))
<1> DEFINE C(part, id) == Chunk(f, part, id)
<1>1. \A part \in Part, id \in Nat :
        C(part, id) \in ChunkSet /\ C(part, id).n = f.n /\ C(part, id).k = f.k
          /\ C(part, id).part = part
  <2>1. f.n \in Nat /\ f.k \in Kind
    BY DEF Frame
  <2> QED
    BY <2>1 DEF Chunk, ChunkSet
<1>2. \A part \in Part, id, jd \in Nat : Sense(<<C(part, id)>>) = Sense(<<C(part, jd)>>)
  <2> SUFFICES ASSUME NEW part \in Part, NEW id \in Nat, NEW jd \in Nat
               PROVE  Sense(<<C(part, id)>>) = Sense(<<C(part, jd)>>)
    OBVIOUS
  <2> HIDE DEF C
  <2>1. Sensed(C(part, id)) = Sensed(C(part, jd))
    BY <1>1 DEF Sensed
  <2> QED
    BY <1>1, <2>1, SenseOne
<1>3. \A p, q \in Part, id, jd \in Nat :
        Sense(<<C(p, id), C(q, id)>>) = Sense(<<C(p, jd), C(q, jd)>>)
  <2> SUFFICES ASSUME NEW p \in Part, NEW q \in Part, NEW id \in Nat, NEW jd \in Nat
               PROVE  Sense(<<C(p, id), C(q, id)>>) = Sense(<<C(p, jd), C(q, jd)>>)
    OBVIOUS
  <2> HIDE DEF C
  <2>1. ASSUME NEW x \in Nat
        PROVE  Sense(<<C(p, x), C(q, x)>>) = Sense(<<C(p, x)>>) \o Sense(<<C(q, x)>>)
    <3>1. <<C(p, x)>> \in Seq(ChunkSet) /\ <<C(q, x)>> \in Seq(ChunkSet)
      BY <1>1
    <3>2. <<C(p, x), C(q, x)>> = <<C(p, x)>> \o <<C(q, x)>>
      OBVIOUS
    <3> QED
      BY <3>1, <3>2, SenseConcat
  <2> QED
    BY <1>2, <2>1
<1>4. "text" \in Part /\ "frame" \in Part /\ "live" \in Part /\ "end" \in Part
  BY DEF Part
<1>5. CASE f.k = "text"
  BY <1>3, <1>4, <1>5 DEF Translate
<1>6. CASE f.k \in TerminalKind
  BY <1>3, <1>4, <1>6 DEF Translate, TerminalKind
<1>7. CASE f.k \in {"browser", "shot"}
  BY <1>2, <1>4, <1>7 DEF Translate, TerminalKind
<1>8. CASE f.k \in {"start", "gate"}
  BY <1>8 DEF Translate, TerminalKind
<1>9. CASE f.k \notin {"start", "text", "gate", "browser", "shot"} \cup TerminalKind
  BY <1>2, <1>4, <1>9 DEF Translate
<1> QED
  BY <1>5, <1>6, <1>7, <1>8, <1>9

LEMMA SenseAnywhere ==
  \A fs \in Seq(Frame) : \A i, k \in Nat : Sense(TranslateAll(fs, i)) = Sense(TranslateAll(fs, k))
<1> DEFINE T == {fs \in Seq(Frame) : \A i, k \in Nat :
                   Sense(TranslateAll(fs, i)) = Sense(TranslateAll(fs, k))}
<1>1. <<>> \in T
  BY TranslateAllNone, EmptySeq
<1>2. ASSUME NEW fs \in Seq(Frame), NEW f \in Frame, fs \in T PROVE Append(fs, f) \in T
  <2>1. Append(fs, f) \in Seq(Frame) /\ Append(fs, f) = fs \o <<f>> /\ <<f>> \in Seq(Frame)
    BY AppendProperties, AppendIsConcat
  <2>2. Len(fs) \in Nat
    BY LenProperties
  <2>3. ASSUME NEW i \in Nat
        PROVE  Sense(TranslateAll(fs \o <<f>>, i))
                 = Sense(TranslateAll(fs, i)) \o Sense(Translate(f, i + Len(fs)))
    <3>1. TranslateAll(fs \o <<f>>, i) = TranslateAll(fs, i) \o TranslateAll(<<f>>, i + Len(fs))
      BY <2>1, TranslateAllConcat
    <3>2. TranslateAll(<<f>>, i + Len(fs)) = Translate(f, i + Len(fs))
      BY <2>2, TranslateAllOne
    <3>3. TranslateAll(fs, i) \in Seq(ChunkSet)
      BY TranslateAllType
    <3>4. Translate(f, i + Len(fs)) \in Seq(ChunkSet)
      <4>1. i + Len(fs) \in Nat
        BY <2>2
      <4> QED
        BY <4>1, ChunksAreChunks
    <3> QED
      BY <3>1, <3>2, <3>3, <3>4, SenseConcat
  <2>4. \A i, k \in Nat : Sense(Translate(f, i + Len(fs))) = Sense(Translate(f, k + Len(fs)))
    BY <2>2, SenseOfFrame
  <2>5. \A i, k \in Nat : Sense(TranslateAll(fs, i)) = Sense(TranslateAll(fs, k))
    BY <1>2
  <2>6. \A i, k \in Nat :
          Sense(TranslateAll(Append(fs, f), i)) = Sense(TranslateAll(Append(fs, f), k))
    <3> SUFFICES ASSUME NEW i \in Nat, NEW k \in Nat
                 PROVE  Sense(TranslateAll(Append(fs, f), i)) = Sense(TranslateAll(Append(fs, f), k))
      OBVIOUS
    <3> DEFINE a(m) == Sense(TranslateAll(fs, m))  b(m) == Sense(Translate(f, m + Len(fs)))
    <3>1. \A m \in Nat : Sense(TranslateAll(Append(fs, f), m)) = a(m) \o b(m)
      BY <2>1, <2>3
    <3>2. a(i) = a(k) /\ b(i) = b(k)
      BY <2>4, <2>5
    <3> HIDE DEF a, b
    <3> QED
      BY <3>1, <3>2
  <2> QED
    BY <2>1, <2>6
<1>3. Seq(Frame) \subseteq T
  <2> HIDE DEF T
  <2> QED
    BY <1>1, <1>2, SeqGrows
<1> QED
  BY <1>3

----------------------------------------------------------------------------
(* The shape of the state *)

Connection == [fed : BOOLEAN, wire : Seq(ChunkSet), at : Nat]
Viewed == [mode : {"closed", "open", "retry", "landed"}, given : Seq(ChunkSet),
           skip : Nat, tries : 0 .. MaxAttempts, parts : Seq(ChunkSet)]

TypeInv == ChanInv /\ TypeOK

LEMMA FedType ==
  ASSUME NEW c \in Connection, NEW fs \in Seq(Frame), NEW closes \in BOOLEAN
  PROVE  Fed(c, fs, closes) \in Connection
<1>1. c.fed \in BOOLEAN /\ c.wire \in Seq(ChunkSet) /\ c.at \in Nat /\ Len(fs) \in Nat
  BY LenProperties DEF Connection
<1>2. TranslateAll(fs, c.at) \in Seq(ChunkSet)
  BY <1>1, TranslateAllType
<1>3. c.wire \o TranslateAll(fs, c.at) \in Seq(ChunkSet)
  BY <1>1, <1>2, ConcatProperties
<1> QED
  BY <1>1, <1>3 DEF Fed, Connection

LEMMA PlaceType ==
  ASSUME NEW X, NEW parts \in Seq(X), NEW c \in X
  PROVE  Place(parts, c) \in Seq(X)
<1> DEFINE old == {j \in DOMAIN parts : parts[j].part = c.part /\ parts[j].id = c.id}
           put == [j \in DOMAIN parts |-> IF j \in old THEN c ELSE parts[j]]
<1>1. Append(parts, c) \in Seq(X)
  BY AppendProperties
<1>2. put \in Seq(X)
  <2>1. DOMAIN parts = 1 .. Len(parts) /\ Len(parts) \in Nat
    BY LenProperties
  <2>2. \A j \in 1 .. Len(parts) : parts[j] \in X
    BY ElementOfSeq
  <2> HIDE DEF old
  <2>3. put \in [1 .. Len(parts) -> X]
    BY <2>1, <2>2
  <2> QED
    BY <2>1, <2>3
<1>3. Place(parts, c) \in {parts, put, Append(parts, c)}
  <2> HIDE DEF put, old
  <2>1. Place(parts, c) = CASE c.part \in {"start", "live", "end"} -> parts
                            [] c.part \in {"gate", "frame"} /\ old # {} -> put
                            [] OTHER -> Append(parts, c)
    BY DEF Place, put, old
  <2> QED
    BY <2>1
<1> QED
  BY <1>1, <1>2, <1>3

LEMMA StartIsFrame == Start \in Frame
BY DEF Start, Frame, Kind

LEMMA SubscribedType ==
  ASSUME chan \in Channel
  PROVE  Subscribed \in Connection
<1>1. chan.log \in Seq(Frame) /\ chan.terminal \in BOOLEAN /\ Len(chan.log) \in Nat
  BY LenProperties DEF Channel
<1>2. Translate(Start, 0) \in Seq(ChunkSet) /\ TranslateAll(chan.log, 0) \in Seq(ChunkSet)
  BY <1>1, StartIsFrame, ChunksAreChunks, TranslateAllType
<1>3. Translate(Start, 0) \o TranslateAll(chan.log, 0) \in Seq(ChunkSet)
  BY <1>2, ConcatProperties
<1> QED
  BY <1>1, <1>3 DEF Subscribed, Connection

LEMMA FallbackType ==
  /\ Fallback \in ChunkSet /\ Fallback.k = StatusShown
  /\ Fallback.part = IF chan.terminal THEN "fallback" ELSE "early"
  /\ StatusShown \in TerminalKind
<1>1. StatusShown \in TerminalKind
  BY DEF StatusShown, TerminalKind
<1>2. StatusShown \in Kind
  BY <1>1 DEF Kind
<1> QED
  BY <1>1, <1>2 DEF Fallback, ChunkSet, Part

LEMMA TypeInit == Init => TypeOK
<1> SUFFICES ASSUME Init PROVE TypeOK
  OBVIOUS
<1>1. chan \in Channel
  BY ChanInit DEF ChanInv
<1>2. conn \in Connection
  BY DEF Init, NoConn, Connection
<1>3. view \in Viewed
  BY StreamAssumption DEF Init, Closed, Viewed
<1>4. {minted, shots, gates, drops, crashes} \subseteq Nat
  BY DEF Init
<1>5. run \in Ended \cup {"executing", "parked"} /\ owed \in BOOLEAN /\ proc \in {"up", "down"}
  BY DEF Init
<1> QED
  BY <1>1, <1>2, <1>3, <1>4, <1>5 DEF TypeOK, Channel, Connection, Viewed

\* What Mint appends are frames.
LEMMA MintedFrames ==
  ASSUME TypeInv, NEW kinds \in Seq(Kind), Mint(kinds)
  PROVE  /\ NewFrames(kinds) \in Seq(Frame) /\ AppendFrames(NewFrames(kinds))
         /\ minted' = minted + Len(kinds) /\ Len(kinds) \in Nat
<1>1. minted \in Nat
  BY DEF TypeInv, ChanInv
<1> QED
  BY <1>1, NewFramesType, LenProperties DEF Mint

LEMMA AppendedConn ==
  ASSUME TypeInv, NEW fs \in Seq(Frame), AppendFrames(fs)
  PROVE  conn' \in Connection
<1>1. Heard(fs) \in Seq(Frame)
  BY EmptySeq DEF Heard
<1>2. conn \in Connection
  BY DEF TypeInv, TypeOK, Connection
<1> DEFINE ends == \E j \in DOMAIN Heard(fs) : Heard(fs)[j].k \in TerminalKind
<1>3. conn' = Fed(conn, Heard(fs), ends)
  BY DEF AppendFrames
<1>4. ends \in BOOLEAN
  OBVIOUS
<1> HIDE DEF ends
<1> QED
  BY <1>1, <1>2, <1>3, <1>4, FedType

LEMMA ConnStep ==
  ASSUME TypeInv, [Next]_vars
  PROVE  conn' \in Connection
<1>1. conn \in Connection /\ chan \in Channel /\ minted \in Nat
  BY DEF TypeInv, TypeOK, Connection, ChanInv
<1>2. ASSUME NEW k \in StepKind, Emit(k) PROVE conn' \in Connection
  <2> DEFINE kinds == <<k>>
  <2>1. kinds \in Seq(Kind)
    BY DEF Kind
  <2>2. Mint(kinds)
    BY <1>2 DEF Emit
  <2> HIDE DEF kinds
  <2> QED
    BY <2>1, <2>2, MintedFrames, AppendedConn
<1>3. ASSUME NEW chained \in BOOLEAN, TranslateResult(chained) PROVE conn' \in Connection
  <2>1. CASE chan.open
    <3>1. FramesOf(chained) \in Seq(Kind)
      BY <1>3, TranslatedEndsLast DEF TranslateResult, TypeInv, ChanInv
    <3>2. Mint(FramesOf(chained))
      BY <1>3, <2>1 DEF TranslateResult
    <3> QED
      BY <3>1, <3>2, MintedFrames, AppendedConn
  <2>2. CASE ~ chan.open
    BY <1>1, <1>3, <2>2 DEF TranslateResult
  <2> QED
    BY <2>1, <2>2
<1>12. ASSUME NEW kinds \in {<<>>, <<"text">>}, TranslateFails(kinds) PROVE conn' \in Connection
  <2>1. Mint(kinds)
    BY <1>12 DEF TranslateFails
  <2> QED
    BY <2>1, FailedFrames, MintedFrames, AppendedConn
<1>4. ASSUME EmitShot PROVE conn' \in Connection
  <2> DEFINE fs == <<[n |-> minted + 1, k |-> "browser"], [n |-> minted + 2, k |-> "shot"]>>
  <2>1. fs \in Seq(Frame)
    BY <1>1 DEF Frame, Kind, StepKind
  <2>2. conn' = conn \/ conn' = Fed(conn, fs, FALSE)
    BY <1>4 DEF EmitShot
  <2> HIDE DEF fs
  <2> QED
    BY <1>1, <2>1, <2>2, FedType
<1>5. ASSUME Crash PROVE conn' \in Connection
  <2>1. conn' = [conn EXCEPT !.fed = FALSE, !.wire = <<>>]
    BY <1>5 DEF Crash
  <2> QED
    BY <1>1, <2>1, EmptySeq DEF Connection
<1>6. ASSUME Read PROVE conn' \in Connection
  <2>1. conn' = [conn EXCEPT !.wire = Tail(conn.wire)] /\ conn.wire # <<>>
    BY <1>6 DEF Read
  <2>2. Tail(conn.wire) \in Seq(ChunkSet)
    BY <1>1, <2>1, HeadTailProperties DEF Connection
  <2> QED
    BY <1>1, <2>1, <2>2 DEF Connection
<1>7. NoConn \in Connection
  BY EmptySeq DEF NoConn, Connection
<1>8. ASSUME Open \/ Leave \/ Drop \/ Reconnect PROVE conn' \in Connection
  <2>1. conn' = conn \/ conn' = Subscribed \/ conn' = NoConn
    BY <1>8 DEF Open, Leave, Drop, Reconnect
  <2> QED
    BY <1>1, <1>7, <2>1, SubscribedType
<1>9. ASSUME UNCHANGED conn PROVE conn' \in Connection
  BY <1>1, <1>9
<1>10. \A to \in Ended \cup {"parked"} : Settle(to) => UNCHANGED conn
  BY DEF Settle
<1>11. Resume \/ ResumeRejected \/ Boot \/ StreamEnds \/ AttemptFails \/ FallBack
         \/ UNCHANGED vars => UNCHANGED conn
  BY DEF Resume, ResumeRejected, Boot, StreamEnds, AttemptFails, FallBack, vars
<1> QED
  BY <1>2, <1>3, <1>4, <1>5, <1>6, <1>8, <1>9, <1>10, <1>11, <1>12 DEF Next

LEMMA ViewStep ==
  ASSUME TypeInv, [Next]_vars
  PROVE  view' \in Viewed
<1>1. view \in Viewed /\ conn \in Connection
  BY DEF TypeInv, TypeOK, Connection, Viewed
<1>2. Closed \in Viewed
  BY EmptySeq, StreamAssumption DEF Closed, Viewed
<1>3. MaxAttempts \in Nat
  BY StreamAssumption
<1>4. ASSUME Read PROVE view' \in Viewed
  <2> DEFINE c == Head(conn.wire)
             skipped == IF ReplayStable(c) THEN view.skip - 1 ELSE view.skip
             given == IF ReplayStable(c) THEN Append(view.given, c) ELSE view.given
             parts == Place(view.parts, c)
  <2>1. c \in ChunkSet
    BY <1>1, <1>4, HeadTailProperties DEF Read, Connection
  <2>2. view.given \in Seq(ChunkSet) /\ view.parts \in Seq(ChunkSet) /\ view.skip \in Nat
    BY <1>1 DEF Viewed
  <2>3. given \in Seq(ChunkSet)
    BY <2>1, <2>2, AppendProperties
  <2>4. parts \in Seq(ChunkSet)
    BY <2>1, <2>2, PlaceType
  <2>5. view.skip > 0 => skipped \in Nat
    BY <2>2
  <2>6. view' = IF view.skip > 0 THEN [view EXCEPT !.skip = skipped]
                ELSE [view EXCEPT !.given = given, !.parts = parts]
    BY <1>4 DEF Read
  <2> HIDE DEF c, skipped, given, parts
  <2> QED
    BY <1>1, <2>3, <2>4, <2>5, <2>6 DEF Viewed
<1>5. ASSUME FallBack PROVE view' \in Viewed
  <2>1. view' = [view EXCEPT !.mode = "landed", !.parts = Append(view.parts, Fallback)]
    BY <1>5 DEF FallBack
  <2>2. Append(view.parts, Fallback) \in Seq(ChunkSet)
    BY <1>1, FallbackType, AppendProperties DEF Viewed
  <2> QED
    BY <1>1, <2>1, <2>2 DEF Viewed
<1>6. ASSUME Open PROVE view' \in Viewed
  <2>1. view' = [Closed EXCEPT !.mode = "open"]
          \/ view' = [Closed EXCEPT !.mode = "landed", !.parts = <<Fallback>>]
    BY <1>6 DEF Open
  <2>2. <<Fallback>> \in Seq(ChunkSet)
    BY FallbackType
  <2> QED
    BY <1>2, <2>1, <2>2 DEF Viewed
<1>7. ASSUME Leave PROVE view' \in Viewed
  BY <1>2, <1>7 DEF Leave
<1>8. ASSUME StreamEnds PROVE view' \in Viewed
  <2>1. view' = [view EXCEPT !.mode = "landed"]
          \/ view' = [view EXCEPT !.mode = "retry", !.tries = 0]
    BY <1>8 DEF StreamEnds
  <2>2. 0 \in 0 .. MaxAttempts
    BY <1>3
  <2> QED
    BY <1>1, <2>1, <2>2 DEF Viewed
<1>9. ASSUME Reconnect PROVE view' \in Viewed
  <2>1. view' = [view EXCEPT !.mode = "open", !.skip = Len(view.given)]
    BY <1>9 DEF Reconnect, ToSkip
  <2>2. Len(view.given) \in Nat
    BY <1>1, LenProperties DEF Viewed
  <2> QED
    BY <1>1, <2>1, <2>2 DEF Viewed
<1>10. ASSUME AttemptFails PROVE view' \in Viewed
  <2>1. view' = [view EXCEPT !.tries = view.tries + 1] /\ view.tries < MaxAttempts
    BY <1>10 DEF AttemptFails
  <2> QED
    BY <1>1, <1>3, <2>1 DEF Viewed
<1>11. ASSUME UNCHANGED view PROVE view' \in Viewed
  BY <1>1, <1>11
<1>12. /\ \A k \in StepKind : Emit(k) => UNCHANGED view
       /\ \A to \in Ended \cup {"parked"} : Settle(to) => UNCHANGED view
       /\ \A chained \in BOOLEAN : TranslateResult(chained) => UNCHANGED view
       /\ \A kinds \in {<<>>, <<"text">>} : TranslateFails(kinds) => UNCHANGED view
  BY DEF Emit, Settle, TranslateResult, TranslateFails
<1>13. EmitShot \/ Resume \/ ResumeRejected \/ Crash \/ Boot \/ Drop \/ UNCHANGED vars
         => UNCHANGED view
  BY DEF EmitShot, Resume, ResumeRejected, Crash, Boot, Drop, vars
<1> QED
  BY <1>4, <1>5, <1>6, <1>7, <1>8, <1>9, <1>10, <1>11, <1>12, <1>13 DEF Next

LEMMA CountsStep ==
  ASSUME TypeInv, [Next]_vars
  PROVE  /\ {minted, shots, gates, drops, crashes}' \subseteq Nat
         /\ proc' \in {"up", "down"}
<1>1. /\ minted \in Nat /\ shots \in Nat /\ gates \in Nat /\ drops \in Nat /\ crashes \in Nat
      /\ proc \in {"up", "down"}
  BY DEF TypeInv, TypeOK
<1>2. minted' \in Nat
  BY ChanStep DEF TypeInv, ChanInv
<1>3. shots' \in {shots, shots + 1} /\ gates' \in {gates, gates + 1}
      /\ drops' \in {drops, drops + 1} /\ crashes' \in {crashes, crashes + 1}
      /\ proc' \in {"up", "down"}
  <2>1. ASSUME NEW k \in StepKind, Emit(k)
        PROVE  UNCHANGED <<shots, gates, drops, crashes, proc>>
    BY <2>1 DEF Emit
  <2>2. ASSUME NEW chained \in BOOLEAN, TranslateResult(chained)
        PROVE  UNCHANGED <<shots, gates, drops, crashes, proc>>
    BY <2>2 DEF TranslateResult
  <2>8. ASSUME NEW kinds \in {<<>>, <<"text">>}, TranslateFails(kinds)
        PROVE  UNCHANGED <<shots, gates, drops, crashes, proc>>
    BY <2>8 DEF TranslateFails
  <2>3. ASSUME NEW to \in Ended \cup {"parked"}, Settle(to)
        PROVE  UNCHANGED <<shots, drops, crashes, proc>> /\ gates' \in {gates, gates + 1}
    BY <2>3 DEF Settle
  <2>4. ASSUME EmitShot
        PROVE  UNCHANGED <<gates, drops, crashes, proc>> /\ shots' = shots + 1
    BY <2>4 DEF EmitShot
  <2>5. ASSUME Crash \/ Boot
        PROVE  /\ UNCHANGED <<shots, gates, drops>> /\ crashes' \in {crashes, crashes + 1}
               /\ proc' \in {"up", "down"}
    BY <2>5 DEF Crash, Boot
  <2>6. ASSUME Leave \/ Drop
        PROVE  UNCHANGED <<shots, gates, crashes, proc>> /\ drops' = drops + 1
    BY <2>6 DEF Leave, Drop
  <2>7. ASSUME Resume \/ ResumeRejected \/ Open \/ Read \/ StreamEnds \/ Reconnect \/ AttemptFails \/ FallBack
                 \/ UNCHANGED vars
        PROVE  UNCHANGED <<shots, gates, drops, crashes, proc>>
    BY <2>7 DEF Resume, ResumeRejected, Open, Read, StreamEnds, Reconnect, AttemptFails,
                FallBack, vars, bounds
  <2> QED
    BY <1>1, <2>1, <2>2, <2>3, <2>4, <2>5, <2>6, <2>7, <2>8 DEF Next
<1> QED
  BY <1>1, <1>2, <1>3

LEMMA TypeStep == TypeInv /\ [Next]_vars => TypeInv'
<1> SUFFICES ASSUME TypeInv, [Next]_vars PROVE TypeInv'
  OBVIOUS
<1>1. ChanInv'
  BY ChanStep DEF TypeInv
<1> QED
  BY <1>1, ConnStep, ViewStep, CountsStep
  DEF TypeInv, TypeOK, ChanInv, Channel, Connection, Viewed

\* The channel, the connection and the page stay what they are meant to be: what a
\* translator makes of frames, and what the page places, are always chunks.
THEOREM StreamTypes == Spec => []TypeOK
<1>1. Init => TypeInv
  BY ChanInit, TypeInit DEF TypeInv
<1>2. TypeInv /\ [Next]_vars => TypeInv'
  BY TypeStep
<1>3. TypeInv => TypeOK
  BY DEF TypeInv
<1> QED
  BY <1>1, <1>2, <1>3, PTL DEF Spec

----------------------------------------------------------------------------
(* Prefixes and suffixes *)

PrefixOf(g, w) == Len(g) <= Len(w) /\ \A j \in 1 .. Len(g) : w[j] = g[j]
SuffixAt(s, w, o) == Len(w) = o + Len(s) /\ \A j \in 1 .. Len(s) : w[o + j] = s[j]

LEMMA PrefixGrows ==
  ASSUME NEW S, NEW g \in Seq(S), NEW w \in Seq(S), NEW e \in Seq(S), PrefixOf(g, w)
  PROVE  PrefixOf(g, w \o e)
<1>1. /\ Len(g) \in Nat /\ Len(w) \in Nat /\ Len(e) \in Nat /\ Len(w \o e) = Len(w) + Len(e)
      /\ \A i \in 1 .. Len(w) + Len(e) :
           (w \o e)[i] = IF i <= Len(w) THEN w[i] ELSE e[i - Len(w)]
  BY ConcatProperties, LenProperties
<1> DEFINE we == w \o e
<1> HIDE DEF we
<1>2. /\ Len(we) = Len(w) + Len(e)
      /\ \A i \in 1 .. Len(w) : we[i] = w[i]
  BY <1>1 DEF we
<1>3. Len(g) <= Len(w) /\ \A j \in 1 .. Len(g) : w[j] = g[j]
  BY DEF PrefixOf
<1>4. \A j \in 1 .. Len(g) : j \in 1 .. Len(w)
  BY <1>1, <1>3
<1>5. \A j \in 1 .. Len(g) : we[j] = g[j]
  BY <1>2, <1>3, <1>4
<1>6. Len(g) <= Len(we)
  BY <1>1, <1>2, <1>3
<1> QED
  BY <1>5, <1>6 DEF PrefixOf, we

LEMMA SuffixGrows ==
  ASSUME NEW S, NEW s \in Seq(S), NEW w \in Seq(S), NEW e \in Seq(S), NEW o \in Nat,
         SuffixAt(s, w, o)
  PROVE  SuffixAt(s \o e, w \o e, o)
<1> DEFINE L == Len(s)  W == Len(w)  E == Len(e)  se == s \o e  we == w \o e
<1>1. /\ L \in Nat /\ W \in Nat /\ E \in Nat
      /\ Len(we) = W + E /\ Len(se) = L + E
      /\ \A i \in 1 .. W + E : we[i] = IF i <= W THEN w[i] ELSE e[i - W]
      /\ \A i \in 1 .. L + E : se[i] = IF i <= L THEN s[i] ELSE e[i - L]
  BY ConcatProperties, LenProperties
<1>2. W = o + L /\ \A j \in 1 .. L : w[o + j] = s[j]
  BY DEF SuffixAt
<1> HIDE DEF L, W, E, se, we
<1>3. Len(we) = o + Len(se)
  BY <1>1, <1>2
<1>4. \A j \in 1 .. L + E : we[o + j] = se[j]
  <2> SUFFICES ASSUME NEW j \in 1 .. L + E PROVE we[o + j] = se[j]
    OBVIOUS
  <2>1. o + j \in 1 .. W + E /\ (o + j <= W <=> j <= L)
    BY <1>1, <1>2
  <2>2. CASE j <= L
    <3>1. j \in 1 .. L
      BY <1>1, <2>2
    <3>2. we[o + j] = w[o + j] /\ se[j] = s[j]
      BY <1>1, <2>1, <2>2
    <3> QED
      BY <1>2, <3>1, <3>2
  <2>3. CASE ~ (j <= L)
    <3>1. we[o + j] = e[(o + j) - W] /\ se[j] = e[j - L]
      BY <1>1, <2>1, <2>3
    <3>2. (o + j) - W = j - L
      BY <1>1, <1>2
    <3> QED
      BY <3>1, <3>2
  <2> QED
    BY <2>2, <2>3
<1> QED
  BY <1>1, <1>3, <1>4 DEF SuffixAt, se, we

\* The first of what is still to come comes right after what was had.
LEMMA SuffixPops ==
  ASSUME NEW S, NEW x \in S, NEW s \in Seq(S), NEW w \in Seq(S), NEW o \in Nat,
         SuffixAt(<<x>> \o s, w, o)
  PROVE  /\ o + 1 <= Len(w) /\ w[o + 1] = x
         /\ SuffixAt(s, w, o + 1)
<1> DEFINE u == <<x>> \o s  L == Len(s)
<1>1. /\ L \in Nat /\ Len(u) = 1 + L
      /\ \A i \in 1 .. 1 + L : u[i] = IF i <= 1 THEN <<x>>[i] ELSE s[i - 1]
  <2>1. <<x>> \in Seq(S) /\ Len(<<x>>) = 1
    OBVIOUS
  <2> QED
    BY <2>1, ConcatProperties, LenProperties
<1>2. Len(w) = o + Len(u) /\ \A j \in 1 .. Len(u) : w[o + j] = u[j]
  BY DEF SuffixAt
<1> HIDE DEF u, L
<1>3. 1 \in 1 .. 1 + L /\ u[1] = x
  BY <1>1
<1>4. \A j \in 1 .. L : w[(o + 1) + j] = s[j]
  <2> SUFFICES ASSUME NEW j \in 1 .. L PROVE w[(o + 1) + j] = s[j]
    OBVIOUS
  <2>1. j + 1 \in 1 .. 1 + L /\ ~ (j + 1 <= 1) /\ (j + 1) - 1 = j /\ o + (j + 1) = (o + 1) + j
    BY <1>1
  <2>2. u[j + 1] = s[(j + 1) - 1]
    BY <1>1, <2>1
  <2>3. w[o + (j + 1)] = u[j + 1]
    BY <1>1, <1>2, <2>1
  <2> QED
    BY <2>1, <2>2, <2>3
<1>5. Len(w) = (o + 1) + L /\ o + 1 <= Len(w)
  BY <1>1, <1>2
<1>6. w[o + 1] = x
  BY <1>1, <1>2, <1>3
<1> QED
  BY <1>4, <1>5, <1>6 DEF SuffixAt, L

LEMMA PrefixPushes ==
  ASSUME NEW S, NEW x \in S, NEW g \in Seq(S), NEW w \in Seq(S), PrefixOf(g, w),
         Len(g) + 1 <= Len(w), w[Len(g) + 1] = x
  PROVE  PrefixOf(g \o <<x>>, w)
<1> DEFINE u == g \o <<x>>  L == Len(g)
<1>1. /\ L \in Nat /\ Len(u) = L + 1
      /\ \A i \in 1 .. L + 1 : u[i] = IF i <= L THEN g[i] ELSE <<x>>[i - L]
  <2>1. <<x>> \in Seq(S) /\ Len(<<x>>) = 1
    OBVIOUS
  <2> QED
    BY <2>1, ConcatProperties, LenProperties
<1>2. \A j \in 1 .. L : w[j] = g[j]
  BY DEF PrefixOf
<1> HIDE DEF u
<1>3. \A j \in 1 .. L + 1 : w[j] = u[j]
  <2> SUFFICES ASSUME NEW j \in 1 .. L + 1 PROVE w[j] = u[j]
    OBVIOUS
  <2>1. CASE j = L + 1
    <3>1. ~ (j <= L) /\ j - L = 1
      BY <1>1, <2>1
    <3>2. u[j] = <<x>>[j - L]
      BY <1>1, <3>1
    <3> QED
      BY <2>1, <3>1, <3>2
  <2>2. CASE j # L + 1
    <3>1. j \in 1 .. L /\ j <= L
      BY <1>1, <2>2
    <3> QED
      BY <1>1, <1>2, <3>1
  <2> QED
    BY <2>1, <2>2
<1> QED
  BY <1>1, <1>3 DEF PrefixOf, u

LEMMA SuffixWhole ==
  ASSUME NEW S, NEW w \in Seq(S)
  PROVE  SuffixAt(w, w, 0)
<1>1. Len(w) \in Nat
  BY LenProperties
<1> QED
  BY <1>1 DEF SuffixAt

----------------------------------------------------------------------------
(* Nothing is lost or doubled *)

Backlog == Translate(Start, 0) \o TranslateAll(chan.log, 0)
PlainFrame == {f \in Frame : f.k # "shot"}

\* Something still comes over the connection, or is on it.
Listening == view.mode = "open" /\ (conn.fed \/ conn.wire # <<>>)

\* In the life of one process: only the live queue carries screenshots; a connection is
\* fed as long as the channel is open; what the page has is a prefix of the backlog, and
\* what is on the wire is the rest of it, from the first chunk that is not a known one.
Line ==
  /\ chan.open /\ proc = "up"
  /\ chan.log \in Seq(PlainFrame) /\ view.given \in Seq(PlainChunk)
  /\ conn.fed => ~ chan.terminal
  /\ ~ conn.fed /\ conn.wire # <<>> => chan.terminal
  /\ view.mode # "open" => ~ conn.fed /\ conn.wire = <<>>
  /\ view.skip <= Len(view.given)
  /\ PrefixOf(Sense(view.given), Sense(Backlog))
  /\ Listening => SuffixAt(Sense(conn.wire), Sense(Backlog), Len(view.given) - view.skip)

LineInv == TypeInv /\ (crashes = 0 => Line)

LEMMA BacklogOf ==
  ASSUME NEW log \in Seq(Frame)
  PROVE  Translate(Start, 0) \o TranslateAll(log, 0) \in Seq(ChunkSet)
<1>1. Translate(Start, 0) \in Seq(ChunkSet) /\ TranslateAll(log, 0) \in Seq(ChunkSet)
  BY StartIsFrame, ChunksAreChunks, TranslateAllType
<1> QED
  BY <1>1, ConcatProperties

\* The backlog of a longer log is the backlog and the chunks of the new frames.
LEMMA BacklogContinues ==
  ASSUME NEW log \in Seq(Frame), NEW fs \in Seq(Frame)
  PROVE  Translate(Start, 0) \o TranslateAll(log \o fs, 0)
           = (Translate(Start, 0) \o TranslateAll(log, 0)) \o TranslateAll(fs, Len(log))
<1> DEFINE a == Translate(Start, 0)  b == TranslateAll(log, 0)  c == TranslateAll(fs, Len(log))
<1>1. Len(log) \in Nat
  BY LenProperties
<1>2. a \in Seq(ChunkSet) /\ b \in Seq(ChunkSet) /\ c \in Seq(ChunkSet)
  BY <1>1, StartIsFrame, ChunksAreChunks, TranslateAllType
<1>3. TranslateAll(log \o fs, 0) = b \o c
  <2>1. 0 + Len(log) = Len(log)
    BY <1>1
  <2>2. TranslateAll(log \o fs, 0) = TranslateAll(log, 0) \o TranslateAll(fs, 0 + Len(log))
    <3>1. 0 \in Nat
      OBVIOUS
    <3> QED
      BY <3>1, TranslateAllConcat
  <2> QED
    BY <2>1, <2>2
<1> HIDE DEF a, b, c
<1>4. a \o (b \o c) = (a \o b) \o c
  BY <1>2, ConcatAssociative, SMTT(30)
<1> QED
  BY <1>3, <1>4 DEF a, b, c

\* To the page's count: what they stand for, wherever they are translated.
LEMMA BacklogGrows ==
  ASSUME NEW log \in Seq(Frame), NEW fs \in Seq(Frame)
  PROVE  Sense(Translate(Start, 0) \o TranslateAll(log \o fs, 0))
           = Sense(Translate(Start, 0) \o TranslateAll(log, 0)) \o Sense(TranslateAll(fs, 0))
<1> DEFINE b == Translate(Start, 0) \o TranslateAll(log, 0)  c == TranslateAll(fs, Len(log))
<1>1. Len(log) \in Nat
  BY LenProperties
<1>2. b \in Seq(ChunkSet) /\ c \in Seq(ChunkSet)
  BY <1>1, BacklogOf, TranslateAllType
<1>3. Sense(c) = Sense(TranslateAll(fs, 0))
  BY <1>1, SenseAnywhere
<1>4. Translate(Start, 0) \o TranslateAll(log \o fs, 0) = b \o c
  BY BacklogContinues
<1> HIDE DEF b, c
<1>5. Sense(b \o c) = Sense(b) \o Sense(c)
  BY <1>2, SenseConcat
<1> QED
  BY <1>3, <1>4, <1>5 DEF b

\* The channel takes frames, and the queue the same ones, with their pictures or not.
LEMMA LineGrows ==
  ASSUME LineInv, TypeInv', crashes = 0,
         NEW fs \in Seq(PlainFrame), NEW gs \in Seq(Frame), NEW closes \in BOOLEAN,
         ~ chan.terminal,
         chan'.log = chan.log \o fs, chan'.open = chan.open, chan'.terminal = closes,
         conn' = Fed(conn, gs, closes),
         Sense(TranslateAll(gs, 0)) = Sense(TranslateAll(fs, 0)),
         UNCHANGED <<view, proc, crashes>>
  PROVE  LineInv'
<1>1. Line
  BY DEF LineInv
<1>2. /\ chan.log \in Seq(PlainFrame) /\ chan.log \in Seq(Frame) /\ fs \in Seq(Frame)
      /\ conn.wire \in Seq(ChunkSet) /\ conn.at \in Nat /\ conn.fed \in BOOLEAN
      /\ view.given \in Seq(ChunkSet) /\ view.skip \in Nat
  <2>1. PlainFrame \subseteq Frame
    BY DEF PlainFrame
  <2>2. /\ conn \in Connection /\ view \in Viewed /\ chan.log \in Seq(Frame)
    BY DEF LineInv, TypeInv, TypeOK, Connection, Viewed
  <2> QED
    BY <1>1, <2>1, <2>2, SeqMonotonic DEF Line, Connection, Viewed
<1> DEFINE new == Sense(TranslateAll(fs, 0))
<1>3. new \in Seq(Meanings) /\ Sense(view.given) \in Seq(Meanings) /\ Backlog \in Seq(ChunkSet)
      /\ Sense(Backlog) \in Seq(Meanings) /\ Sense(conn.wire) \in Seq(Meanings)
  BY <1>2, TranslateAllType, BacklogOf, SenseType DEF Backlog
<1>4. Sense(Backlog') = Sense(Backlog) \o new
  BY <1>2, BacklogGrows DEF Backlog
<1>5. PrefixOf(Sense(view.given), Sense(Backlog'))
  <2>1. PrefixOf(Sense(view.given), Sense(Backlog))
    BY <1>1 DEF Line
  <2> QED
    BY <1>3, <1>4, <2>1, PrefixGrows
<1>6. chan'.log \in Seq(PlainFrame)
  BY <1>2, ConcatProperties
<1>7. CASE conn.fed
  <2>1. /\ conn'.fed = ~ closes
        /\ conn'.wire = conn.wire \o TranslateAll(gs, conn.at)
    BY <1>7 DEF Fed
  <2>2. Sense(conn'.wire) = Sense(conn.wire) \o new
    <3>1. TranslateAll(gs, conn.at) \in Seq(ChunkSet)
      BY <1>2, TranslateAllType
    <3>2. Sense(TranslateAll(gs, conn.at)) = Sense(TranslateAll(gs, 0))
      BY <1>2, SenseAnywhere
    <3> QED
      BY <1>2, <2>1, <3>1, <3>2, SenseConcat
  <2>3. view.mode = "open" /\ Listening
    BY <1>1, <1>7 DEF Line, Listening
  <2>4. SuffixAt(Sense(conn'.wire), Sense(Backlog'), Len(view.given) - view.skip)
    <3>1. SuffixAt(Sense(conn.wire), Sense(Backlog), Len(view.given) - view.skip)
      BY <1>1, <2>3 DEF Line
    <3>2. Len(view.given) - view.skip \in Nat
      BY <1>1, <1>2, LenProperties DEF Line
    <3> QED
      BY <1>3, <1>4, <2>2, <3>1, <3>2, SuffixGrows
  <2>5. Line'
    BY <1>1, <1>5, <1>6, <2>1, <2>3, <2>4 DEF Line
  <2> QED
    BY <2>5 DEF LineInv
<1>8. CASE ~ conn.fed
  <2>1. conn' = conn
    BY <1>8 DEF Fed
  <2>2. conn.wire = <<>>
    BY <1>1, <1>8 DEF Line
  <2>3. ~ Listening'
    BY <1>8, <2>1, <2>2 DEF Listening
  <2>4. Line'
    BY <1>1, <1>5, <1>6, <1>8, <2>1, <2>2, <2>3 DEF Line
  <2> QED
    BY <2>4 DEF LineInv
<1> QED
  BY <1>7, <1>8

\* append.
LEMMA LineAppends ==
  ASSUME LineInv, TypeInv', crashes = 0, NEW fs \in Seq(PlainFrame), AppendFrames(fs),
         UNCHANGED <<view, proc, crashes>>
  PROVE  LineInv'
<1>1. chan \in Channel /\ fs \in Seq(Frame)
  <2>1. PlainFrame \subseteq Frame
    BY DEF PlainFrame
  <2> QED
    BY <2>1, SeqMonotonic DEF LineInv, TypeInv, ChanInv
<1>2. CASE chan.terminal
  <2>1. Heard(fs) = <<>> /\ chan.log \o <<>> = chan.log
    BY <1>1, <1>2, ConcatEmptySeq DEF Heard, Channel
  <2>2. chan' = [chan EXCEPT !.log = chan.log, !.terminal = TRUE]
    BY <1>2, <2>1 DEF AppendFrames
  <2>3. chan'.log = chan.log /\ chan'.open = chan.open /\ chan'.terminal = TRUE
    BY <1>1, <2>2 DEF Channel
  <2>4. ~ conn.fed
    BY <1>2 DEF LineInv, Line
  <2>5. conn' = conn
    BY <2>4 DEF AppendFrames, Fed
  <2>6. Backlog' = Backlog /\ Listening' = Listening
    BY <2>3, <2>5 DEF Backlog, Listening
  <2>7. Line'
    BY <1>2, <2>3, <2>5, <2>6 DEF LineInv, Line
  <2> QED
    BY <2>7 DEF LineInv
<1>3. CASE ~ chan.terminal
  <2> DEFINE ends == \E j \in DOMAIN fs : fs[j].k \in TerminalKind
  <2>1. chan' = [chan EXCEPT !.log = chan.log \o fs, !.terminal = ends]
          /\ conn' = Fed(conn, fs, ends)
    BY <1>3 DEF AppendFrames, Heard
  <2>2. ends \in BOOLEAN
    OBVIOUS
  <2> HIDE DEF ends
  <2>3. chan'.log = chan.log \o fs /\ chan'.open = chan.open /\ chan'.terminal = ends
    BY <1>1, <2>1 DEF Channel
  <2> QED
    BY <1>1, <1>3, <2>1, <2>2, <2>3, LineGrows
<1> QED
  BY <1>2, <1>3

LEMMA FirstAndRest ==
  ASSUME NEW S, NEW s \in Seq(S), s # <<>>
  PROVE  s = <<Head(s)>> \o Tail(s)
<1> DEFINE c == Head(s)  rest == Tail(s)
<1>1. /\ c \in S /\ rest \in Seq(S) /\ Len(rest) = Len(s) - 1
      /\ \A i \in 1 .. Len(rest) : rest[i] = s[i + 1]
      /\ c = s[1]
  BY HeadTailProperties
<1>2. <<c>> \in Seq(S) /\ Len(<<c>>) = 1 /\ <<c>>[1] = c
  BY <1>1
<1> HIDE DEF c, rest
<1>3. Len(s) \in Nat /\ Len(rest) \in Nat
  BY <1>1, LenProperties
<1>4. /\ <<c>> \o rest \in Seq(S) /\ Len(<<c>> \o rest) = 1 + Len(rest)
      /\ \A i \in 1 .. 1 + Len(rest) :
           (<<c>> \o rest)[i] = IF i <= 1 THEN <<c>>[i] ELSE rest[i - 1]
  BY <1>1, <1>2, ConcatProperties
<1>5. \A i \in 1 .. Len(s) : s[i] = (<<c>> \o rest)[i]
  <2> SUFFICES ASSUME NEW i \in 1 .. Len(s) PROVE s[i] = (<<c>> \o rest)[i]
    OBVIOUS
  <2>1. CASE i = 1
    <3>1. 1 \in 1 .. 1 + Len(rest)
      BY <1>3
    <3>2. (<<c>> \o rest)[1] = <<c>>[1]
      BY <1>4, <3>1
    <3> QED
      BY <1>1, <1>2, <2>1, <3>2
  <2>2. CASE i # 1
    <3>1. i - 1 \in 1 .. Len(rest) /\ (i - 1) + 1 = i /\ ~ (i <= 1) /\ i \in 1 .. 1 + Len(rest)
      BY <1>1, <1>3, <2>2
    <3>2. rest[i - 1] = s[(i - 1) + 1]
      BY <1>1, <3>1
    <3> QED
      BY <1>4, <3>1, <3>2
  <2> QED
    BY <2>1, <2>2
<1>6. s = <<c>> \o rest
  <2>1. Len(s) = Len(<<c>> \o rest) /\ <<c>> \o rest \in Seq(S)
    BY <1>1, <1>3, <1>4
  <2> QED
    BY <1>5, <2>1, SeqEqual
<1> QED
  BY <1>6 DEF c, rest

\* A chunk that is known takes one off the count; a new one is given.
LEMMA LineReads ==
  ASSUME LineInv, TypeInv', crashes = 0, Read
  PROVE  LineInv'
<1>1. Line
  BY DEF LineInv
<1>2. view \in Viewed /\ conn \in Connection /\ chan.log \in Seq(Frame)
  BY DEF LineInv, TypeInv, TypeOK, Viewed, Connection
<1> DEFINE c == Head(conn.wire)  rest == Tail(conn.wire)
           o == Len(view.given) - view.skip
<1>3. /\ view.mode = "open" /\ conn.wire # <<>>
      /\ view' = IF view.skip > 0
                   THEN [view EXCEPT !.skip = IF ReplayStable(c) THEN view.skip - 1 ELSE view.skip]
                   ELSE [view EXCEPT !.given = IF ReplayStable(c) THEN Append(view.given, c) ELSE view.given,
                                     !.parts = Place(view.parts, c)]
      /\ conn' = [conn EXCEPT !.wire = rest]
      /\ UNCHANGED <<run, owed, proc, chan, bounds>>
  BY DEF Read
<1>4. /\ c \in ChunkSet /\ rest \in Seq(ChunkSet) /\ conn.wire = <<c>> \o rest
  <2>1. conn.wire \in Seq(ChunkSet)
    BY <1>2 DEF Connection
  <2> QED
    BY <1>3, <2>1, HeadTailProperties, FirstAndRest
<1>5. /\ view.given \in Seq(PlainChunk) /\ view.given \in Seq(ChunkSet) /\ view.skip \in Nat
      /\ Len(view.given) \in Nat
  <2>1. view.given \in Seq(ChunkSet) /\ view.skip \in Nat
    BY <1>2 DEF Viewed
  <2> QED
    BY <1>1, <2>1, LenProperties DEF Line
<1>6. o \in Nat /\ SuffixAt(Sense(conn.wire), Sense(Backlog), o)
  BY <1>1, <1>3, <1>5 DEF Line, Listening
<1>7. /\ Sense(rest) \in Seq(Meanings) /\ Sense(Backlog) \in Seq(Meanings)
      /\ Sense(view.given) \in Seq(Meanings) /\ Sensed(c) \in Seq(Meanings)
  BY <1>2, <1>4, <1>5, BacklogOf, SenseType, SensedType DEF Backlog
<1> HIDE DEF c, rest
<1>8. Sense(conn.wire) = Sensed(c) \o Sense(rest)
  <2>1. <<c>> \in Seq(ChunkSet)
    BY <1>4
  <2> QED
    BY <1>4, <2>1, SenseConcat, SenseOne
<1>9. conn'.wire = rest /\ conn'.fed = conn.fed /\ chan' = chan /\ proc' = proc
  BY <1>2, <1>3 DEF Connection
<1>10. Backlog' = Backlog
  BY <1>9 DEF Backlog
<1>11. view'.mode = "open"
  <2>1. view' \in Viewed /\ view'.mode = view.mode
    BY <1>2, <1>3 DEF Viewed, TypeInv, TypeOK
  <2> QED
    BY <1>3, <2>1
<1>12. CASE c.k = "shot"
  <2>1. Sensed(c) = <<>> /\ ~ ReplayStable(c)
    BY <1>12 DEF Sensed, ReplayStable
  <2>2. Sense(conn.wire) = Sense(rest)
    BY <1>7, <1>8, <2>1, ConcatEmptySeq
  <2>3. view'.given = view.given /\ view'.skip = view.skip
    BY <1>2, <1>3, <2>1 DEF Viewed
  <2>4. Line'
    <3>1. SuffixAt(Sense(conn'.wire), Sense(Backlog'), Len(view'.given) - view'.skip)
      BY <1>6, <1>9, <1>10, <2>2, <2>3
    <3>2. ~ conn'.fed /\ conn'.wire # <<>> => chan'.terminal
      BY <1>1, <1>3, <1>9 DEF Line
    <3> QED
      BY <1>1, <1>9, <1>10, <1>11, <2>3, <3>1, <3>2 DEF Line
  <2> QED
    BY <2>4 DEF LineInv
<1>13. CASE c.k # "shot"
  <2> DEFINE m == <<c.n, c.part>>
  <2>1. /\ Sensed(c) = <<m>> /\ ReplayStable(c) /\ m \in Meanings /\ c \in PlainChunk
    BY <1>4, <1>13 DEF Sensed, ReplayStable, ChunkSet, Meanings, PlainChunk
  <2> HIDE DEF m
  <2>2. /\ o + 1 <= Len(Sense(Backlog)) /\ Sense(Backlog)[o + 1] = m
        /\ SuffixAt(Sense(rest), Sense(Backlog), o + 1)
    BY <1>6, <1>7, <1>8, <2>1, SuffixPops
  <2>3. ~ conn'.fed /\ conn'.wire # <<>> => chan'.terminal
    BY <1>1, <1>3, <1>9 DEF Line
  <2>4. CASE view.skip > 0
    <3>1. view'.given = view.given /\ view'.skip = view.skip - 1
      BY <1>2, <1>3, <2>1, <2>4 DEF Viewed
    <3>2. Len(view'.given) - view'.skip = o + 1 /\ view'.skip <= Len(view'.given)
      BY <1>1, <1>5, <3>1 DEF Line
    <3>3. Line'
      BY <1>1, <1>9, <1>10, <1>11, <2>2, <2>3, <3>1, <3>2 DEF Line
    <3> QED
      BY <3>3 DEF LineInv
  <2>5. CASE ~ (view.skip > 0)
    <3>1. view.skip = 0 /\ o = Len(view.given)
      BY <1>5, <2>5
    <3>2. view'.given = Append(view.given, c) /\ view'.skip = 0
      BY <1>2, <1>3, <2>1, <2>5, <3>1 DEF Viewed
    <3>3. Sense(view'.given) = Sense(view.given) \o <<m>>
      BY <1>4, <1>5, <2>1, <3>2, SenseAppend
    <3>4. Len(Sense(view.given)) = Len(view.given)
      BY <1>5, SensePlain
    <3>5. PrefixOf(Sense(view'.given), Sense(Backlog'))
      <4>1. PrefixOf(Sense(view.given), Sense(Backlog))
        BY <1>1 DEF Line
      <4> QED
        BY <1>7, <1>10, <2>1, <2>2, <3>1, <3>3, <3>4, <4>1, PrefixPushes
    <3>6. /\ view'.given \in Seq(PlainChunk) /\ Len(view'.given) = Len(view.given) + 1
      BY <1>5, <2>1, <3>2, AppendProperties
    <3>7. Len(view'.given) - view'.skip = o + 1 /\ view'.skip <= Len(view'.given)
      BY <1>5, <3>1, <3>2, <3>6
    <3>8. Line'
      BY <1>1, <1>9, <1>10, <1>11, <2>2, <2>3, <3>5, <3>6, <3>7 DEF Line
    <3> QED
      BY <3>8 DEF LineInv
  <2> QED
    BY <2>4, <2>5
<1> QED
  BY <1>12, <1>13

\* A new connection has the whole backlog on its wire.
LEMMA LineSubscribes ==
  ASSUME LineInv, TypeInv', crashes = 0, conn' = Subscribed,
         view'.given \in Seq(PlainChunk), view'.mode = "open",
         view'.skip = Len(view'.given),
         PrefixOf(Sense(view'.given), Sense(Backlog)),
         UNCHANGED <<chan, proc, crashes>>
  PROVE  LineInv'
<1>1. Line /\ chan.log \in Seq(Frame) /\ chan.terminal \in BOOLEAN
  BY DEF LineInv, TypeInv, TypeOK
<1>2. /\ conn'.fed = ~ chan.terminal /\ conn'.wire = Backlog
  BY DEF Subscribed, Backlog
<1>3. Sense(Backlog) \in Seq(Meanings)
  BY <1>1, BacklogOf, SenseType DEF Backlog
<1>4. SuffixAt(Sense(Backlog), Sense(Backlog), 0)
  BY <1>3, SuffixWhole
<1>5. Backlog' = Backlog
  BY DEF Backlog
<1>6. Len(view'.given) \in Nat /\ Len(view'.given) - view'.skip = 0
  BY LenProperties
<1>7. SuffixAt(Sense(conn'.wire), Sense(Backlog'), Len(view'.given) - view'.skip)
  BY <1>2, <1>4, <1>5, <1>6
<1>8. /\ conn'.fed => ~ chan'.terminal
      /\ ~ conn'.fed /\ conn'.wire # <<>> => chan'.terminal
  BY <1>2
<1>9. view'.skip <= Len(view'.given)
  BY <1>6
<1>10. Line'
  BY <1>1, <1>5, <1>7, <1>8, <1>9 DEF Line
<1> QED
  BY <1>10 DEF LineInv

LEMMA NewFramesPlain ==
  ASSUME minted \in Nat, NEW kinds \in Seq(Kind),
         \A j \in 1 .. Len(kinds) : kinds[j] # "shot"
  PROVE  NewFrames(kinds) \in Seq(PlainFrame)
<1>1. \A j \in 1 .. Len(kinds) : [n |-> minted + j, k |-> kinds[j]] \in PlainFrame
  <2>1. \A j \in 1 .. Len(kinds) : kinds[j] \in Kind /\ j \in Nat
    BY ElementOfSeq, LenProperties
  <2> QED
    BY <2>1 DEF PlainFrame, Frame
<1>2. Len(kinds) \in Nat
  BY LenProperties
<1>3. NewFrames(kinds) \in [1 .. Len(kinds) -> PlainFrame]
  BY <1>1 DEF NewFrames
<1> QED
  BY <1>2, <1>3

LEMMA TranslatedPlain ==
  ASSUME run \in Ended \cup {"executing", "parked"}, run # "executing",
         NEW chained \in BOOLEAN
  PROVE  \A j \in 1 .. Len(FramesOf(chained)) : FramesOf(chained)[j] # "shot"
<1>1. CASE run = "completed" /\ chained
  BY <1>1 DEF FramesOf
<1>2. CASE run = "completed" /\ ~ chained
  BY <1>2 DEF FramesOf
<1>3. CASE run = "parked"
  BY <1>3 DEF FramesOf
<1>4. CASE run = "failed"
  BY <1>4 DEF FramesOf
<1>5. CASE run \in {"declined", "canceled"}
  <2>1. FramesOf(chained) = <<run>> /\ run # "shot"
    BY <1>5 DEF FramesOf
  <2> QED
    BY <2>1
<1> QED
  BY <1>1, <1>2, <1>3, <1>4, <1>5 DEF Ended

LEMMA TwoOfThem ==
  ASSUME NEW S, NEW x \in S, NEW y \in S
  PROVE  <<x, y>> = <<x>> \o <<y>>
<1>1. <<x>> \in Seq(S)
  OBVIOUS
<1>2. Append(<<x>>, y) = <<x>> \o <<y>>
  BY <1>1, AppendIsConcat
<1>3. Append(<<x>>, y) = <<x, y>>
  <2> DEFINE a == Append(<<x>>, y)  b == <<x, y>>
  <2>1. /\ a \in Seq(S) /\ Len(a) = Len(<<x>>) + 1
        /\ \A i \in 1 .. Len(<<x>>) : a[i] = <<x>>[i]
        /\ a[Len(<<x>>) + 1] = y
    BY <1>1, AppendProperties
  <2>2. Len(<<x>>) = 1 /\ <<x>>[1] = x
    OBVIOUS
  <2>3. b \in Seq(S) /\ Len(b) = 2 /\ b[1] = x /\ b[2] = y
    OBVIOUS
  <2> HIDE DEF a, b
  <2>4. Len(a) = 2 /\ a[1] = x /\ a[2] = y
    BY <2>1, <2>2
  <2>5. \A i \in 1 .. 2 : i = 1 \/ i = 2
    OBVIOUS
  <2> QED
    BY <2>1, <2>3, <2>4, <2>5, SeqEqual DEF a, b
<1> QED
  BY <1>2, <1>3

\* A picture is sent to the live queue and not logged; to the page's count it is nothing.
LEMMA LineShows ==
  ASSUME LineInv, TypeInv', crashes = 0, EmitShot
  PROVE  LineInv'
<1> DEFINE bare == [n |-> minted + 1, k |-> "browser"]  shot == [n |-> minted + 2, k |-> "shot"]
<1>1. chan \in Channel /\ minted \in Nat
  BY DEF LineInv, TypeInv, ChanInv
<1>2. bare \in PlainFrame /\ bare \in Frame /\ shot \in Frame /\ shot.k = "shot"
  BY <1>1 DEF PlainFrame, Frame, Kind, StepKind
<1>3. /\ chan' = [chan EXCEPT !.log = chan.log \o Heard(<<bare>>)]
      /\ conn' = IF chan.terminal THEN conn ELSE Fed(conn, <<bare, shot>>, FALSE)
      /\ UNCHANGED <<view, proc, crashes>>
  BY DEF EmitShot
<1> HIDE DEF bare, shot
<1>4. CASE chan.terminal
  <2>1. Heard(<<bare>>) = <<>> /\ chan.log \o <<>> = chan.log
    BY <1>1, <1>4, ConcatEmptySeq DEF Heard, Channel
  <2>2. chan' = chan /\ conn' = conn
    BY <1>1, <1>3, <1>4, <2>1 DEF Channel
  <2>3. Backlog' = Backlog /\ Listening' = Listening
    BY <1>3, <2>2 DEF Backlog, Listening
  <2>4. Line'
    BY <1>3, <2>2, <2>3 DEF LineInv, Line
  <2> QED
    BY <2>4 DEF LineInv
<1>5. CASE ~ chan.terminal
  <2>1. chan' = [chan EXCEPT !.log = chan.log \o <<bare>>] /\ conn' = Fed(conn, <<bare, shot>>, FALSE)
    BY <1>3, <1>5 DEF Heard
  <2>2. /\ chan'.log = chan.log \o <<bare>> /\ chan'.open = chan.open
        /\ chan'.terminal = FALSE
    BY <1>1, <1>5, <2>1 DEF Channel
  <2>3. <<bare>> \in Seq(PlainFrame) /\ <<bare>> \in Seq(Frame) /\ <<shot>> \in Seq(Frame)
          /\ <<bare, shot>> \in Seq(Frame) /\ <<bare, shot>> = <<bare>> \o <<shot>>
          /\ Len(<<bare>>) = 1
    <3>1. <<bare>> \in Seq(PlainFrame) /\ <<bare>> \in Seq(Frame) /\ Len(<<bare>>) = 1
      BY <1>2
    <3>2. <<shot>> \in Seq(Frame) /\ <<bare, shot>> \in Seq(Frame)
      BY <1>2
    <3>3. <<bare, shot>> = <<bare>> \o <<shot>>
      BY <1>2, TwoOfThem
    <3> QED
      BY <3>1, <3>2, <3>3
  <2>4. Sense(TranslateAll(<<bare, shot>>, 0)) = Sense(TranslateAll(<<bare>>, 0))
    <3>1. TranslateAll(<<bare>> \o <<shot>>, 0)
            = TranslateAll(<<bare>>, 0) \o TranslateAll(<<shot>>, 0 + Len(<<bare>>))
      <4>1. 0 \in Nat
        OBVIOUS
      <4> QED
        BY <2>3, <4>1, TranslateAllConcat
    <3>2. TranslateAll(<<shot>>, 1) = Translate(shot, 1)
      BY <1>2, TranslateAllOne
    <3>3. Translate(shot, 1) = <<Chunk(shot, "live", 1)>>
      BY <1>2 DEF Translate, TerminalKind
    <3>4. Chunk(shot, "live", 1) \in ChunkSet /\ Chunk(shot, "live", 1).k = "shot"
      BY <1>2 DEF Chunk, ChunkSet, Frame, Part
    <3>5. Sense(Translate(shot, 1)) = <<>>
      BY <3>3, <3>4, SenseOne DEF Sensed
    <3>6. TranslateAll(<<bare>>, 0) \in Seq(ChunkSet) /\ Translate(shot, 1) \in Seq(ChunkSet)
      BY <1>2, <2>3, TranslateAllType, ChunksAreChunks
    <3>7. Sense(TranslateAll(<<bare>>, 0) \o Translate(shot, 1))
            = Sense(TranslateAll(<<bare>>, 0)) \o <<>>
      BY <3>5, <3>6, SenseConcat
    <3>8. Sense(TranslateAll(<<bare>>, 0)) \o <<>> = Sense(TranslateAll(<<bare>>, 0))
      BY <3>6, SenseType, ConcatEmptySeq
    <3>9. 0 + Len(<<bare>>) = 1
      BY <2>3
    <3> QED
      BY <2>3, <3>1, <3>2, <3>7, <3>8, <3>9
  <2> QED
    BY <1>3, <1>5, <2>1, <2>2, <2>3, <2>4, LineGrows
<1> QED
  BY <1>4, <1>5

LEMMA LineInit == Init => LineInv
<1> SUFFICES ASSUME Init PROVE LineInv
  OBVIOUS
<1>1. TypeInv
  BY ChanInit, TypeInit DEF TypeInv
<1>2. chan.log \in Seq(PlainFrame) /\ chan.open
  <2>1. [n |-> 1, k |-> "init"] \in PlainFrame
    BY DEF PlainFrame, Frame, Kind
  <2> QED
    BY <2>1 DEF Init
<1>3. /\ view.given = <<>> /\ view.mode = "closed" /\ view.skip = 0
      /\ conn.wire = <<>> /\ conn.fed = FALSE /\ proc = "up"
  BY DEF Init, Closed, NoConn
<1>4. view.given \in Seq(PlainChunk) /\ Len(view.given) = 0
  BY <1>3, EmptySeq
<1>5. PrefixOf(Sense(view.given), Sense(Backlog))
  <2>1. Sense(view.given) = <<>> /\ Len(<<>>) = 0
    BY <1>3, SenseNone
  <2>2. Sense(Backlog) \in Seq(Meanings)
    BY <1>1, BacklogOf, SenseType DEF Backlog, TypeInv, TypeOK
  <2>3. Len(Sense(Backlog)) \in Nat
    BY <2>2, LenProperties
  <2> QED
    BY <2>1, <2>3 DEF PrefixOf
<1>6. Line
  BY <1>2, <1>3, <1>4, <1>5 DEF Line, Listening
<1> QED
  BY <1>1, <1>6 DEF LineInv

LEMMA LineStep == LineInv /\ [Next]_vars => LineInv'
<1> SUFFICES ASSUME LineInv, [Next]_vars PROVE LineInv'
  OBVIOUS
<1>1. TypeInv'
  BY TypeStep DEF LineInv
<1>2. SUFFICES ASSUME crashes' = 0 PROVE LineInv'
  BY <1>1 DEF LineInv
<1>3. crashes \in Nat /\ minted \in Nat /\ view \in Viewed /\ conn \in Connection
  BY DEF LineInv, TypeInv, TypeOK, ChanInv, Viewed, Connection
<1>4. ~ Crash
  BY <1>2, <1>3 DEF Crash
<1>5. crashes = 0
  <2>1. UNCHANGED crashes
    <3>1. /\ \A k \in StepKind : Emit(k) => UNCHANGED crashes
          /\ \A to \in Ended \cup {"parked"} : Settle(to) => UNCHANGED crashes
          /\ \A chained \in BOOLEAN : TranslateResult(chained) => UNCHANGED crashes
          /\ \A kinds \in {<<>>, <<"text">>} : TranslateFails(kinds) => UNCHANGED crashes
      BY DEF Emit, Settle, TranslateResult, TranslateFails
    <3>2. EmitShot \/ Resume \/ ResumeRejected \/ Boot \/ Open \/ Leave \/ Drop \/ Read \/ StreamEnds
            \/ Reconnect \/ AttemptFails \/ FallBack \/ UNCHANGED vars => UNCHANGED crashes
      BY DEF EmitShot, Resume, ResumeRejected, Boot, Open, Leave, Drop, Read, StreamEnds, Reconnect,
             AttemptFails, FallBack, vars, bounds
    <3> QED
      BY <1>4, <3>1, <3>2 DEF Next
  <2> QED
    BY <1>2, <2>1
<1>6. Line
  BY <1>5 DEF LineInv
<1>7. ASSUME NEW k \in StepKind, Emit(k) PROVE LineInv'
  <2> DEFINE kinds == <<k>>
  <2>1. kinds \in Seq(Kind) /\ Len(kinds) = 1 /\ \A j \in 1 .. 1 : kinds[j] # "shot"
    BY DEF Kind, StepKind
  <2>2. Mint(kinds) /\ UNCHANGED <<view, proc, crashes>>
    BY <1>7 DEF Emit
  <2> HIDE DEF kinds
  <2>3. NewFrames(kinds) \in Seq(PlainFrame) /\ AppendFrames(NewFrames(kinds))
    BY <1>3, <2>1, <2>2, NewFramesPlain DEF Mint
  <2> QED
    BY <1>1, <1>5, <2>2, <2>3, LineAppends
<1>8. ASSUME NEW chained \in BOOLEAN, TranslateResult(chained) PROVE LineInv'
  <2>1. chan.open
    BY <1>6 DEF Line
  <2>2. run \in Ended \cup {"executing", "parked"} /\ run # "executing"
    BY <1>8 DEF TranslateResult, LineInv, TypeInv, ChanInv
  <2>3. /\ FramesOf(chained) \in Seq(Kind)
        /\ \A j \in 1 .. Len(FramesOf(chained)) : FramesOf(chained)[j] # "shot"
    BY <2>2, TranslatedEndsLast, TranslatedPlain
  <2>4. Mint(FramesOf(chained)) /\ UNCHANGED <<view, proc, crashes>>
    BY <1>8, <2>1 DEF TranslateResult
  <2>5. NewFrames(FramesOf(chained)) \in Seq(PlainFrame) /\ AppendFrames(NewFrames(FramesOf(chained)))
    BY <1>3, <2>3, <2>4, NewFramesPlain DEF Mint
  <2> QED
    BY <1>1, <1>5, <2>4, <2>5, LineAppends
<1>21. ASSUME NEW kinds \in {<<>>, <<"text">>}, TranslateFails(kinds) PROVE LineInv'
  <2>1. kinds \in Seq(Kind) /\ \A j \in 1 .. Len(kinds) : kinds[j] # "shot"
    BY FailedFrames
  <2>2. Mint(kinds) /\ UNCHANGED <<view, proc, crashes>>
    BY <1>21 DEF TranslateFails
  <2>3. NewFrames(kinds) \in Seq(PlainFrame) /\ AppendFrames(NewFrames(kinds))
    BY <1>3, <2>1, <2>2, NewFramesPlain DEF Mint
  <2> QED
    BY <1>1, <1>5, <2>2, <2>3, LineAppends
<1>9. ASSUME EmitShot PROVE LineInv'
  BY <1>1, <1>5, <1>9, LineShows
<1>10. ASSUME Read PROVE LineInv'
  BY <1>1, <1>5, <1>10, LineReads
<1>11. ASSUME Boot PROVE FALSE
  BY <1>6, <1>11 DEF Boot, Line
<1>12. ASSUME Reconnect PROVE LineInv'
  <2>1. /\ conn' = Subscribed /\ view' = [view EXCEPT !.mode = "open", !.skip = Len(view.given)]
        /\ UNCHANGED <<chan, proc, crashes>>
    BY <1>12 DEF Reconnect, ToSkip, bounds
  <2>2. view'.given = view.given /\ view'.mode = "open" /\ view'.skip = Len(view'.given)
    BY <1>3, <2>1 DEF Viewed
  <2>3. view'.given \in Seq(PlainChunk) /\ PrefixOf(Sense(view'.given), Sense(Backlog))
    BY <1>6, <2>2 DEF Line
  <2> QED
    BY <1>1, <1>5, <2>1, <2>2, <2>3, LineSubscribes
<1>13. ASSUME Open PROVE LineInv'
  <2>1. conn' = Subscribed /\ view' = [Closed EXCEPT !.mode = "open"] /\ UNCHANGED <<chan, proc, crashes>>
    BY <1>6, <1>13 DEF Open, Line, bounds
  <2>2. view'.given = <<>> /\ view'.mode = "open" /\ view'.skip = 0
    BY <2>1 DEF Closed
  <2>3. view'.given \in Seq(PlainChunk) /\ Len(view'.given) = 0
    BY <2>2, EmptySeq
  <2>4. PrefixOf(Sense(view'.given), Sense(Backlog))
    <3>1. Sense(view'.given) = <<>> /\ Len(<<>>) = 0
      BY <2>2, SenseNone
    <3>2. Sense(Backlog) \in Seq(Meanings)
      BY BacklogOf, SenseType DEF Backlog, LineInv, TypeInv, TypeOK
    <3>3. Len(Sense(Backlog)) \in Nat
      BY <3>2, LenProperties
    <3> QED
      BY <3>1, <3>3 DEF PrefixOf
  <2> QED
    BY <1>1, <1>5, <2>1, <2>2, <2>3, <2>4, LineSubscribes
<1>14. ASSUME Leave PROVE LineInv'
  <2>1. view' = Closed /\ conn' = NoConn /\ UNCHANGED <<chan, proc>>
    BY <1>14 DEF Leave
  <2>2. /\ view'.given = <<>> /\ view'.mode = "closed" /\ view'.skip = 0
        /\ conn'.wire = <<>> /\ conn'.fed = FALSE
    BY <2>1 DEF Closed, NoConn
  <2>3. view'.given \in Seq(PlainChunk) /\ Len(view'.given) = 0
    BY <2>2, EmptySeq
  <2>4. PrefixOf(Sense(view'.given), Sense(Backlog'))
    <3>1. Sense(view'.given) = <<>> /\ Len(<<>>) = 0
      BY <2>2, SenseNone
    <3>2. Sense(Backlog') \in Seq(Meanings)
      BY <1>1, BacklogOf, SenseType DEF Backlog, TypeInv, TypeOK
    <3>3. Len(Sense(Backlog')) \in Nat
      BY <3>2, LenProperties
    <3> QED
      BY <3>1, <3>3 DEF PrefixOf
  <2>5. Line'
    BY <1>6, <2>1, <2>2, <2>3, <2>4 DEF Line, Listening
  <2> QED
    BY <1>1, <2>5 DEF LineInv
<1>15. ASSUME UNCHANGED <<chan, proc>>, view'.given = view.given, view'.skip = view.skip,
              ~ conn'.fed, conn'.wire = <<>>
       PROVE  LineInv'
  <2>1. Backlog' = Backlog /\ ~ Listening'
    BY <1>15 DEF Backlog, Listening
  <2>2. Line'
    BY <1>6, <1>15, <2>1 DEF Line
  <2> QED
    BY <1>1, <2>2 DEF LineInv
<1>16. ASSUME Drop PROVE LineInv'
  <2>1. UNCHANGED <<chan, proc, view>> /\ ~ conn'.fed /\ conn'.wire = <<>>
    BY <1>16 DEF Drop, NoConn
  <2> QED
    BY <1>15, <2>1
<1>17. ASSUME StreamEnds \/ FallBack \/ AttemptFails PROVE LineInv'
  <2>1. UNCHANGED <<chan, proc, conn>> /\ ~ conn.fed /\ conn.wire = <<>>
    BY <1>6, <1>17 DEF StreamEnds, FallBack, AttemptFails, Line
  <2>2. \/ view' = [view EXCEPT !.mode = "landed"]
        \/ view' = [view EXCEPT !.mode = "retry", !.tries = 0]
        \/ view' = [view EXCEPT !.mode = "landed", !.parts = Append(view.parts, Fallback)]
        \/ view' = [view EXCEPT !.tries = view.tries + 1]
    BY <1>17 DEF StreamEnds, FallBack, AttemptFails
  <2>3. view'.given = view.given /\ view'.skip = view.skip
    BY <1>3, <2>2 DEF Viewed
  <2> QED
    BY <1>15, <2>1, <2>3
<1>18. ASSUME UNCHANGED <<chan, proc, view, conn>> PROVE LineInv'
  <2>1. Backlog' = Backlog /\ Listening' = Listening
    BY <1>18 DEF Backlog, Listening
  <2>2. Line'
    BY <1>6, <1>18, <2>1 DEF Line
  <2> QED
    BY <1>1, <2>2 DEF LineInv
<1>19. \A to \in Ended \cup {"parked"} : Settle(to) => UNCHANGED <<chan, proc, view, conn>>
  BY DEF Settle
<1>20. Resume \/ ResumeRejected \/ UNCHANGED vars => UNCHANGED <<chan, proc, view, conn>>
  BY DEF Resume, ResumeRejected, vars
<1> QED
  BY <1>4, <1>7, <1>8, <1>9, <1>10, <1>11, <1>12, <1>13, <1>14, <1>16, <1>17, <1>18, <1>19, <1>20,
     <1>21
  DEF Next

----------------------------------------------------------------------------
(* How a backlog ends *)

\* Chunks of a run that has not ended, translated below place i.
OpenChunk(i) ==
  {c \in ChunkSet : /\ c.k \notin TerminalKind /\ c.part # "end"
                    /\ c.part = "frame" => c.id < i}

LEMMA OpenFrames ==
  ASSUME NEW fs \in Seq(Frame), \A j \in 1 .. Len(fs) : fs[j].k \notin TerminalKind
  PROVE  Translate(Start, 0) \o TranslateAll(fs, 0) \in Seq(OpenChunk(Len(fs)))
<1> DEFINE L == Len(fs)
<1>1. L \in Nat
  BY LenProperties
<1>2. \A j \in 1 .. L : Translate(fs[j], 0 + j - 1) \in Seq(OpenChunk(L))
  <2> SUFFICES ASSUME NEW j \in 1 .. L PROVE Translate(fs[j], 0 + j - 1) \in Seq(OpenChunk(L))
    OBVIOUS
  <2>1. fs[j] \in Frame /\ 0 + j - 1 \in Nat /\ 0 + j - 1 < L
    BY <1>1, ChunkPlace
  <2>2. ChunksOf(fs[j], 0 + j - 1) \subseteq OpenChunk(L)
    BY <2>1 DEF ChunksOf, OpenChunk
  <2> QED
    BY <2>1, <2>2, TranslateType, SeqMonotonic
<1>3. TranslateAll(fs, 0) \in Seq(OpenChunk(L))
  <2>1. 0 \in Nat
    OBVIOUS
  <2> HIDE DEF L
  <2> QED
    BY <1>2, <2>1, TranslateAllIn DEF L
<1>4. Translate(Start, 0) \in Seq(OpenChunk(L))
  <2>1. Translate(Start, 0) = <<Chunk(Start, "start", 0)>>
    BY DEF Translate, Start, TerminalKind
  <2>2. Chunk(Start, "start", 0) \in OpenChunk(L)
    BY DEF Chunk, Start, OpenChunk, ChunkSet, Kind, TerminalKind, Part
  <2> HIDE DEF L
  <2>3. \A S : \A x \in S : <<x>> \in Seq(S)
    OBVIOUS
  <2> QED
    BY <2>1, <2>2, <2>3
<1> QED
  BY <1>3, <1>4, ConcatProperties

\* A log that ends with its only terminal frame: the last two chunks are that frame and
\* the end mark, under a place that no earlier frame has.
LEMMA EndedFrames ==
  ASSUME NEW log \in Seq(Frame),
         \A j \in DOMAIN log : log[j].k \in TerminalKind => j = Len(log),
         NEW e \in DOMAIN log, log[e].k \in TerminalKind
  PROVE  \E before \in Seq(OpenChunk(Len(log) - 1)) :
           Translate(Start, 0) \o TranslateAll(log, 0)
             = before \o <<Chunk(log[Len(log)], "frame", Len(log) - 1),
                           Chunk(log[Len(log)], "end", Len(log) - 1)>>
<1>1. Len(log) \in Nat /\ DOMAIN log = 1 .. Len(log) /\ e = Len(log) /\ log # <<>>
  <2>1. Len(log) \in Nat /\ DOMAIN log = 1 .. Len(log)
    BY LenProperties
  <2>2. e = Len(log)
    OBVIOUS
  <2>3. Len(log) # 0
    BY <2>1
  <2> QED
    BY <2>1, <2>2, <2>3, EmptySeq
<1>2. PICK fs \in Seq(Frame), f \in Frame : log = Append(fs, f)
  <2>1. log # <<>>
    BY <1>1
  <2> QED
    BY <2>1, SequenceEmptyOrAppend
<1> DEFINE L == Len(fs)
<1>3. /\ L \in Nat /\ Len(log) = L + 1 /\ \A j \in 1 .. L : log[j] = fs[j]
      /\ log[L + 1] = f
  BY <1>2, AppendProperties, LenProperties
<1>4. f.k \in TerminalKind
  BY <1>1, <1>3
<1>5. \A j \in 1 .. L : fs[j].k \notin TerminalKind
  <2> SUFFICES ASSUME NEW j \in 1 .. L, fs[j].k \in TerminalKind PROVE FALSE
    OBVIOUS
  <2>1. j \in DOMAIN log /\ log[j] = fs[j] /\ j # Len(log)
    BY <1>1, <1>3
  <2> QED
    BY <2>1
<1>6. <<f>> \in Seq(Frame) /\ log = fs \o <<f>>
  BY <1>2, AppendIsConcat
<1>7. TranslateAll(log, 0) = TranslateAll(fs, 0) \o Translate(f, L)
  <2>1. TranslateAll(fs \o <<f>>, 0) = TranslateAll(fs, 0) \o TranslateAll(<<f>>, 0 + Len(fs))
    <3>1. 0 \in Nat
      OBVIOUS
    <3> QED
      BY <1>6, <3>1, TranslateAllConcat
  <2>2. TranslateAll(<<f>>, L) = Translate(f, L)
    BY <1>3, TranslateAllOne
  <2>3. 0 + Len(fs) = L
    BY <1>3
  <2> QED
    BY <1>6, <2>1, <2>2, <2>3
<1>8. Translate(f, L) = <<Chunk(f, "frame", L), Chunk(f, "end", L)>>
  BY <1>4 DEF Translate, TerminalKind
<1> DEFINE before == Translate(Start, 0) \o TranslateAll(fs, 0)
<1>9. before \in Seq(OpenChunk(L))
  BY <1>5, OpenFrames
<1>10. Translate(Start, 0) \o TranslateAll(log, 0) = before \o Translate(f, L)
  <2>1. /\ Translate(Start, 0) \in Seq(ChunkSet) /\ TranslateAll(fs, 0) \in Seq(ChunkSet)
        /\ Translate(f, L) \in Seq(ChunkSet)
    BY <1>3, StartIsFrame, ChunksAreChunks, TranslateAllType
  <2>2. (Translate(Start, 0) \o TranslateAll(fs, 0)) \o Translate(f, L)
          = Translate(Start, 0) \o (TranslateAll(fs, 0) \o Translate(f, L))
    BY <2>1, ConcatAssociative, SMTT(30)
  <2>3. Translate(Start, 0) \o TranslateAll(log, 0)
          = Translate(Start, 0) \o (TranslateAll(fs, 0) \o Translate(f, L))
    BY <1>7
  <2> QED
    BY <2>2, <2>3
<1>11. Len(log) - 1 = L /\ log[Len(log)] = f
  BY <1>3
<1> HIDE DEF before, L
<1> QED
  BY <1>8, <1>9, <1>10, <1>11

\* A backlog is open, or its last two chunks are the terminal frame and the end mark, under
\* a place that no chunk before them has.
OpenBacklog(b, i) == \A j \in 1 .. Len(b) : b[j] \in OpenChunk(i)
EndedBacklog(b, i) ==
  /\ Len(b) >= 2
  /\ \A j \in 1 .. Len(b) - 2 : b[j] \in OpenChunk(i)
  /\ b[Len(b) - 1].k \in TerminalKind /\ b[Len(b) - 1].part = "frame" /\ b[Len(b) - 1].id = i
  /\ b[Len(b)].k \in TerminalKind /\ b[Len(b)].part = "end"

LEMMA BacklogShape ==
  ASSUME TypeInv
  PROVE  /\ Backlog \in Seq(ChunkSet)
         /\ \E i \in Nat : OpenBacklog(Backlog, i) \/ EndedBacklog(Backlog, i)
<1>1. chan.log \in Seq(Frame) /\ OneEnd
  BY DEF TypeInv, TypeOK, ChanInv
<1>2. Backlog \in Seq(ChunkSet)
  BY <1>1, BacklogOf DEF Backlog
<1>3. DOMAIN chan.log = 1 .. Len(chan.log) /\ Len(chan.log) \in Nat
  BY <1>1, LenProperties
<1>4. CASE \A i \in DOMAIN chan.log : chan.log[i].k \notin TerminalKind
  <2>1. Backlog \in Seq(OpenChunk(Len(chan.log)))
    BY <1>1, <1>3, <1>4, OpenFrames DEF Backlog
  <2>2. OpenBacklog(Backlog, Len(chan.log))
    BY <2>1, ElementOfSeq DEF OpenBacklog
  <2> QED
    BY <1>2, <1>3, <2>2
<1>5. CASE \E i \in DOMAIN chan.log : chan.log[i].k \in TerminalKind
  <2> DEFINE L == Len(chan.log) - 1  f == chan.log[Len(chan.log)]
             tail == <<Chunk(f, "frame", L), Chunk(f, "end", L)>>
  <2>1. \A i \in DOMAIN chan.log : chan.log[i].k \in TerminalKind => i = Len(chan.log)
    BY <1>1 DEF OneEnd
  <2>2. PICK before \in Seq(OpenChunk(L)) : Backlog = before \o tail
    BY <1>1, <1>5, <2>1, EndedFrames DEF Backlog
  <2>3. L \in Nat /\ f.k \in TerminalKind
    BY <1>3, <1>5, <2>1
  <2>4. /\ Len(tail) = 2
        /\ tail[1].k \in TerminalKind /\ tail[1].part = "frame" /\ tail[1].id = L
        /\ tail[2].k \in TerminalKind /\ tail[2].part = "end"
    BY <2>3 DEF Chunk
  <2> DEFINE S == OpenChunk(L) \cup {tail[1], tail[2]}
  <2>5. before \in Seq(S) /\ tail \in Seq(S)
    <3>1. tail \in Seq({tail[1], tail[2]})
      OBVIOUS
    <3> HIDE DEF tail, L
    <3> QED
      BY <2>2, <3>1, SeqMonotonic
  <2> HIDE DEF tail, L, S
  <2> DEFINE B == Len(before)
  <2>6. /\ Len(before \o tail) = B + Len(tail)
        /\ \A i \in 1 .. B + Len(tail) :
             (before \o tail)[i] = IF i <= B THEN before[i] ELSE tail[i - B]
    BY <2>5, ConcatProperties
  <2>7. B \in Nat /\ \A j \in 1 .. B : before[j] \in OpenChunk(L)
    BY <2>2, <2>5, LenProperties, ElementOfSeq
  <2> HIDE DEF B
  <2>8. /\ Len(Backlog) = B + 2
        /\ \A i \in 1 .. B + 2 : Backlog[i] = IF i <= B THEN before[i] ELSE tail[i - B]
    BY <2>2, <2>4, <2>6
  <2>9. Backlog[B + 1] = tail[1] /\ Backlog[B + 2] = tail[2]
    <3>1. /\ B + 1 \in 1 .. B + 2 /\ ~ (B + 1 <= B) /\ (B + 1) - B = 1
          /\ B + 2 \in 1 .. B + 2 /\ ~ (B + 2 <= B) /\ (B + 2) - B = 2
      BY <2>7
    <3>2. Backlog[B + 1] = tail[(B + 1) - B] /\ Backlog[B + 2] = tail[(B + 2) - B]
      BY <2>8, <3>1
    <3> QED
      BY <3>1, <3>2
  <2>10. \A j \in 1 .. B : Backlog[j] \in OpenChunk(L)
    <3> SUFFICES ASSUME NEW j \in 1 .. B PROVE Backlog[j] \in OpenChunk(L)
      OBVIOUS
    <3>1. j \in 1 .. B + 2 /\ j <= B
      BY <2>7
    <3>2. Backlog[j] = before[j]
      BY <2>8, <3>1
    <3> QED
      BY <2>7, <3>2
  <2>11. Len(Backlog) - 2 = B /\ Len(Backlog) - 1 = B + 1 /\ Len(Backlog) >= 2
    BY <2>7, <2>8
  <2>12. EndedBacklog(Backlog, L)
    BY <2>4, <2>8, <2>9, <2>10, <2>11 DEF EndedBacklog
  <2> QED
    BY <1>2, <2>3, <2>12
<1> QED
  BY <1>4, <1>5

\* The end mark is the last chunk of a backlog that has one.
LEMMA EndMarkIsLast ==
  ASSUME TypeInv, NEW j \in DOMAIN Backlog, Backlog[j].part = "end"
  PROVE  /\ j = Len(Backlog) /\ Len(Backlog) >= 2
         /\ \E i \in Nat : EndedBacklog(Backlog, i)
<1>1. PICK i \in Nat : OpenBacklog(Backlog, i) \/ EndedBacklog(Backlog, i)
  BY BacklogShape
<1>2. DOMAIN Backlog = 1 .. Len(Backlog) /\ Len(Backlog) \in Nat
  BY BacklogShape, LenProperties
<1>3. Backlog[j] \notin OpenChunk(i)
  BY DEF OpenChunk
<1>4. EndedBacklog(Backlog, i)
  BY <1>1, <1>2, <1>3 DEF OpenBacklog
<1>5. j # Len(Backlog) - 1
  BY <1>4 DEF EndedBacklog
<1>6. ~ (j \in 1 .. Len(Backlog) - 2)
  BY <1>3, <1>4 DEF EndedBacklog
<1>7. Len(Backlog) >= 2
  BY <1>4 DEF EndedBacklog
<1>8. j = Len(Backlog)
  BY <1>2, <1>5, <1>6
<1> QED
  BY <1>4, <1>7, <1>8

LEMMA PlainBacklog ==
  ASSUME Line, chan.log \in Seq(Frame)
  PROVE  Backlog \in Seq(PlainChunk)
<1>1. \A f \in PlainFrame : \A i \in Nat : Translate(f, i) \in Seq(PlainChunk)
  <2>1. \A f \in PlainFrame : \A i \in Nat : f \in Frame /\ ChunksOf(f, i) \subseteq PlainChunk
    BY DEF PlainFrame, ChunksOf, PlainChunk
  <2> QED
    BY <2>1, TranslateType, SeqMonotonic
<1>2. \A j \in 1 .. Len(chan.log) : Translate(chan.log[j], 0 + j - 1) \in Seq(PlainChunk)
  <2>1. chan.log \in Seq(PlainFrame)
    BY DEF Line
  <2>2. \A j \in 1 .. Len(chan.log) : chan.log[j] \in PlainFrame /\ 0 + j - 1 \in Nat
    BY <2>1, ElementOfSeq, LenProperties
  <2> QED
    BY <1>1, <2>2
<1>3. 0 \in Nat
  OBVIOUS
<1>4. TranslateAll(chan.log, 0) \in Seq(PlainChunk)
  BY <1>2, <1>3, TranslateAllIn
<1>5. Translate(Start, 0) \in Seq(PlainChunk)
  <2>1. Start \in PlainFrame
    BY StartIsFrame DEF PlainFrame, Start
  <2> QED
    BY <1>1, <1>3, <2>1
<1> QED
  BY <1>4, <1>5, ConcatProperties DEF Backlog

\* chatTransport.ts and streamV2.ts: over any number of frames, screenshots, gates and
\* drops, in the life of one process the page is given the chunks of the backlog, in
\* order, none missing and none twice; and all of them once it saw the end mark.
THEOREM GivenIsBacklog == Spec => []NothingLostOrDoubled
<1>1. Init => LineInv
  BY LineInit
<1>2. LineInv /\ [Next]_vars => LineInv'
  BY LineStep
<1>3. LineInv => NothingLostOrDoubled
  <2> SUFFICES ASSUME LineInv, crashes = 0
               PROVE  /\ IsPrefix(Meaning(view.given), Meaning(Backlog))
                      /\ SawEnd => Len(view.given) = Len(Backlog)
    BY DEF NothingLostOrDoubled, Backlog
  <2>1. Line /\ TypeInv /\ chan.log \in Seq(Frame)
    BY DEF LineInv, TypeInv, TypeOK
  <2>2. Backlog \in Seq(PlainChunk)
    BY <2>1, PlainBacklog
  <2>3. view.given \in Seq(PlainChunk)
    BY <2>1 DEF Line
  <2> DEFINE g == Meaning(view.given)  b == Meaning(Backlog)
  <2>4. /\ g = Sense(view.given) /\ b = Sense(Backlog)
        /\ Len(g) = Len(view.given) /\ Len(b) = Len(Backlog)
    BY <2>2, <2>3, SensePlain
  <2>5. PrefixOf(g, b)
    BY <2>1, <2>4 DEF Line
  <2>6. g \in Seq(Meanings) /\ b \in Seq(Meanings) /\ Len(g) \in Nat /\ Len(b) \in Nat
    <3>1. PlainChunk \subseteq ChunkSet
      BY DEF PlainChunk
    <3> QED
      BY <2>2, <2>3, <2>4, <3>1, SeqMonotonic, SenseType, LenProperties
  <2>7. Len(g) <= Len(b) /\ \A j \in 1 .. Len(g) : b[j] = g[j]
    BY <2>5 DEF PrefixOf
  <2>8. IsPrefix(g, b)
    <3> HIDE DEF g, b
    <3>1. \A j \in 1 .. Len(g) : g[j] \in Meanings /\ b[j] \in Meanings
      BY <2>6, <2>7, ElementOfSeq
    <3>2. /\ SubSeq(g, 1, Len(g)) \in Seq(Meanings) /\ SubSeq(b, 1, Len(g)) \in Seq(Meanings)
          /\ Len(SubSeq(g, 1, Len(g))) = Len(g) /\ Len(SubSeq(b, 1, Len(g))) = Len(g)
          /\ \A j \in 1 .. Len(g) : SubSeq(g, 1, Len(g))[j] = g[j]
          /\ \A j \in 1 .. Len(g) : SubSeq(b, 1, Len(g))[j] = b[j]
      BY <2>6, <3>1, SubSeqProperties
    <3>3. SubSeq(g, 1, Len(g)) = SubSeq(b, 1, Len(g))
      BY <2>7, <3>2, SeqEqual
    <3> QED
      BY <2>7, <3>3 DEF IsPrefix
  <2>9. ASSUME SawEnd PROVE Len(view.given) = Len(Backlog)
    <3>1. PICK j \in DOMAIN view.given : view.given[j].part = "end"
      BY <2>9 DEF SawEnd
    <3>2. /\ DOMAIN view.given = 1 .. Len(view.given) /\ DOMAIN Backlog = 1 .. Len(Backlog)
          /\ Len(view.given) \in Nat /\ Len(Backlog) \in Nat
      BY <2>2, <2>3, LenProperties
    <3>3. j \in DOMAIN Backlog
      BY <2>4, <2>7, <3>2
    <3>4. g[j] = <<view.given[j].n, view.given[j].part>> /\ b[j] = <<Backlog[j].n, Backlog[j].part>>
      BY <3>1, <3>3 DEF Meaning
    <3>5. b[j] = g[j]
      BY <2>4, <2>7, <3>2
    <3> HIDE DEF g, b
    <3>6. Backlog[j].part = "end"
      BY <3>1, <3>4, <3>5
    <3>7. j = Len(Backlog)
      BY <2>1, <3>3, <3>6, EndMarkIsLast
    <3> QED
      BY <2>4, <2>7, <3>2, <3>7
  <2> QED
    BY <2>8, <2>9
<1> QED
  BY <1>1, <1>2, <1>3, PTL DEF Spec

----------------------------------------------------------------------------
(* What the page says is so *)

\* A kind that tells of an ending tells of the run's.
Said(k, r) ==
  /\ k = "done" => r = "completed"
  /\ k \in {"declined", "canceled"} => r = k
TrueFrame(r) == {f \in Frame : Said(f.k, r)}
Early(c, r) == c.part = "early" /\ c.k = "done" /\ r = "declined"
TrueChunk(r) == {c \in ChunkSet : Said(c.k, r) \/ Early(c, r)}

\* In the life of one process no frame, and no chunk on the wire or kept by the page,
\* tells of an ending that the run does not have - but for a decline read too early.
Says ==
  /\ chan.log \in Seq(TrueFrame(run)) /\ conn.wire \in Seq(TrueChunk(run))
  /\ view.parts \in Seq(TrueChunk(run))

SaysInv == LineInv /\ (crashes = 0 => Says)

LEMMA SaidChunks ==
  ASSUME NEW r, NEW fs \in Seq(TrueFrame(r)), NEW i \in Nat
  PROVE  TranslateAll(fs, i) \in Seq(TrueChunk(r))
<1>1. TrueFrame(r) \subseteq Frame
  BY DEF TrueFrame
<1>2. fs \in Seq(Frame) /\ Len(fs) \in Nat
  BY <1>1, SeqMonotonic, LenProperties
<1>3. \A j \in 1 .. Len(fs) : Translate(fs[j], i + j - 1) \in Seq(TrueChunk(r))
  <2> SUFFICES ASSUME NEW j \in 1 .. Len(fs)
               PROVE  Translate(fs[j], i + j - 1) \in Seq(TrueChunk(r))
    OBVIOUS
  <2>1. fs[j] \in TrueFrame(r) /\ fs[j] \in Frame /\ i + j - 1 \in Nat
    BY <1>1, <1>2, ElementOfSeq
  <2>2. ChunksOf(fs[j], i + j - 1) \subseteq TrueChunk(r)
    BY <2>1 DEF ChunksOf, TrueFrame, TrueChunk
  <2> QED
    BY <2>1, <2>2, TranslateType, SeqMonotonic
<1> QED
  BY <1>2, <1>3, TranslateAllIn

LEMMA SaidBacklog ==
  ASSUME NEW r, NEW log \in Seq(TrueFrame(r))
  PROVE  Translate(Start, 0) \o TranslateAll(log, 0) \in Seq(TrueChunk(r))
<1>1. 0 \in Nat
  OBVIOUS
<1>2. TranslateAll(log, 0) \in Seq(TrueChunk(r))
  BY <1>1, SaidChunks
<1>3. Translate(Start, 0) \in Seq(ChunksOf(Start, 0))
  BY <1>1, StartIsFrame, TranslateType
<1>4. ChunksOf(Start, 0) \subseteq TrueChunk(r)
  BY DEF ChunksOf, TrueChunk, Said, Start
<1>5. Translate(Start, 0) \in Seq(TrueChunk(r))
  BY <1>3, <1>4, SeqMonotonic
<1> QED
  BY <1>2, <1>5, ConcatProperties

\* While the run goes on no ending is told, so none becomes untrue when it ends.
LEMMA SaidStays ==
  ASSUME NEW r, r \notin Ended, NEW q
  PROVE  TrueFrame(r) \subseteq TrueFrame(q) /\ TrueChunk(r) \subseteq TrueChunk(q)
BY DEF TrueFrame, TrueChunk, Said, Early, Ended

LEMMA NewFramesSaid ==
  ASSUME minted \in Nat, NEW kinds \in Seq(Kind), NEW r,
         \A j \in 1 .. Len(kinds) : Said(kinds[j], r)
  PROVE  NewFrames(kinds) \in Seq(TrueFrame(r))
<1>1. Len(kinds) \in Nat /\ \A j \in 1 .. Len(kinds) : kinds[j] \in Kind /\ j \in Nat
  BY ElementOfSeq, LenProperties
<1>2. \A j \in 1 .. Len(kinds) : [n |-> minted + j, k |-> kinds[j]] \in TrueFrame(r)
  BY <1>1 DEF TrueFrame, Frame
<1>3. NewFrames(kinds) \in [1 .. Len(kinds) -> TrueFrame(r)]
  BY <1>2 DEF NewFrames
<1> QED
  BY <1>1, <1>3

LEMMA TranslatedSaid ==
  ASSUME run \in Ended \cup {"executing", "parked"}, run # "executing",
         NEW chained \in BOOLEAN
  PROVE  \A j \in 1 .. Len(FramesOf(chained)) : Said(FramesOf(chained)[j], run)
<1>1. CASE run = "completed" /\ chained
  BY <1>1 DEF FramesOf, Said
<1>2. CASE run = "completed" /\ ~ chained
  BY <1>2 DEF FramesOf, Said
<1>3. CASE run = "parked"
  BY <1>3 DEF FramesOf, Said
<1>4. CASE run = "failed"
  BY <1>4 DEF FramesOf, Said
<1>5. CASE run \in {"declined", "canceled"}
  <2>1. FramesOf(chained) = <<run>> /\ Said(run, run)
    BY <1>5 DEF FramesOf, Said
  <2> QED
    BY <2>1
<1> QED
  BY <1>1, <1>2, <1>3, <1>4, <1>5 DEF Ended

LEMMA SaysFed ==
  ASSUME NEW r, conn \in Connection, conn.wire \in Seq(TrueChunk(r)),
         NEW fs \in Seq(TrueFrame(r)), NEW closes \in BOOLEAN
  PROVE  Fed(conn, fs, closes).wire \in Seq(TrueChunk(r))
<1>1. conn.at \in Nat
  BY DEF Connection
<1>2. TranslateAll(fs, conn.at) \in Seq(TrueChunk(r))
  BY <1>1, SaidChunks
<1>3. conn.wire \o TranslateAll(fs, conn.at) \in Seq(TrueChunk(r))
  BY <1>2, ConcatProperties
<1> QED
  BY <1>3 DEF Fed

\* append, of true frames.
LEMMA SaysAppends ==
  ASSUME SaysInv, crashes = 0, NEW fs \in Seq(TrueFrame(run)), AppendFrames(fs),
         UNCHANGED <<view, run>>
  PROVE  Says'
<1>1. Says /\ chan \in Channel /\ conn \in Connection
  BY DEF SaysInv, LineInv, TypeInv, TypeOK, ChanInv, Connection
<1> DEFINE heard == Heard(fs)
           ends == \E j \in DOMAIN heard : heard[j].k \in TerminalKind
<1>2. heard \in Seq(TrueFrame(run))
  BY EmptySeq DEF Heard
<1>3. chan' = [chan EXCEPT !.log = chan.log \o heard, !.terminal = chan.terminal \/ ends]
      /\ conn' = Fed(conn, heard, ends)
  BY DEF AppendFrames
<1>4. ends \in BOOLEAN
  OBVIOUS
<1> HIDE DEF heard, ends
<1>5. chan'.log = chan.log \o heard
  BY <1>1, <1>3 DEF Channel
<1>6. chan'.log \in Seq(TrueFrame(run))
  BY <1>1, <1>2, <1>5, ConcatProperties DEF Says
<1>7. conn'.wire \in Seq(TrueChunk(run))
  BY <1>1, <1>2, <1>3, <1>4, SaysFed DEF Says
<1> QED
  BY <1>1, <1>6, <1>7 DEF Says

\* A step of the life of one process.
LEMMA SameLife ==
  ASSUME LineInv, [Next]_vars, crashes' = 0
  PROVE  crashes = 0 /\ Line /\ ~ Crash /\ ~ Boot
<1>1. crashes \in Nat
  BY DEF LineInv, TypeInv, TypeOK
<1>2. ~ Crash
  BY <1>1 DEF Crash
<1>3. UNCHANGED crashes
  <2>1. /\ \A k \in StepKind : Emit(k) => UNCHANGED crashes
        /\ \A to \in Ended \cup {"parked"} : Settle(to) => UNCHANGED crashes
        /\ \A chained \in BOOLEAN : TranslateResult(chained) => UNCHANGED crashes
        /\ \A kinds \in {<<>>, <<"text">>} : TranslateFails(kinds) => UNCHANGED crashes
    BY DEF Emit, Settle, TranslateResult, TranslateFails
  <2>2. EmitShot \/ Resume \/ ResumeRejected \/ Boot \/ Open \/ Leave \/ Drop \/ Read \/ StreamEnds
          \/ Reconnect \/ AttemptFails \/ FallBack \/ UNCHANGED vars => UNCHANGED crashes
    BY DEF EmitShot, Resume, ResumeRejected, Boot, Open, Leave, Drop, Read, StreamEnds, Reconnect,
           AttemptFails, FallBack, vars, bounds
  <2> QED
    BY <1>2, <2>1, <2>2 DEF Next
<1>4. Line
  BY <1>3 DEF LineInv
<1> QED
  BY <1>2, <1>3, <1>4 DEF Boot, Line

LEMMA SaysStep == SaysInv /\ [Next]_vars => SaysInv'
<1> SUFFICES ASSUME SaysInv, [Next]_vars PROVE SaysInv'
  OBVIOUS
<1>1. LineInv' /\ LineInv
  BY LineStep DEF SaysInv
<1>2. SUFFICES ASSUME crashes' = 0 PROVE Says'
  BY <1>1 DEF SaysInv
<1>3. crashes = 0 /\ Line /\ ~ Crash /\ ~ Boot
  BY <1>1, <1>2, SameLife
<1>4. Says /\ chan \in Channel /\ conn \in Connection /\ view \in Viewed /\ minted \in Nat
  BY <1>3 DEF SaysInv, LineInv, TypeInv, TypeOK, ChanInv, Connection, Viewed
<1>5. ASSUME NEW k \in StepKind, Emit(k) PROVE Says'
  <2> DEFINE kinds == <<k>>
  <2>1. kinds \in Seq(Kind) /\ Len(kinds) = 1 /\ \A j \in 1 .. 1 : Said(kinds[j], run)
    BY DEF Kind, StepKind, Said
  <2>2. Mint(kinds) /\ UNCHANGED <<view, run>>
    BY <1>5 DEF Emit
  <2> HIDE DEF kinds
  <2>3. NewFrames(kinds) \in Seq(TrueFrame(run)) /\ AppendFrames(NewFrames(kinds))
    BY <1>4, <2>1, <2>2, NewFramesSaid DEF Mint
  <2> QED
    BY <1>3, <2>2, <2>3, SaysAppends
<1>6. ASSUME NEW chained \in BOOLEAN, TranslateResult(chained) PROVE Says'
  <2>1. run \in Ended \cup {"executing", "parked"} /\ run # "executing" /\ chan.open
    BY <1>1, <1>3, <1>6 DEF TranslateResult, LineInv, TypeInv, ChanInv, Line
  <2>2. /\ FramesOf(chained) \in Seq(Kind)
        /\ \A j \in 1 .. Len(FramesOf(chained)) : Said(FramesOf(chained)[j], run)
    BY <2>1, TranslatedEndsLast, TranslatedSaid
  <2>3. Mint(FramesOf(chained)) /\ UNCHANGED <<view, run>>
    BY <1>6, <2>1 DEF TranslateResult
  <2>4. NewFrames(FramesOf(chained)) \in Seq(TrueFrame(run))
          /\ AppendFrames(NewFrames(FramesOf(chained)))
    BY <1>4, <2>2, <2>3, NewFramesSaid DEF Mint
  <2> QED
    BY <1>3, <2>3, <2>4, SaysAppends
<1>15. ASSUME NEW kinds \in {<<>>, <<"text">>}, TranslateFails(kinds) PROVE Says'
  <2>1. kinds \in Seq(Kind) /\ \A j \in 1 .. Len(kinds) : Said(kinds[j], run)
    BY FailedFrames DEF Said
  <2>2. Mint(kinds) /\ UNCHANGED <<view, run>>
    BY <1>15 DEF TranslateFails
  <2>3. NewFrames(kinds) \in Seq(TrueFrame(run)) /\ AppendFrames(NewFrames(kinds))
    BY <1>4, <2>1, <2>2, NewFramesSaid DEF Mint
  <2> QED
    BY <1>3, <2>2, <2>3, SaysAppends
<1>7. ASSUME EmitShot PROVE Says'
  <2> DEFINE bare == [n |-> minted + 1, k |-> "browser"]  shot == [n |-> minted + 2, k |-> "shot"]
  <2>1. bare \in TrueFrame(run) /\ shot \in TrueFrame(run)
    BY <1>4 DEF TrueFrame, Said, Frame, Kind, StepKind
  <2>2. /\ chan' = [chan EXCEPT !.log = chan.log \o Heard(<<bare>>)]
        /\ conn' = IF chan.terminal THEN conn ELSE Fed(conn, <<bare, shot>>, FALSE)
        /\ UNCHANGED <<view, run>>
    BY <1>7 DEF EmitShot
  <2> HIDE DEF bare, shot
  <2>3. <<bare>> \in Seq(TrueFrame(run)) /\ <<bare, shot>> \in Seq(TrueFrame(run))
    BY <2>1
  <2>4. Heard(<<bare>>) \in Seq(TrueFrame(run))
    BY <2>3, EmptySeq DEF Heard
  <2>5. chan'.log = chan.log \o Heard(<<bare>>)
    BY <1>4, <2>2 DEF Channel
  <2>6. chan'.log \in Seq(TrueFrame(run))
    BY <1>4, <2>4, <2>5, ConcatProperties DEF Says
  <2>7. conn'.wire \in Seq(TrueChunk(run))
    BY <1>4, <2>2, <2>3, SaysFed DEF Says
  <2> QED
    BY <1>4, <2>2, <2>6, <2>7 DEF Says
<1>8. ASSUME Read PROVE Says'
  <2> DEFINE c == Head(conn.wire)
  <2>1. conn.wire # <<>> /\ conn' = [conn EXCEPT !.wire = Tail(conn.wire)]
        /\ UNCHANGED <<chan, run>>
    BY <1>8 DEF Read
  <2>2. c \in TrueChunk(run) /\ Tail(conn.wire) \in Seq(TrueChunk(run))
    BY <1>4, <2>1, HeadTailProperties DEF Says
  <2>3. conn'.wire = Tail(conn.wire)
    BY <1>4, <2>1 DEF Connection
  <2> DEFINE skipped == IF ReplayStable(c) THEN view.skip - 1 ELSE view.skip
             given == IF ReplayStable(c) THEN Append(view.given, c) ELSE view.given
             parts == Place(view.parts, c)
  <2>4. parts \in Seq(TrueChunk(run))
    BY <1>4, <2>2, PlaceType DEF Says
  <2>5. \/ view' = [view EXCEPT !.skip = skipped]
        \/ view' = [view EXCEPT !.given = given, !.parts = parts]
    BY <1>8 DEF Read
  <2> HIDE DEF c, skipped, given, parts
  <2>6. view'.parts \in {view.parts, parts}
    BY <1>4, <2>5 DEF Viewed
  <2> QED
    BY <1>4, <2>1, <2>2, <2>3, <2>4, <2>6 DEF Says
<1>9. ASSUME Open \/ Reconnect PROVE Says'
  <2>1. /\ conn' = Subscribed /\ UNCHANGED <<chan, run>>
        /\ \/ view' = [Closed EXCEPT !.mode = "open"]
           \/ view' = [view EXCEPT !.mode = "open", !.skip = ToSkip]
    BY <1>3, <1>9 DEF Open, Reconnect, Line
  <2>2. view'.parts \in {<<>>, view.parts}
    BY <1>4, <2>1 DEF Closed, Viewed
  <2>3. conn'.wire = Backlog
    BY <2>1 DEF Subscribed, Backlog
  <2>4. Backlog \in Seq(TrueChunk(run))
    BY <1>4, SaidBacklog DEF Says, Backlog
  <2> QED
    BY <1>4, <2>1, <2>2, <2>3, <2>4, EmptySeq DEF Says
<1>10. ASSUME Leave \/ Drop PROVE Says'
  <2>1. conn'.wire = <<>> /\ UNCHANGED <<chan, run>> /\ (view' = Closed \/ view' = view)
    BY <1>10 DEF Leave, Drop, NoConn
  <2>2. view'.parts \in {<<>>, view.parts}
    BY <2>1 DEF Closed
  <2> QED
    BY <1>4, <2>1, <2>2, EmptySeq DEF Says
<1>11. ASSUME FallBack PROVE Says'
  <2>1. /\ view' = [view EXCEPT !.mode = "landed", !.parts = Append(view.parts, Fallback)]
        /\ UNCHANGED <<chan, conn, run>>
    BY <1>11 DEF FallBack
  <2>2. Fallback \in TrueChunk(run)
    <3>1. proc = "up" /\ run \in Ended \cup {"executing", "parked"}
      BY <1>1, <1>3 DEF Line, LineInv, TypeInv, ChanInv
    <3>2. CASE run = "declined" /\ ~ chan.terminal
      <4>1. StatusShown = "done" /\ Fallback.part = "early"
        BY <3>1, <3>2, FallbackType DEF StatusShown
      <4> QED
        BY <3>2, <4>1, FallbackType DEF TrueChunk, Early
    <3>3. CASE ~ (run = "declined" /\ ~ chan.terminal)
      <4>1. Said(StatusShown, run)
        BY <3>1, <3>3 DEF StatusShown, Said
      <4> QED
        BY <4>1, FallbackType DEF TrueChunk
    <3> QED
      BY <3>2, <3>3
  <2>3. Append(view.parts, Fallback) \in Seq(TrueChunk(run))
    BY <1>4, <2>2, AppendProperties DEF Says
  <2>4. view'.parts = Append(view.parts, Fallback)
    BY <1>4, <2>1 DEF Viewed
  <2> QED
    BY <1>4, <2>1, <2>3, <2>4 DEF Says
<1>12. ASSUME StreamEnds \/ AttemptFails PROVE Says'
  <2>1. /\ \/ view' = [view EXCEPT !.mode = "landed"]
           \/ view' = [view EXCEPT !.mode = "retry", !.tries = 0]
           \/ view' = [view EXCEPT !.tries = view.tries + 1]
        /\ UNCHANGED <<chan, conn, run>>
    BY <1>12 DEF StreamEnds, AttemptFails
  <2>2. view'.parts = view.parts
    BY <1>4, <2>1 DEF Viewed
  <2> QED
    BY <1>4, <2>1, <2>2 DEF Says
<1>13. ASSUME Resume \/ ResumeRejected \/ \E to \in Ended \cup {"parked"} : Settle(to) PROVE Says'
  <2>1. run \notin Ended /\ UNCHANGED <<chan, conn, view>>
    BY <1>13 DEF Resume, ResumeRejected, Settle, Ended
  <2>2. TrueFrame(run) \subseteq TrueFrame(run') /\ TrueChunk(run) \subseteq TrueChunk(run')
    BY <2>1, SaidStays
  <2> QED
    BY <1>4, <2>1, <2>2, SeqMonotonic DEF Says
<1>14. ASSUME UNCHANGED vars PROVE Says'
  BY <1>4, <1>14 DEF Says, vars
<1> QED
  BY <1>3, <1>5, <1>6, <1>7, <1>8, <1>9, <1>10, <1>11, <1>12, <1>13, <1>14,
     <1>15
  DEF Next

----------------------------------------------------------------------------
(* Without screenshots, place by place *)

\* No screenshot was taken, so the places of a live connection are those of a replay:
\* what the page has is the backlog's very chunks, ids and all.
Exact ==
  /\ PrefixOf(view.given, Backlog)
  /\ Listening => SuffixAt(conn.wire, Backlog, Len(view.given) - view.skip)
  /\ conn.fed => conn.at = Len(chan.log)

ExactInv == LineInv /\ (crashes = 0 /\ shots = 0 => Exact)

LEMMA ExactAppends ==
  ASSUME ExactInv, crashes = 0, shots = 0, NEW fs \in Seq(PlainFrame), AppendFrames(fs),
         UNCHANGED view
  PROVE  Exact'
<1>1. Exact /\ Line
  BY DEF ExactInv, LineInv
<1>2. /\ chan \in Channel /\ chan.log \in Seq(Frame) /\ fs \in Seq(Frame)
      /\ conn \in Connection /\ conn.wire \in Seq(ChunkSet) /\ conn.at \in Nat
      /\ view.given \in Seq(ChunkSet) /\ view.skip \in Nat
  <2>1. PlainFrame \subseteq Frame
    BY DEF PlainFrame
  <2> QED
    BY <2>1, SeqMonotonic
    DEF ExactInv, LineInv, TypeInv, TypeOK, ChanInv, Channel, Connection, Viewed
<1>3. CASE chan.terminal
  <2>1. Heard(fs) = <<>> /\ chan.log \o <<>> = chan.log
    BY <1>2, <1>3, ConcatEmptySeq DEF Heard
  <2>2. chan' = [chan EXCEPT !.log = chan.log, !.terminal = TRUE]
    BY <1>3, <2>1 DEF AppendFrames
  <2>3. chan'.log = chan.log
    BY <1>2, <2>2 DEF Channel
  <2>4. ~ conn.fed
    BY <1>1, <1>3 DEF Line
  <2>5. conn' = conn
    BY <2>4 DEF AppendFrames, Fed
  <2>6. Backlog' = Backlog /\ Listening' = Listening
    BY <2>3, <2>5 DEF Backlog, Listening
  <2> QED
    BY <1>1, <2>3, <2>5, <2>6 DEF Exact
<1>4. CASE ~ chan.terminal
  <2> DEFINE ends == \E j \in DOMAIN fs : fs[j].k \in TerminalKind
             new == TranslateAll(fs, Len(chan.log))
  <2>1. chan' = [chan EXCEPT !.log = chan.log \o fs, !.terminal = ends]
          /\ conn' = Fed(conn, fs, ends)
    BY <1>4 DEF AppendFrames, Heard
  <2>2. chan'.log = chan.log \o fs
    <3> HIDE DEF ends
    <3> QED
      BY <1>2, <2>1 DEF Channel
  <2>3. /\ Len(chan.log) \in Nat /\ new \in Seq(ChunkSet) /\ Backlog \in Seq(ChunkSet)
        /\ Len(chan'.log) = Len(chan.log) + Len(fs)
    <3>1. Len(chan.log) \in Nat /\ Len(chan'.log) = Len(chan.log) + Len(fs)
      BY <1>2, <2>2, LenProperties, ConcatProperties
    <3> QED
      BY <1>2, <3>1, TranslateAllType, BacklogOf DEF Backlog
  <2>4. Backlog' = Backlog \o new
    BY <1>2, <2>2, BacklogContinues DEF Backlog
  <2> HIDE DEF new, ends
  <2>5. PrefixOf(view.given, Backlog')
    BY <1>1, <1>2, <2>3, <2>4, PrefixGrows DEF Exact
  <2>6. CASE conn.fed
    <3>1. conn.at = Len(chan.log)
      BY <1>1, <2>6 DEF Exact
    <3>2. conn'.wire = conn.wire \o new /\ conn'.at = Len(chan'.log)
      BY <2>1, <2>3, <2>6, <3>1 DEF Fed, new
    <3>3. Listening
      BY <1>1, <2>6 DEF Line, Listening
    <3>4. Len(view.given) - view.skip \in Nat
      BY <1>1, <1>2, LenProperties DEF Line
    <3>5. SuffixAt(conn'.wire, Backlog', Len(view.given) - view.skip)
      <4>1. SuffixAt(conn.wire, Backlog, Len(view.given) - view.skip)
        BY <1>1, <3>3 DEF Exact
      <4> QED
        BY <1>2, <2>3, <2>4, <3>2, <3>4, <4>1, SuffixGrows
    <3> QED
      BY <2>5, <3>2, <3>5 DEF Exact
  <2>7. CASE ~ conn.fed
    <3>1. conn' = conn /\ conn.wire = <<>>
      BY <1>1, <1>4, <2>1, <2>7 DEF Line, Fed
    <3>2. ~ Listening'
      BY <2>7, <3>1 DEF Listening
    <3> QED
      BY <2>5, <2>7, <3>1, <3>2 DEF Exact
  <2> QED
    BY <2>6, <2>7
<1> QED
  BY <1>3, <1>4

\* What Read does to the page, when no screenshot was taken.
LEMMA ExactReads ==
  ASSUME ExactInv, crashes = 0, shots = 0, Read, NEW o, o = Len(view.given) - view.skip
  PROVE  /\ o \in Nat /\ o + 1 \in 1 .. Len(Backlog)
         /\ Head(conn.wire) = Backlog[o + 1]
         /\ SuffixAt(Tail(conn.wire), Backlog, o + 1)
         /\ Head(conn.wire) \in PlainChunk
         /\ \/ /\ view.skip > 0 /\ view'.skip = view.skip - 1
               /\ view'.given = view.given /\ view'.parts = view.parts
            \/ /\ view.skip = 0 /\ view'.skip = 0
               /\ view'.given = Append(view.given, Head(conn.wire))
               /\ view'.parts = Place(view.parts, Head(conn.wire))
<1> DEFINE c == Head(conn.wire)  rest == Tail(conn.wire)
<1>1. Exact /\ Line /\ TypeInv /\ view \in Viewed /\ view.skip \in Nat /\ conn \in Connection
      /\ chan.log \in Seq(Frame) /\ Len(view.given) \in Nat
  <2>1. view.given \in Seq(ChunkSet)
    BY DEF ExactInv, LineInv, TypeInv, TypeOK
  <2> QED
    BY <2>1, LenProperties DEF ExactInv, LineInv, TypeInv, TypeOK, Connection, Viewed
<1>2. view.mode = "open" /\ conn.wire # <<>> /\ conn.wire \in Seq(ChunkSet)
  BY <1>1 DEF Read, Connection
<1>3. c \in ChunkSet /\ rest \in Seq(ChunkSet) /\ conn.wire = <<c>> \o rest
  BY <1>2, HeadTailProperties, FirstAndRest
<1>4. o \in Nat /\ SuffixAt(conn.wire, Backlog, o)
  BY <1>1, <1>2 DEF Exact, Line, Listening
<1>5. Backlog \in Seq(PlainChunk) /\ Backlog \in Seq(ChunkSet)
  BY <1>1, PlainBacklog, BacklogShape
<1> HIDE DEF c, rest
<1>6. o + 1 <= Len(Backlog) /\ Backlog[o + 1] = c /\ SuffixAt(rest, Backlog, o + 1)
  BY <1>3, <1>4, <1>5, SuffixPops
<1>7. o + 1 \in 1 .. Len(Backlog)
  BY <1>4, <1>5, <1>6, LenProperties
<1>8. c \in PlainChunk
  BY <1>5, <1>6, <1>7, ElementOfSeq
<1>9. ReplayStable(c)
  BY <1>8 DEF PlainChunk, ReplayStable
<1>10. view' = IF view.skip > 0 THEN [view EXCEPT !.skip = view.skip - 1]
               ELSE [view EXCEPT !.given = Append(view.given, c), !.parts = Place(view.parts, c)]
  BY <1>9 DEF Read, c
<1>11. CASE view.skip > 0
  <2>1. view' = [view EXCEPT !.skip = view.skip - 1]
    BY <1>10, <1>11
  <2>2. /\ view'.skip = view.skip - 1 /\ view'.given = view.given
        /\ view'.parts = view.parts
    BY <1>1, <2>1 DEF Viewed
  <2> QED
    BY <1>4, <1>6, <1>7, <1>8, <1>11, <2>2 DEF c, rest
<1>12. CASE ~ (view.skip > 0)
  <2>1. view' = [view EXCEPT !.given = Append(view.given, c), !.parts = Place(view.parts, c)]
    BY <1>10, <1>12
  <2>2. view.skip = 0
    BY <1>1, <1>12
  <2>3. /\ view'.skip = view.skip /\ view'.given = Append(view.given, c)
        /\ view'.parts = Place(view.parts, c)
    BY <1>1, <2>1 DEF Viewed
  <2> QED
    BY <1>4, <1>6, <1>7, <1>8, <2>2, <2>3 DEF c, rest
<1> QED
  BY <1>11, <1>12

LEMMA ExactReadKeeps ==
  ASSUME ExactInv, crashes = 0, shots = 0, Read
  PROVE  Exact'
<1> DEFINE o == Len(view.given) - view.skip
<1>1. Exact /\ Line /\ conn \in Connection /\ view.given \in Seq(ChunkSet)
      /\ Len(view.given) \in Nat /\ Backlog \in Seq(ChunkSet) /\ view.skip \in Nat
  <2>1. view.given \in Seq(ChunkSet)
    BY DEF ExactInv, LineInv, TypeInv, TypeOK
  <2> QED
    BY <2>1, LenProperties, BacklogShape
    DEF ExactInv, LineInv, TypeInv, TypeOK, Connection
<1>2. conn' = [conn EXCEPT !.wire = Tail(conn.wire)] /\ UNCHANGED chan
  BY DEF Read
<1>3. conn'.wire = Tail(conn.wire) /\ conn'.fed = conn.fed /\ conn'.at = conn.at
  BY <1>1, <1>2 DEF Connection
<1>4. Backlog' = Backlog
  BY <1>2 DEF Backlog
<1> DEFINE c == Head(conn.wire)
<1>5. /\ o \in Nat /\ o + 1 \in 1 .. Len(Backlog) /\ c = Backlog[o + 1]
      /\ SuffixAt(Tail(conn.wire), Backlog, o + 1) /\ c \in PlainChunk
      /\ \/ /\ view.skip > 0 /\ view'.skip = view.skip - 1
            /\ view'.given = view.given /\ view'.parts = view.parts
         \/ /\ view.skip = 0 /\ view'.skip = 0
            /\ view'.given = Append(view.given, c)
            /\ view'.parts = Place(view.parts, c)
  BY ExactReads
<1> HIDE DEF c
<1>6. CASE view.skip > 0
  <2>1. view'.skip = view.skip - 1 /\ view'.given = view.given
    BY <1>1, <1>5, <1>6
  <2>2. Len(view'.given) - view'.skip = o + 1
    BY <1>1, <2>1
  <2> QED
    BY <1>1, <1>2, <1>3, <1>4, <1>5, <2>1, <2>2 DEF Exact
<1>7. CASE view.skip = 0
  <2>1. view'.skip = 0 /\ view'.given = Append(view.given, c)
    BY <1>1, <1>5, <1>7
  <2>2. c \in ChunkSet
    BY <1>5 DEF PlainChunk
  <2>3. Len(view'.given) = Len(view.given) + 1 /\ view'.given = view.given \o <<c>>
    BY <1>1, <2>1, <2>2, AppendProperties, AppendIsConcat
  <2>4. Len(view'.given) - view'.skip = o + 1 /\ o = Len(view.given)
    BY <1>1, <1>7, <2>1, <2>3
  <2>5. PrefixOf(view'.given, Backlog)
    <3>1. PrefixOf(view.given, Backlog)
      BY <1>1 DEF Exact
    <3>2. Len(view.given) + 1 <= Len(Backlog) /\ Backlog[Len(view.given) + 1] = c
      BY <1>1, <1>5, <2>4
    <3> QED
      BY <1>1, <2>2, <2>3, <3>1, <3>2, PrefixPushes
  <2> QED
    BY <1>1, <1>2, <1>3, <1>4, <1>5, <2>4, <2>5 DEF Exact
<1> QED
  BY <1>1, <1>6, <1>7

LEMMA ExactInit == Init => ExactInv
<1> SUFFICES ASSUME Init PROVE ExactInv
  OBVIOUS
<1>1. LineInv /\ TypeInv
  BY LineInit DEF LineInv
<1>2. view.given = <<>> /\ view.mode = "closed" /\ ~ conn.fed
  BY DEF Init, Closed, NoConn
<1>3. PrefixOf(view.given, Backlog)
  <2>1. Len(Backlog) \in Nat
    BY <1>1, BacklogShape, LenProperties
  <2> QED
    BY <1>2, <2>1, EmptySeq DEF PrefixOf
<1> QED
  BY <1>1, <1>2, <1>3 DEF ExactInv, Exact, Listening

\* A step without a screenshot, in the life of one process.
LEMMA NoShots ==
  ASSUME TypeInv, [Next]_vars, shots' = 0
  PROVE  shots = 0 /\ ~ EmitShot
<1>1. shots \in Nat
  BY DEF TypeInv, TypeOK
<1>2. ~ EmitShot
  <2>1. EmitShot => shots' = shots + 1
    BY DEF EmitShot
  <2> QED
    BY <1>1, <2>1
<1>3. UNCHANGED shots
  <2>1. /\ \A k \in StepKind : Emit(k) => UNCHANGED shots
        /\ \A to \in Ended \cup {"parked"} : Settle(to) => UNCHANGED shots
        /\ \A chained \in BOOLEAN : TranslateResult(chained) => UNCHANGED shots
        /\ \A kinds \in {<<>>, <<"text">>} : TranslateFails(kinds) => UNCHANGED shots
    BY DEF Emit, Settle, TranslateResult, TranslateFails
  <2>2. Crash \/ Resume \/ ResumeRejected \/ Boot \/ Open \/ Leave \/ Drop \/ Read \/ StreamEnds
          \/ Reconnect \/ AttemptFails \/ FallBack \/ UNCHANGED vars => UNCHANGED shots
    BY DEF Crash, Resume, ResumeRejected, Boot, Open, Leave, Drop, Read, StreamEnds, Reconnect,
           AttemptFails, FallBack, vars, bounds
  <2> QED
    BY <1>2, <2>1, <2>2 DEF Next
<1> QED
  BY <1>2, <1>3

LEMMA ExactStep == ExactInv /\ [Next]_vars => ExactInv'
<1> SUFFICES ASSUME ExactInv, [Next]_vars PROVE ExactInv'
  OBVIOUS
<1>1. LineInv /\ LineInv' /\ TypeInv /\ TypeInv'
  BY LineStep DEF ExactInv, LineInv
<1>2. SUFFICES ASSUME crashes' = 0, shots' = 0 PROVE Exact'
  BY <1>1 DEF ExactInv
<1>3. crashes = 0 /\ shots = 0 /\ Line /\ ~ Crash /\ ~ Boot /\ ~ EmitShot
  BY <1>1, <1>2, SameLife, NoShots
<1>4. Exact /\ conn \in Connection /\ view \in Viewed /\ minted \in Nat /\ chan.log \in Seq(Frame)
  BY <1>1, <1>3 DEF ExactInv, TypeInv, TypeOK, Connection, Viewed
<1>5. ASSUME NEW k \in StepKind, Emit(k) PROVE Exact'
  <2> DEFINE kinds == <<k>>
  <2>1. kinds \in Seq(Kind) /\ Len(kinds) = 1 /\ \A j \in 1 .. 1 : kinds[j] # "shot"
    BY DEF Kind, StepKind
  <2>2. Mint(kinds) /\ UNCHANGED view
    BY <1>5 DEF Emit
  <2> HIDE DEF kinds
  <2>3. NewFrames(kinds) \in Seq(PlainFrame) /\ AppendFrames(NewFrames(kinds))
    BY <1>4, <2>1, <2>2, NewFramesPlain DEF Mint
  <2> QED
    BY <1>3, <2>2, <2>3, ExactAppends
<1>6. ASSUME NEW chained \in BOOLEAN, TranslateResult(chained) PROVE Exact'
  <2>1. run \in Ended \cup {"executing", "parked"} /\ run # "executing" /\ chan.open
    BY <1>1, <1>3, <1>6 DEF TranslateResult, TypeInv, ChanInv, Line
  <2>2. /\ FramesOf(chained) \in Seq(Kind)
        /\ \A j \in 1 .. Len(FramesOf(chained)) : FramesOf(chained)[j] # "shot"
    BY <2>1, TranslatedEndsLast, TranslatedPlain
  <2>3. Mint(FramesOf(chained)) /\ UNCHANGED view
    BY <1>6, <2>1 DEF TranslateResult
  <2>4. NewFrames(FramesOf(chained)) \in Seq(PlainFrame) /\ AppendFrames(NewFrames(FramesOf(chained)))
    BY <1>4, <2>2, <2>3, NewFramesPlain DEF Mint
  <2> QED
    BY <1>3, <2>3, <2>4, ExactAppends
<1>20. ASSUME NEW kinds \in {<<>>, <<"text">>}, TranslateFails(kinds) PROVE Exact'
  <2>1. kinds \in Seq(Kind) /\ \A j \in 1 .. Len(kinds) : kinds[j] # "shot"
    BY FailedFrames
  <2>2. Mint(kinds) /\ UNCHANGED view
    BY <1>20 DEF TranslateFails
  <2>3. NewFrames(kinds) \in Seq(PlainFrame) /\ AppendFrames(NewFrames(kinds))
    BY <1>4, <2>1, <2>2, NewFramesPlain DEF Mint
  <2> QED
    BY <1>3, <2>2, <2>3, ExactAppends
<1>7. ASSUME Read PROVE Exact'
  BY <1>3, <1>7, ExactReadKeeps
<1>8. ASSUME UNCHANGED chan, view'.given = view.given, view'.skip = view.skip,
             ~ conn'.fed, conn'.wire = <<>>
      PROVE  Exact'
  <2>1. Backlog' = Backlog /\ ~ Listening'
    BY <1>8 DEF Backlog, Listening
  <2> QED
    BY <1>4, <1>8, <2>1 DEF Exact
<1>9. Len(Backlog) \in Nat /\ SuffixAt(Backlog, Backlog, 0)
  BY <1>1, BacklogShape, LenProperties, SuffixWhole
<1>10. ASSUME conn' = Subscribed, UNCHANGED chan, view'.skip = Len(view'.given),
              PrefixOf(view'.given, Backlog), Len(view'.given) \in Nat
       PROVE  Exact'
  <2>1. conn'.wire = Backlog /\ conn'.at = Len(chan.log) /\ Backlog' = Backlog
    BY <1>10 DEF Subscribed, Backlog
  <2>2. Len(view'.given) - view'.skip = 0
    BY <1>10
  <2> QED
    BY <1>9, <1>10, <2>1, <2>2 DEF Exact
<1>11. /\ Closed.given = <<>> /\ Closed.skip = 0 /\ Closed.parts = <<>> /\ Len(<<>>) = 0
       /\ PrefixOf(<<>>, Backlog)
  BY <1>9, EmptySeq DEF Closed, PrefixOf
<1>12. ASSUME Open PROVE Exact'
  <2>1. conn' = Subscribed /\ view' = [Closed EXCEPT !.mode = "open"] /\ UNCHANGED chan
    BY <1>3, <1>12 DEF Open, Line
  <2>2. view'.given = <<>> /\ view'.skip = 0
    BY <2>1 DEF Closed
  <2> QED
    BY <1>10, <1>11, <2>1, <2>2
<1>13. ASSUME Reconnect PROVE Exact'
  <2>1. /\ conn' = Subscribed /\ view' = [view EXCEPT !.mode = "open", !.skip = Len(view.given)]
        /\ UNCHANGED chan
    BY <1>13 DEF Reconnect, ToSkip
  <2>2. view'.given = view.given /\ view'.skip = Len(view.given) /\ Len(view.given) \in Nat
    BY <1>4, <2>1, LenProperties DEF Viewed
  <2> QED
    BY <1>4, <1>10, <2>1, <2>2 DEF Exact
<1>14. ASSUME Leave PROVE Exact'
  <2>1. view' = Closed /\ conn' = NoConn /\ UNCHANGED chan
    BY <1>14 DEF Leave
  <2>2. Backlog' = Backlog /\ view'.mode = "closed" /\ ~ conn'.fed /\ view'.given = <<>>
    BY <2>1 DEF Backlog, Closed, NoConn
  <2> QED
    BY <1>11, <2>2 DEF Exact, Listening
<1>15. ASSUME Drop PROVE Exact'
  <2>1. UNCHANGED <<chan, view>> /\ ~ conn'.fed /\ conn'.wire = <<>>
    BY <1>15 DEF Drop, NoConn
  <2> QED
    BY <1>8, <2>1
<1>16. ASSUME StreamEnds \/ FallBack \/ AttemptFails PROVE Exact'
  <2>1. UNCHANGED <<chan, conn>> /\ ~ conn.fed /\ conn.wire = <<>>
    BY <1>3, <1>16 DEF StreamEnds, FallBack, AttemptFails, Line
  <2>2. \/ view' = [view EXCEPT !.mode = "landed"]
        \/ view' = [view EXCEPT !.mode = "retry", !.tries = 0]
        \/ view' = [view EXCEPT !.mode = "landed", !.parts = Append(view.parts, Fallback)]
        \/ view' = [view EXCEPT !.tries = view.tries + 1]
    BY <1>16 DEF StreamEnds, FallBack, AttemptFails
  <2>3. view'.given = view.given /\ view'.skip = view.skip
    BY <1>4, <2>2 DEF Viewed
  <2> QED
    BY <1>8, <2>1, <2>3
<1>17. ASSUME UNCHANGED <<chan, view, conn>> PROVE Exact'
  <2>1. Backlog' = Backlog /\ Listening' = Listening
    BY <1>17 DEF Backlog, Listening
  <2> QED
    BY <1>4, <1>17, <2>1 DEF Exact
<1>18. \A to \in Ended \cup {"parked"} : Settle(to) => UNCHANGED <<chan, view, conn>>
  BY DEF Settle
<1>19. Resume \/ ResumeRejected \/ UNCHANGED vars => UNCHANGED <<chan, view, conn>>
  BY DEF Resume, ResumeRejected, vars
<1> QED
  BY <1>3, <1>5, <1>6, <1>7, <1>12, <1>13, <1>14, <1>15, <1>16, <1>17, <1>18, <1>19,
     <1>20
  DEF Next

----------------------------------------------------------------------------
(* The ending is the last the page keeps *)

Kept == {view.given[j] : j \in DOMAIN view.given}
TerminalGiven ==
  \E j \in DOMAIN view.given : view.given[j].part = "frame" /\ view.given[j].k \in TerminalKind
Watching == view.mode \in {"open", "retry"} \/ SawEnd

\* While it reads, the page keeps nothing but what it was given, and once it was given the
\* terminal frame that is what it kept last; a dropped stream has not shown the end mark.
Places ==
  /\ view.mode = "retry" => ~ SawEnd
  /\ Watching => /\ view.parts \in Seq(Kept)
                 /\ TerminalGiven => /\ Len(view.parts) > 0
                                     /\ view.parts[Len(view.parts)].k \in TerminalKind

PlacesInv == ExactInv /\ (crashes = 0 /\ shots = 0 => Places)

\* A new chunk under a new place is added.
LEMMA PlaceAdds ==
  ASSUME NEW parts \in Seq(ChunkSet), NEW c \in ChunkSet, c.part = "frame",
         \A j \in 1 .. Len(parts) : parts[j].part = "frame" => parts[j].id < c.id
  PROVE  Place(parts, c) = Append(parts, c)
<1> DEFINE old == {j \in DOMAIN parts : parts[j].part = c.part /\ parts[j].id = c.id}
<1>1. DOMAIN parts = 1 .. Len(parts) /\ Len(parts) \in Nat
  BY LenProperties
<1>2. c.id \in Nat /\ \A j \in 1 .. Len(parts) : parts[j].id \in Nat
  <2>1. \A j \in 1 .. Len(parts) : parts[j] \in ChunkSet
    BY ElementOfSeq
  <2> QED
    BY <2>1 DEF ChunkSet
<1>3. old = {}
  <2> SUFFICES ASSUME NEW j \in DOMAIN parts, parts[j].part = c.part, parts[j].id = c.id
               PROVE  FALSE
    OBVIOUS
  <2>1. j \in 1 .. Len(parts) /\ parts[j].id < c.id
    BY <1>1
  <2> QED
    BY <1>2, <2>1
<1> HIDE DEF old
<1>4. Place(parts, c) = CASE c.part \in {"start", "live", "end"} -> parts
                          [] c.part \in {"gate", "frame"} /\ old # {}
                               -> [j \in DOMAIN parts |-> IF j \in old THEN c ELSE parts[j]]
                          [] OTHER -> Append(parts, c)
  BY DEF Place, old
<1> QED
  BY <1>3, <1>4

LEMMA PlaceEnd ==
  ASSUME NEW parts, NEW c, c.part = "end"
  PROVE  Place(parts, c) = parts
<1> DEFINE old == {j \in DOMAIN parts : parts[j].part = c.part /\ parts[j].id = c.id}
           put == [j \in DOMAIN parts |-> IF j \in old THEN c ELSE parts[j]]
<1>1. Place(parts, c) = CASE c.part \in {"start", "live", "end"} -> parts
                          [] c.part \in {"gate", "frame"} /\ old # {} -> put
                          [] OTHER -> Append(parts, c)
  BY DEF Place, put, old
<1> HIDE DEF put, old
<1>2. /\ c.part \in {"start", "live", "end"}
      /\ ~ (c.part \in {"gate", "frame"} /\ old # {})
  OBVIOUS
<1> QED
  BY <1>1, <1>2

LEMMA PlacesRead ==
  ASSUME PlacesInv, crashes = 0, shots = 0, Read
  PROVE  Places'
<1> DEFINE g == view.given  c == Head(conn.wire)  o == Len(view.given) - view.skip  B == Backlog
<1>1. /\ Places /\ Exact /\ TypeInv /\ view \in Viewed /\ ExactInv
      /\ g \in Seq(ChunkSet) /\ view.parts \in Seq(ChunkSet)
      /\ Len(g) \in Nat /\ DOMAIN g = 1 .. Len(g)
  <2>1. /\ view \in Viewed /\ Places /\ Exact /\ TypeInv /\ ExactInv
    BY DEF PlacesInv, ExactInv, LineInv, TypeInv, TypeOK, Viewed
  <2>2. g \in Seq(ChunkSet) /\ view.parts \in Seq(ChunkSet)
    BY <2>1 DEF Viewed
  <2> QED
    BY <2>1, <2>2, LenProperties
<1>2. /\ o \in Nat /\ o + 1 \in 1 .. Len(B) /\ c = B[o + 1] /\ c \in PlainChunk
      /\ \/ /\ view.skip > 0 /\ view'.skip = view.skip - 1
            /\ view'.given = view.given /\ view'.parts = view.parts
         \/ /\ view.skip = 0 /\ view'.skip = 0
            /\ view'.given = Append(view.given, c)
            /\ view'.parts = Place(view.parts, c)
  BY <1>1, ExactReads
<1>3. view'.mode = "open" /\ view.mode = "open"
  <2>1. view.mode = "open"
    BY DEF Read
  <2> DEFINE skipped == IF ReplayStable(c) THEN view.skip - 1 ELSE view.skip
             given == IF ReplayStable(c) THEN Append(view.given, c) ELSE view.given
             parts == Place(view.parts, c)
  <2>2. \/ view' = [view EXCEPT !.skip = skipped]
        \/ view' = [view EXCEPT !.given = given, !.parts = parts]
    BY DEF Read
  <2> HIDE DEF skipped, given, parts
  <2> QED
    BY <1>1, <2>1, <2>2 DEF Viewed
<1>4. Watching
  BY <1>3 DEF Watching
<1> HIDE DEF c
<1>5. CASE view'.given = view.given /\ view'.parts = view.parts
  <2>1. Kept' = Kept /\ TerminalGiven' = TerminalGiven
    BY <1>5 DEF Kept, TerminalGiven
  <2> QED
    BY <1>1, <1>3, <1>4, <1>5, <2>1 DEF Places
<1>6. CASE /\ view.skip = 0 /\ view'.given = Append(view.given, c)
           /\ view'.parts = Place(view.parts, c)
  <2>1. c \in ChunkSet /\ o = Len(g)
    BY <1>1, <1>2, <1>6 DEF PlainChunk
  <2> DEFINE h == view'.given
  <2>2. /\ h \in Seq(ChunkSet) /\ Len(h) = o + 1
        /\ \A j \in 1 .. o : h[j] = g[j]
        /\ h[o + 1] = c
    BY <1>1, <1>6, <2>1, AppendProperties
  <2>3. DOMAIN h = 1 .. o + 1
    BY <2>2, LenProperties
  <2> HIDE DEF h
  <2>4. Kept \subseteq Kept' /\ c \in Kept'
    <3>1. \A j \in 1 .. o : j \in 1 .. o + 1
      BY <1>2
    <3>2. o + 1 \in 1 .. o + 1
      BY <1>2
    <3>3. Kept = {g[j] : j \in 1 .. o} /\ Kept' = {h[j] : j \in 1 .. o + 1}
      BY <1>1, <2>1, <2>3 DEF Kept, h
    <3> QED
      BY <2>2, <3>1, <3>2, <3>3
  <2>5. view'.parts \in Seq(Kept')
    <3>1. view.parts \in Seq(Kept')
      BY <1>1, <1>4, <2>4, SeqMonotonic DEF Places
    <3> QED
      BY <1>6, <2>4, <3>1, PlaceType
  <2>6. \A j \in 1 .. o : g[j] = B[j]
    BY <1>1, <2>1 DEF Exact, PrefixOf
  <2>7. \A j \in 1 .. o + 1 : h[j] = B[j]
    <3> SUFFICES ASSUME NEW j \in 1 .. o + 1 PROVE h[j] = B[j]
      OBVIOUS
    <3>1. j = o + 1 \/ j \in 1 .. o
      BY <1>2
    <3> QED
      BY <1>2, <2>2, <2>6, <3>1
  <2>8. ASSUME TerminalGiven'
        PROVE  Len(view'.parts) > 0 /\ view'.parts[Len(view'.parts)].k \in TerminalKind
    <3>1. PICK j \in 1 .. o + 1 : B[j].part = "frame" /\ B[j].k \in TerminalKind
      BY <2>3, <2>7, <2>8 DEF TerminalGiven, h
    <3>2. Len(B) \in Nat
      BY <1>1, BacklogShape, LenProperties
    <3>3. j \in 1 .. Len(B)
      BY <1>2, <3>2
    <3>4. PICK i \in Nat : OpenBacklog(B, i) \/ EndedBacklog(B, i)
      BY <1>1, BacklogShape
    <3>5. B[j] \notin OpenChunk(i)
      BY <3>1 DEF OpenChunk
    <3>6. EndedBacklog(B, i)
      BY <3>3, <3>4, <3>5 DEF OpenBacklog
    <3> HIDE DEF B, o, g
    <3>7. /\ Len(B) >= 2
          /\ \A m \in 1 .. Len(B) - 2 : B[m] \in OpenChunk(i)
          /\ B[Len(B) - 1].k \in TerminalKind /\ B[Len(B) - 1].part = "frame"
          /\ B[Len(B) - 1].id = i
          /\ B[Len(B)].k \in TerminalKind /\ B[Len(B)].part = "end"
      BY <3>6 DEF EndedBacklog
    <3>8. ~ (j \in 1 .. Len(B) - 2)
      BY <3>5, <3>7
    <3>9. o + 1 = Len(B) - 1 \/ o + 1 = Len(B)
      BY <1>2, <3>2, <3>3, <3>7, <3>8
    <3>10. CASE o + 1 = Len(B) - 1
      <4>1. c.k \in TerminalKind /\ c.part = "frame" /\ c.id = i
        BY <1>2, <3>7, <3>10
      <4>2. \A m \in 1 .. o : g[m] \in OpenChunk(i)
        <5>1. \A m \in 1 .. o : m \in 1 .. Len(B) - 2
          BY <1>2, <3>2, <3>10
        <5> QED
          BY <2>6, <3>7, <5>1
      <4>3. Kept \subseteq OpenChunk(i)
        BY <1>1, <2>1, <4>2 DEF Kept, g
      <4>4. view.parts \in Seq(OpenChunk(i))
        BY <1>1, <1>4, <4>3, SeqMonotonic DEF Places
      <4>5. \A m \in 1 .. Len(view.parts) : view.parts[m].part = "frame" => view.parts[m].id < c.id
        BY <4>1, <4>4, ElementOfSeq DEF OpenChunk
      <4>6. view'.parts = Append(view.parts, c)
        BY <1>1, <1>6, <2>1, <4>1, <4>5, PlaceAdds
      <4>7. Len(view'.parts) = Len(view.parts) + 1 /\ view'.parts[Len(view.parts) + 1] = c
            /\ Len(view.parts) \in Nat
        BY <1>1, <2>1, <4>6, AppendProperties, LenProperties
      <4> QED
        BY <4>1, <4>7
    <3>11. CASE o + 1 = Len(B)
      <4>1. c.part = "end"
        BY <1>2, <3>7, <3>11
      <4>2. view'.parts = view.parts
        BY <1>6, <4>1, PlaceEnd
      <4>3. o \in 1 .. o /\ o = Len(B) - 1
        BY <1>2, <3>2, <3>7, <3>11
      <4>4. g[o].part = "frame" /\ g[o].k \in TerminalKind
        BY <2>6, <3>7, <4>3
      <4>5. TerminalGiven
        BY <1>1, <2>1, <4>3, <4>4 DEF TerminalGiven, g
      <4> QED
        BY <1>1, <1>4, <4>2, <4>5 DEF Places
    <3> QED
      BY <3>9, <3>10, <3>11
  <2> QED
    BY <1>3, <2>5, <2>8 DEF Places
<1> QED
  BY <1>2, <1>5, <1>6
LEMMA PlacesStep == PlacesInv /\ [Next]_vars => PlacesInv'
<1> SUFFICES ASSUME PlacesInv, [Next]_vars PROVE PlacesInv'
  OBVIOUS
<1>1. ExactInv /\ ExactInv' /\ LineInv /\ TypeInv
  BY ExactStep DEF PlacesInv, ExactInv, LineInv
<1>2. SUFFICES ASSUME crashes' = 0, shots' = 0 PROVE Places'
  BY <1>1 DEF PlacesInv
<1>3. crashes = 0 /\ shots = 0 /\ Line /\ ~ Crash /\ ~ Boot /\ ~ EmitShot
  BY <1>1, <1>2, SameLife, NoShots
<1>4. Places /\ view \in Viewed
  BY <1>1, <1>3 DEF PlacesInv, TypeInv, TypeOK, Viewed
<1>5. ASSUME view'.given = view.given, view'.parts = view.parts, Watching' => Watching,
             view'.mode = "retry" => ~ SawEnd
      PROVE  Places'
  <2>1. Kept' = Kept /\ TerminalGiven' = TerminalGiven /\ SawEnd' = SawEnd
    BY <1>5 DEF Kept, TerminalGiven, SawEnd
  <2> QED
    BY <1>4, <1>5, <2>1 DEF Places
<1>6. ASSUME UNCHANGED view PROVE Places'
  <2>1. Watching' = Watching
    BY <1>6 DEF Watching, SawEnd
  <2> QED
    BY <1>4, <1>5, <1>6, <2>1 DEF Places
<1>7. ASSUME Read PROVE Places'
  BY <1>3, <1>7, PlacesRead
<1>8. ASSUME view'.given = <<>>, view'.parts = <<>>, view'.mode # "retry" PROVE Places'
  <2>1. ~ TerminalGiven' /\ view'.parts \in Seq(Kept')
    BY <1>8, EmptySeq DEF TerminalGiven
  <2> QED
    BY <1>8, <2>1 DEF Places
<1>9. ASSUME Open PROVE Places'
  <2>1. view' = [Closed EXCEPT !.mode = "open"]
    BY <1>3, <1>9 DEF Open, Line
  <2> QED
    BY <1>8, <2>1 DEF Closed
<1>10. ASSUME Leave PROVE Places'
  BY <1>8, <1>10 DEF Leave, Closed
<1>11. ASSUME Reconnect PROVE Places'
  <2>1. view.mode = "retry" /\ view' = [view EXCEPT !.mode = "open", !.skip = ToSkip]
    BY <1>11 DEF Reconnect
  <2>2. view'.given = view.given /\ view'.parts = view.parts /\ view'.mode = "open"
    BY <1>4, <2>1 DEF Viewed
  <2> QED
    BY <1>5, <2>1, <2>2 DEF Watching
<1>12. ASSUME AttemptFails PROVE Places'
  <2>1. view.mode = "retry" /\ view' = [view EXCEPT !.tries = view.tries + 1]
    BY <1>12 DEF AttemptFails
  <2>2. view'.given = view.given /\ view'.parts = view.parts /\ view'.mode = "retry"
    BY <1>4, <2>1 DEF Viewed
  <2> QED
    BY <1>4, <1>5, <2>1, <2>2 DEF Watching, Places
<1>13. ASSUME StreamEnds PROVE Places'
  <2>1. /\ view.mode = "open"
        /\ view' = IF SawEnd THEN [view EXCEPT !.mode = "landed"]
                   ELSE [view EXCEPT !.mode = "retry", !.tries = 0]
    BY <1>13 DEF StreamEnds
  <2>2. /\ view'.given = view.given /\ view'.parts = view.parts
        /\ SawEnd => view'.mode = "landed"
    <3> HIDE DEF SawEnd
    <3> QED
      BY <1>4, <2>1 DEF Viewed
  <2> QED
    BY <1>5, <2>1, <2>2 DEF Watching
<1>14. ASSUME FallBack PROVE Places'
  <2>1. /\ view.mode = "retry"
        /\ view' = [view EXCEPT !.mode = "landed", !.parts = Append(view.parts, Fallback)]
    BY <1>14 DEF FallBack
  <2>2. view'.given = view.given /\ view'.mode = "landed"
    BY <1>4, <2>1 DEF Viewed
  <2>3. ~ SawEnd'
    BY <1>4, <2>1, <2>2 DEF Places, SawEnd
  <2> QED
    BY <2>2, <2>3 DEF Places, Watching
<1>15. /\ \A k \in StepKind : Emit(k) => UNCHANGED view
       /\ \A to \in Ended \cup {"parked"} : Settle(to) => UNCHANGED view
       /\ \A chained \in BOOLEAN : TranslateResult(chained) => UNCHANGED view
       /\ \A kinds \in {<<>>, <<"text">>} : TranslateFails(kinds) => UNCHANGED view
  BY DEF Emit, Settle, TranslateResult, TranslateFails
<1>16. Resume \/ ResumeRejected \/ Drop \/ UNCHANGED vars => UNCHANGED view
  BY DEF Resume, ResumeRejected, Drop, vars
<1> QED
  BY <1>3, <1>6, <1>7, <1>9, <1>10, <1>11, <1>12, <1>13, <1>14, <1>15, <1>16 DEF Next

LEMMA PlacesInit == Init => PlacesInv
<1> SUFFICES ASSUME Init PROVE PlacesInv
  OBVIOUS
<1>1. ExactInv
  BY ExactInit
<1>2. view.given = <<>> /\ view.mode = "closed"
  BY DEF Init, Closed
<1> QED
  BY <1>1, <1>2 DEF PlacesInv, Places, Watching, SawEnd

LEMMA SaysInit == Init => SaysInv
<1> SUFFICES ASSUME Init PROVE SaysInv
  OBVIOUS
<1>1. LineInv /\ chan.log = <<[n |-> 1, k |-> "init"]>> /\ conn.wire = <<>> /\ view.parts = <<>>
  BY LineInit DEF Init, NoConn, Closed
<1>2. [n |-> 1, k |-> "init"] \in TrueFrame(run)
  BY DEF TrueFrame, Said, Frame, Kind
<1>3. <<[n |-> 1, k |-> "init"]>> \in Seq(TrueFrame(run))
  BY <1>2
<1> QED
  BY <1>1, <1>3, EmptySeq DEF SaysInv, Says

\* A set of naturals that is not empty has a least member.
LEMMA NatLeast ==
  ASSUME NEW T, T \subseteq Nat, T # {}
  PROVE  \E m \in T : \A i \in T : m <= i
<1>1. PICK m \in T : \A i \in T : ~ (<<i, m>> \in OpToRel(<, Nat))
  BY WFMin, NatLessThanWellFounded
<1>2. \A i \in T : ~ (i < m)
  BY <1>1 DEF OpToRel
<1> QED
  BY <1>2

\* The last of some places.
LEMMA LastPlace ==
  ASSUME NEW n \in Nat, NEW S, S \subseteq 1 .. n, S # {}
  PROVE  \E j \in S : \A i \in S : i <= j
<1> DEFINE T == {n - j : j \in S}
<1>1. T \subseteq Nat /\ T # {}
  <2>1. \A j \in S : n - j \in Nat
    OBVIOUS
  <2>2. \E j \in S : TRUE
    OBVIOUS
  <2> QED
    BY <2>1, <2>2
<1>2. PICK m \in T : \A i \in T : m <= i
  BY <1>1, NatLeast
<1>3. PICK j \in S : m = n - j
  BY <1>2
<1>4. \A i \in S : n - i \in T /\ n - i \in Nat
  BY <1>1
<1>5. \A i \in S : i <= j
  BY <1>2, <1>3, <1>4
<1> QED
  BY <1>5

\* chatModel.ts: in the life of one process the page never tells of an ending that the run
\* does not have, but for a decline whose status was read before its end frame was logged;
\* and once it saw the end of the stream, without screenshots, what it says is that the
\* run has ended - the terminal frame is the last it kept.
THEOREM EndingIsTrue == Spec => []TrueEnding
<1> DEFINE EndInv == SaysInv /\ PlacesInv
<1>1. Init => EndInv
  BY SaysInit, PlacesInit
<1>2. EndInv /\ [Next]_vars => EndInv'
  BY SaysStep, PlacesStep
<1>3. EndInv => TrueEnding
  <2> SUFFICES ASSUME EndInv, crashes = 0, shots = 0
               PROVE  /\ ShownStatus = "done" => run = "completed" \/ EarlyDecline
                      /\ ShownStatus \in {"declined", "canceled"} => run = ShownStatus
                      /\ view.mode = "landed" /\ SawEnd => ShownStatus \in TerminalKind
    BY DEF TrueEnding
  <2> DEFINE parts == view.parts
             speaks == {j \in DOMAIN parts : parts[j].k \in TerminalKind \cup {"gate"}}
             last == CHOOSE j \in speaks : \A i \in speaks : i <= j
  <2>1. Says /\ Places /\ Exact /\ TypeInv /\ parts \in Seq(ChunkSet) /\ view.given \in Seq(ChunkSet)
    BY DEF SaysInv, PlacesInv, ExactInv, LineInv, TypeInv, TypeOK
  <2>2. DOMAIN parts = 1 .. Len(parts) /\ Len(parts) \in Nat
    BY <2>1, LenProperties
  <2>3. speaks # {} => last \in speaks /\ \A i \in speaks : i <= last
    <3>1. speaks \subseteq 1 .. Len(parts)
      BY <2>2
    <3> HIDE DEF speaks
    <3> QED
      BY <2>2, <3>1, LastPlace
  <2>4. ShownStatus = IF speaks = {} THEN "running" ELSE parts[last].k
    BY DEF ShownStatus
  <2>5. /\ ShownStatus = "done" => run = "completed" \/ EarlyDecline
        /\ ShownStatus \in {"declined", "canceled"} => run = ShownStatus
    <3> SUFFICES ASSUME ShownStatus \in {"done", "declined", "canceled"}
                 PROVE  Said(ShownStatus, run) \/ (ShownStatus = "done" /\ EarlyDecline)
      BY DEF Said
    <3>1. last \in 1 .. Len(parts) /\ ShownStatus = parts[last].k
      <4>1. speaks \subseteq 1 .. Len(parts)
        BY <2>2
      <4> HIDE DEF speaks, last, parts
      <4> QED
        BY <2>3, <2>4, <4>1
    <3> HIDE DEF last, speaks
    <3>2. parts[last] \in TrueChunk(run)
      BY <2>1, <3>1, ElementOfSeq DEF Says
    <3>3. Said(ShownStatus, run) \/ Early(parts[last], run)
      BY <3>1, <3>2 DEF TrueChunk
    <3>4. ASSUME Early(parts[last], run) PROVE ShownStatus = "done" /\ EarlyDecline
      BY <2>2, <3>1, <3>4 DEF Early, EarlyDecline
    <3> QED
      BY <3>3, <3>4
  <2>6. ASSUME SawEnd PROVE ShownStatus \in TerminalKind
    <3>1. PICK j \in DOMAIN view.given : view.given[j].part = "end"
      BY <2>6 DEF SawEnd
    <3>2. /\ DOMAIN view.given = 1 .. Len(view.given) /\ Len(view.given) \in Nat
          /\ Len(view.given) <= Len(Backlog)
          /\ \A i \in 1 .. Len(view.given) : view.given[i] = Backlog[i]
          /\ DOMAIN Backlog = 1 .. Len(Backlog) /\ Len(Backlog) \in Nat
      BY <2>1, BacklogShape, LenProperties DEF Exact, PrefixOf
    <3>3. j \in DOMAIN Backlog /\ Backlog[j].part = "end"
      BY <3>1, <3>2
    <3>4. /\ j = Len(Backlog) /\ Len(Backlog) >= 2
          /\ \E i \in Nat : EndedBacklog(Backlog, i)
      BY <2>1, <3>3, EndMarkIsLast
    <3>5. j - 1 \in 1 .. Len(view.given)
      BY <3>1, <3>2, <3>4
    <3>6. Backlog[j - 1].part = "frame" /\ Backlog[j - 1].k \in TerminalKind
      BY <3>4 DEF EndedBacklog
    <3>7. TerminalGiven
      BY <3>2, <3>5, <3>6 DEF TerminalGiven
    <3>8. Len(parts) > 0 /\ parts[Len(parts)].k \in TerminalKind
      BY <2>1, <2>6, <3>7 DEF Places, Watching
    <3>9. Len(parts) \in speaks
      BY <2>2, <3>8
    <3>10. last = Len(parts)
      <4>1. speaks \subseteq 1 .. Len(parts)
        BY <2>2
      <4> HIDE DEF speaks, last, parts
      <4>2. last \in speaks /\ \A i \in speaks : i <= last
        BY <2>3, <3>9, Zenon
      <4>3. last \in 1 .. Len(parts)
        BY <4>1, <4>2
      <4>4. Len(parts) <= last
        BY <3>9, <4>2
      <4>5. \A m \in Nat : \A i \in 1 .. m : m <= i => i = m
        OBVIOUS
      <4> QED
        BY <2>2, <4>3, <4>4, <4>5, Zenon
    <3> HIDE DEF speaks, last, parts
    <3> QED
      BY <2>4, <3>8, <3>9, <3>10
  <2> QED
    BY <2>5, <2>6
<1> HIDE DEF EndInv
<1> QED
  BY <1>1, <1>2, <1>3, PTL DEF Spec
=============================================================================
