---------------------- MODULE ClientPresentationProofs ----------------------
(***************************************************************************)
(* Proofs about the clocks of a client, for every tick length, start of the *)
(* two clocks, sync interval and frame limit.                               *)
(***************************************************************************)
EXTENDS ClientPresentation, NumberLemmas, FiniteSetTheorems, TLAPS

(* Half of a natural number, rounded towards zero.                          *)
LEMMA HalvedBounds ==
    ASSUME NEW x \in Nat
    PROVE  Halved(x) \in Nat /\ 2 * Halved(x) <= x /\ x <= 2 * Halved(x) + 1
BY DEF Halved

(* Halving keeps order.                                                     *)
LEMMA HalvedMonotonic ==
    ASSUME NEW x \in Nat, NEW y \in Nat, x <= y
    PROVE  Halved(x) <= Halved(y)
BY HalvedBounds

(* Division by eight towards zero keeps integer bounds.                     *)
LEMMA EighthBetween ==
    ASSUME NEW x \in Int, NEW lo \in Int, NEW hi \in Int,
           8 * lo <= x, x <= 8 * hi
    PROVE  Eighth(x) \in Int /\ lo <= Eighth(x) /\ Eighth(x) <= hi
<1>1. CASE x >= 0
  BY <1>1 DEF Eighth
<1>2. CASE x < 0
  BY <1>2 DEF Eighth
<1> QED
  BY <1>1, <1>2

(* std::min of two.                                                         *)
LEMMA MinOfTwo ==
    ASSUME NEW a \in Int, NEW b \in Int
    PROVE  Min({a, b}) \in {a, b} /\ Min({a, b}) <= a /\ Min({a, b}) <= b
<1>1. \E x \in {a, b} : \A y \in {a, b} : x <= y
  <2>1. CASE a <= b
    BY <2>1
  <2>2. CASE b <= a
    BY <2>2
  <2> QED
    BY <2>1, <2>2
<1>2. Min({a, b}) \in {a, b} /\ \A y \in {a, b} : Min({a, b}) <= y
  BY <1>1 DEF Min
<1> QED
  BY <1>2

-----------------------------------------------------------------------------
(***************************************************************************)
(* The clock.  A sample is good because its answer was served between its   *)
(* request and its arrival, when the server's time was a tick behind; the   *)
(* smoothing stays between the old offset and the measured one, and the     *)
(* bounds only widen as longer round trips are measured.                    *)
(***************************************************************************)
SyncTypes ==
    /\ now \in Nat /\ serverTime \in Nat
    /\ lastTick \in Int /\ nextSyncAt \in Nat
    /\ requests \subseteq Nat /\ responses \subseteq Response
    /\ sampled \in BOOLEAN /\ offset \in Int /\ worstRtt \in Nat

(* Requests were sent, and answers served, at times that have passed.       *)
MessagesAreOfThePast ==
    /\ \A sent \in requests : sent <= now
    /\ \A r \in responses : /\ Ahead + r.sent <= r.served + Tick
                            /\ r.served + Tick <= Ahead + now

ClockInv == SyncTypes /\ MessagesAreOfThePast /\ ClockErrorBounded

(* What a sample measures of a server whose time is base ahead when it      *)
(* answers, somewhere between the request and its arrival.                  *)
LEMMA MeasuredWithin ==
    ASSUME NEW sent \in Nat, NEW served \in Nat, NEW received \in Nat,
           NEW base \in Int, sent <= received,
           base + sent <= served, served <= base + received
    PROVE  LET measured == MeasuredOffset(sent, served, received)
               trip == MeasuredRtt(sent, received)
           IN  /\ trip \in Nat /\ measured \in Int
               /\ measured - base \in (-Halved(trip))..Halved(trip + 1)
<1>1. MeasuredRtt(sent, received) = received - sent
  BY DEF MeasuredRtt
<1>2. PICK trip \in Nat : trip = received - sent
  OBVIOUS
<1>3. trip + 1 \in Nat
  OBVIOUS
<1>4. PICK half \in Nat : half = Halved(trip) /\ 2 * half <= trip /\ trip <= 2 * half + 1
  BY HalvedBounds
<1>5. PICK more \in Nat : more = Halved(trip + 1) /\ trip + 1 <= 2 * more + 1
  BY <1>3, HalvedBounds
<1>6. MeasuredOffset(sent, served, received) = served - (sent + half)
  BY <1>1, <1>2, <1>4 DEF MeasuredOffset
<1>7. served - (sent + half) \in Int
      /\ served - (sent + half) - base \in (-half)..more
  BY <1>2, <1>4, <1>5
<1> QED
  BY <1>1, <1>2, <1>4, <1>5, <1>6, <1>7

(* Longer round trips only widen the bounds.                                *)
LEMMA Widened ==
    ASSUME NEW base \in Int, NEW x \in Int, NEW v \in Nat, NEW w \in Nat, v <= w,
           x - base \in (-Halved(v))..Halved(v + 1)
    PROVE  x - base \in (-Halved(w))..Halved(w + 1)
<1>1. v + 1 \in Nat /\ w + 1 \in Nat /\ v + 1 <= w + 1
  OBVIOUS
<1>2. /\ Halved(v) \in Nat /\ Halved(w) \in Nat
      /\ Halved(v + 1) \in Nat /\ Halved(w + 1) \in Nat
  BY <1>1, HalvedBounds
<1>3. Halved(v) <= Halved(w) /\ Halved(v + 1) <= Halved(w + 1)
  BY <1>1, HalvedMonotonic
<1> QED
  BY <1>2, <1>3

(* The smoothed offset stays within bounds that hold of both it is made of. *)
LEMMA SmoothedWithin ==
    ASSUME NEW base \in Int, NEW old \in Int, NEW measured \in Int, NEW w \in Nat,
           old - base \in (-Halved(w))..Halved(w + 1),
           measured - base \in (-Halved(w))..Halved(w + 1)
    PROVE  /\ Smoothed(old, measured) \in Int
           /\ Smoothed(old, measured) - base \in (-Halved(w))..Halved(w + 1)
<1>0. w + 1 \in Nat
  OBVIOUS
<1>1. PICK h \in Nat : h = Halved(w)
  BY HalvedBounds
<1>2. PICK g \in Nat : g = Halved(w + 1)
  BY <1>0, HalvedBounds
<1>3. PICK lo \in Int : lo = base - h
  OBVIOUS
<1>4. PICK hi \in Int : hi = base + g
  OBVIOUS
<1>5. lo <= old /\ old <= hi /\ lo <= measured /\ measured <= hi
  BY <1>1, <1>2, <1>3, <1>4
<1>6. /\ 7 * old + measured \in Int
      /\ 8 * lo <= 7 * old + measured /\ 7 * old + measured <= 8 * hi
  BY <1>5
<1>7. PICK s \in Int : s = Smoothed(old, measured) /\ lo <= s /\ s <= hi
  BY <1>6, EighthBetween DEF Smoothed
<1>8. s - base \in (-h)..g
  BY <1>3, <1>4, <1>7
<1> QED
  BY <1>1, <1>2, <1>7, <1>8

(* A sample that is recorded or passed over keeps ClockInv.                 *)
LEMMA SampleStep ==
    ASSUME ClockInv, NEW r \in responses, PumpResponse(r)
    PROVE  ClockInv'
<1>1. /\ lastTick = now
      /\ responses' = responses \ {r}
      /\ RecordSample(r)
      /\ UNCHANGED <<now, serverTime, lastTick, nextSyncAt, requests>>
  BY DEF PumpResponse, serverVars
<1>2. PICK base \in Int : base = Ahead - Tick
  BY TimeSyncAssumption DEF Ahead
<1>3. /\ r.sent \in Nat /\ r.served \in Nat /\ now \in Nat
      /\ base + r.sent <= r.served /\ r.served <= base + now
  BY <1>2, TimeSyncAssumption
  DEF ClockInv, SyncTypes, MessagesAreOfThePast, Response, Ahead
<1>4. r.sent <= now
  BY <1>3
<1>5. PICK trip \in Nat : trip = MeasuredRtt(r.sent, now)
  BY <1>3, <1>4, MeasuredWithin
<1>6. PICK measured \in Int :
         /\ measured = MeasuredOffset(r.sent, r.served, now)
         /\ measured - base \in (-Halved(trip))..Halved(trip + 1)
  BY <1>3, <1>4, <1>5, MeasuredWithin
<1>7. /\ sampled' = TRUE
      /\ offset' = IF sampled THEN Smoothed(offset, measured) ELSE measured
      /\ worstRtt' = IF trip > worstRtt THEN trip ELSE worstRtt
  BY <1>1, <1>5, <1>6 DEF RecordSample
<1>8. worstRtt \in Nat /\ offset \in Int /\ sampled \in BOOLEAN
  BY DEF ClockInv, SyncTypes
<1>9. PICK w \in Nat : w = worstRtt' /\ worstRtt <= w /\ trip <= w
  BY <1>7, <1>8
<1>10. measured - base \in (-Halved(w))..Halved(w + 1)
  BY <1>6, <1>9, Widened
<1>11. sampled => offset - base \in (-Halved(w))..Halved(w + 1)
  <2> SUFFICES ASSUME sampled PROVE offset - base \in (-Halved(w))..Halved(w + 1)
    OBVIOUS
  <2>1. offset - base \in (-Halved(worstRtt))..Halved(worstRtt + 1)
    BY <1>2 DEF ClockInv, ClockErrorBounded
  <2> QED
    BY <1>8, <1>9, <2>1, Widened
<1>12. offset' \in Int /\ offset' - base \in (-Halved(w))..Halved(w + 1)
  <2>1. CASE ~sampled
    BY <1>7, <1>10, <2>1
  <2>2. CASE sampled
    <3>1. offset - base \in (-Halved(w))..Halved(w + 1)
      BY <1>11, <2>2
    <3>2. /\ Smoothed(offset, measured) \in Int
          /\ Smoothed(offset, measured) - base \in (-Halved(w))..Halved(w + 1)
      BY <1>8, <1>10, <3>1, SmoothedWithin
    <3> QED
      BY <1>7, <2>2, <3>2
  <2> QED
    BY <2>1, <2>2
<1>13. ClockErrorBounded'
  BY <1>2, <1>9, <1>12 DEF ClockErrorBounded, Halved, Ahead
<1>14. SyncTypes' /\ MessagesAreOfThePast'
  BY <1>1, <1>7, <1>9, <1>12 DEF ClockInv, SyncTypes, MessagesAreOfThePast, Ahead
<1> QED
  BY <1>13, <1>14 DEF ClockInv

(* Every step of clock and messages keeps ClockInv.                         *)
LEMMA ClockStep == ClockInv /\ [SyncNext]_syncVars => ClockInv'
<1> SUFFICES ASSUME ClockInv, [SyncNext]_syncVars PROVE ClockInv'
  OBVIOUS
<1> USE TimeSyncAssumption
<1>0. UNCHANGED clockVars => (ClockErrorBounded => ClockErrorBounded')
  BY DEF ClockErrorBounded, clockVars, Ahead, Halved
<1>1. CASE Advance
  <2>1. now' = now + 1 /\ UNCHANGED <<serverVars, lastTick, nextSyncAt, requests,
                                      responses, clockVars>>
    BY <1>1 DEF Advance
  <2>2. SyncTypes'
    BY <2>1 DEF ClockInv, SyncTypes, serverVars, clockVars
  <2>3. MessagesAreOfThePast'
    BY <2>1 DEF ClockInv, SyncTypes, MessagesAreOfThePast, Ahead, Response
  <2> QED
    BY <1>0, <2>1, <2>2, <2>3 DEF ClockInv
<1>2. CASE ServerTicks
  <2>1. PICK arrived \in SUBSET requests : \E answered \in SUBSET arrived :
           ServerTick(arrived, answered)
    BY <1>2 DEF ServerTicks
  <2>2. PICK answered \in SUBSET arrived : ServerTick(arrived, answered)
    BY <2>1
  <2>3. /\ Ahead + now = serverTime + Tick
        /\ requests' = requests \ arrived
        /\ responses' = responses \cup {Answer(sent) : sent \in answered}
        /\ serverTime' = serverTime + Tick
        /\ UNCHANGED <<now, lastTick, nextSyncAt, clockVars>>
    BY <2>2 DEF ServerTick, Due
  <2>4. ASSUME NEW sent \in answered
        PROVE  /\ Answer(sent) \in Response
               /\ Ahead + Answer(sent).sent <= Answer(sent).served + Tick
               /\ Answer(sent).served + Tick <= Ahead + now
    BY <2>3 DEF ClockInv, SyncTypes, MessagesAreOfThePast, Answer, Response, Ahead
  <2>5. SyncTypes'
    BY <2>3, <2>4 DEF ClockInv, SyncTypes, clockVars
  <2>6. MessagesAreOfThePast'
    BY <2>3, <2>4 DEF ClockInv, MessagesAreOfThePast, Ahead
  <2> QED
    BY <1>0, <2>3, <2>5, <2>6 DEF ClockInv
<1>3. CASE SessionTick
  <2>1. /\ lastTick' = now
        /\ \/ UNCHANGED nextSyncAt
           \/ nextSyncAt' = now + SyncInterval
        /\ requests' \subseteq requests \cup {now}
        /\ UNCHANGED <<now, serverVars, responses, clockVars>>
    BY <1>3 DEF SessionTick
  <2>2. SyncTypes'
    BY <2>1 DEF ClockInv, SyncTypes, serverVars, clockVars
  <2>3. MessagesAreOfThePast'
    BY <2>1 DEF ClockInv, SyncTypes, MessagesAreOfThePast, Ahead
  <2> QED
    BY <1>0, <2>1, <2>2, <2>3 DEF ClockInv
<1>4. CASE \E r \in responses : PumpResponse(r)
  BY <1>4, SampleStep
<1>5. CASE UNCHANGED syncVars
  BY <1>0, <1>5 DEF syncVars, serverVars, clockVars, ClockInv, SyncTypes,
                    MessagesAreOfThePast, Ahead
<1> QED
  BY <1>1, <1>2, <1>3, <1>4, <1>5 DEF SyncNext

(* ClockInv at the start.                                                   *)
LEMMA ClockInit == SyncInit => ClockInv
<1> SUFFICES ASSUME SyncInit PROVE ClockInv
  OBVIOUS
<1>1. SyncTypes
  <2>1. sampled \in BOOLEAN
    BY DEF SyncInit
  <2>2. /\ now \in Nat /\ serverTime \in Nat /\ lastTick \in Int /\ nextSyncAt \in Nat
        /\ offset \in Int /\ worstRtt \in Nat
    BY TimeSyncAssumption DEF SyncInit
  <2>3. requests = {} /\ responses = {}
    BY DEF SyncInit
  <2> QED
    BY <2>1, <2>2, <2>3 DEF SyncTypes
<1>2. MessagesAreOfThePast
  BY DEF SyncInit, MessagesAreOfThePast
<1>3. ClockErrorBounded
  BY DEF SyncInit, ClockErrorBounded
<1> QED
  BY <1>1, <1>2, <1>3 DEF ClockInv

(* Every step of the client and the server is a step of the clocks, or      *)
(* leaves them alone.                                                       *)
LEMMA PresentationStepsClocks == [Next]_vars => [SyncNext]_syncVars
BY DEF Next, vars, TimePasses, ServerStep, BeginFrame, TickFixed, EndFrame,
       PumpTimeSync, PumpSnapshot, SyncNext

(* NetworkClock's offset is the true one, less the tick the answer is       *)
(* behind, within half the worst round trip, whatever is lost, delayed or   *)
(* reordered and however RecordSample's divisions round.                    *)
THEOREM ClockCorrect == Spec => []ClockErrorBounded
<1>1. Init => ClockInv
  BY ClockInit DEF Init
<1>2. ClockInv => ClockErrorBounded
  BY DEF ClockInv
<1> QED
  BY <1>1, <1>2, ClockStep, PresentationStepsClocks, PTL DEF Spec

-----------------------------------------------------------------------------
(***************************************************************************)
(* The fixed steps.  Time reaches the simulation through the accumulator    *)
(* only, so what both hold is at most what had passed at the last frame.    *)
(***************************************************************************)
FrameTypes ==
    /\ now \in Nat /\ Start <= now /\ now <= MaxTime
    /\ lastFrame \in Nat /\ Start <= lastFrame /\ lastFrame <= now
    /\ running \in BOOLEAN
    /\ accumulator \in Nat /\ ticks \in 0..MaxTicks /\ simTime \in Nat

PaceInv ==
    /\ FrameTypes
    /\ simTime + accumulator <= lastFrame - Start
    /\ ~running => accumulator < Tick
    /\ accumulator <= MaxFrame + Tick

(* Every step keeps PaceInv: only frames move the accumulator.              *)
LEMMA PaceStep == PaceInv /\ [Next]_vars => PaceInv'
<1> SUFFICES ASSUME PaceInv, [Next]_vars PROVE PaceInv'
  OBVIOUS
<1> USE TimeSyncAssumption, PresentationAssumption
<1>1. CASE TimePasses
  <2>1. now' = now + 1 /\ now < MaxTime /\ UNCHANGED frameVars
    BY <1>1 DEF TimePasses, Advance
  <2> QED
    BY <2>1 DEF PaceInv, FrameTypes, frameVars
<1>2. CASE BeginFrame
  <2>1. PICK passed \in Nat : passed = Min({now - lastFrame, MaxFrame})
                              /\ passed <= now - lastFrame /\ passed <= MaxFrame
    <3>1. now - lastFrame \in Nat /\ now - lastFrame \in Int /\ MaxFrame \in Int
      BY DEF PaceInv, FrameTypes
    <3> QED
      BY <3>1, MinOfTwo
  <2>2. /\ ~running /\ running' = TRUE
        /\ accumulator' = accumulator + passed
        /\ ticks' = 0 /\ lastFrame' = now /\ simTime' = simTime /\ now' = now
    BY <1>2, <2>1 DEF BeginFrame, syncVars
  <2>3. /\ accumulator' \in Nat /\ accumulator' <= MaxFrame + Tick
        /\ simTime' + accumulator' <= lastFrame' - Start
    BY <2>1, <2>2 DEF PaceInv, FrameTypes
  <2>4. FrameTypes'
    BY <2>2, <2>3 DEF PaceInv, FrameTypes
  <2> QED
    BY <2>2, <2>3, <2>4 DEF PaceInv
<1>3. CASE TickFixed
  <2>1. /\ accumulator >= Tick /\ ticks < MaxTicks /\ running
        /\ simTime' = simTime + Tick /\ accumulator' = accumulator - Tick
        /\ ticks' = ticks + 1 /\ UNCHANGED <<running, lastFrame, now>>
    BY <1>3 DEF TickFixed, ShouldTick, SessionTick
  <2>2. FrameTypes'
    BY <2>1 DEF PaceInv, FrameTypes
  <2>3. /\ simTime' + accumulator' <= lastFrame' - Start
        /\ accumulator' <= MaxFrame + Tick
    BY <2>1 DEF PaceInv, FrameTypes
  <2> QED
    BY <2>1, <2>2, <2>3 DEF PaceInv
<1>4. CASE EndFrame
  <2>1. /\ ~(accumulator >= Tick /\ ticks < MaxTicks)
        /\ running' = FALSE
        /\ accumulator' = IF ticks >= MaxTicks /\ accumulator >= Tick
                          THEN 0 ELSE accumulator
        /\ UNCHANGED <<ticks, lastFrame, simTime, now>>
    BY <1>4 DEF EndFrame, ShouldTick, BacklogLeft, syncVars
  <2>2. /\ accumulator' \in Nat /\ accumulator' <= accumulator
        /\ accumulator' < Tick
    BY <2>1 DEF PaceInv, FrameTypes
  <2>3. FrameTypes'
    BY <2>1, <2>2 DEF PaceInv, FrameTypes
  <2> QED
    BY <2>1, <2>2, <2>3 DEF PaceInv, FrameTypes
<1>5. CASE UNCHANGED <<frameVars, now>>
  BY <1>5 DEF PaceInv, FrameTypes, frameVars
<1> QED
  BY <1>1, <1>2, <1>3, <1>4, <1>5
  DEF Next, vars, ServerStep, ServerTicks, ServerTick, PumpTimeSync, PumpResponse,
      PumpSnapshot, syncVars

(* PaceInv at the start.                                                    *)
LEMMA PaceInit == Init => PaceInv
<1> SUFFICES ASSUME Init PROVE PaceInv
  OBVIOUS
<1>1. now = Start /\ lastFrame = Start /\ accumulator = 0 /\ ticks = 0 /\ simTime = 0
  BY DEF Init, SyncInit
<1>2. running \in BOOLEAN
  BY DEF Init
<1> QED
  BY <1>1, <1>2, TimeSyncAssumption, PresentationAssumption DEF PaceInv, FrameTypes

(* FixedStepClock keeps pace: the client's simulation is never ahead of the *)
(* time that has passed and no frame leaves a whole step behind, for every  *)
(* step length, frame limit and number of steps a frame may run.            *)
THEOREM PaceCorrect == Spec => []FixedStepKeepsPace
<1>1. PaceInv => FixedStepKeepsPace
  BY TimeSyncAssumption DEF PaceInv, FrameTypes, FixedStepKeepsPace
<1> QED
  BY <1>1, PaceInit, PaceStep, PTL DEF Spec

-----------------------------------------------------------------------------
(***************************************************************************)
(* Type correctness.  The buffers stay within their limits.                 *)
(***************************************************************************)
BufferInv ==
    /\ history \in Seq(Nat) /\ Len(history) <= HistorySize
    /\ inFlight \subseteq Nat /\ IsFiniteSet(inFlight)
    /\ Cardinality(inFlight) <= MaxInFlight
    /\ buffer \in Seq(Nat) /\ Len(buffer) <= MaxSnapshots

(* Record keeps the history of snapshot times within its capacity.          *)
LEMMA RecordedType ==
    ASSUME NEW h \in Seq(Nat), Len(h) <= HistorySize, NEW t \in Nat
    PROVE  Recorded(h, t) \in Seq(Nat) /\ Len(Recorded(h, t)) <= HistorySize
BY TimeSyncAssumption DEF Recorded

(* PushSnapshot's buffer stays within its capacity.                         *)
LEMMA PushedType ==
    ASSUME NEW b \in Seq(Nat), Len(b) <= MaxSnapshots, NEW t \in Nat
    PROVE  Pushed(b, t) \in Seq(Nat) /\ Len(Pushed(b, t)) <= MaxSnapshots
BY PresentationAssumption DEF Pushed

(* Every step keeps BufferInv.                                              *)
LEMMA BufferStep == ClockInv /\ BufferInv /\ [Next]_vars => BufferInv'
<1> SUFFICES ASSUME ClockInv, BufferInv, [Next]_vars PROVE BufferInv'
  OBVIOUS
<1>1. CASE ServerStep
  <2>1. /\ serverTime' = serverTime + Tick
        /\ history' = Recorded(history, serverTime')
        /\ buffer' = buffer
    BY <1>1 DEF ServerStep, ServerTicks, ServerTick
  <2>2. serverTime' \in Nat
    BY <2>1, TimeSyncAssumption DEF ClockInv, SyncTypes
  <2>3. history' \in Seq(Nat) /\ Len(history') <= HistorySize
    BY <2>1, <2>2, RecordedType DEF BufferInv
  <2>4. CASE inFlight' = inFlight
    BY <2>1, <2>3, <2>4 DEF BufferInv
  <2>5. CASE /\ Cardinality(inFlight) < MaxInFlight
             /\ inFlight' = inFlight \cup {serverTime'}
    <3>1. /\ IsFiniteSet(inFlight')
          /\ Cardinality(inFlight') \in {Cardinality(inFlight), Cardinality(inFlight) + 1}
      BY <2>5, FS_AddElement DEF BufferInv
    <3>2. Cardinality(inFlight) \in Nat
      BY FS_CardinalityType DEF BufferInv
    <3>3. Cardinality(inFlight') <= MaxInFlight
      BY <2>5, <3>1, <3>2, PresentationAssumption
    <3> QED
      BY <2>1, <2>2, <2>3, <2>5, <3>1, <3>3 DEF BufferInv
  <2> QED
    BY <1>1, <2>4, <2>5 DEF ServerStep
<1>2. ASSUME NEW t \in inFlight, PumpSnapshot(t) PROVE BufferInv'
  <2>1. /\ inFlight' = inFlight \ {t} /\ buffer' = Pushed(buffer, t)
        /\ history' = history
    BY <1>2 DEF PumpSnapshot, syncVars, serverVars
  <2>2. t \in Nat
    BY DEF BufferInv
  <2>3. buffer' \in Seq(Nat) /\ Len(buffer') <= MaxSnapshots
    BY <2>1, <2>2, PushedType DEF BufferInv
  <2>4. IsFiniteSet(inFlight') /\ Cardinality(inFlight') = Cardinality(inFlight) - 1
    BY <2>1, FS_RemoveElement DEF BufferInv
  <2>5. Cardinality(inFlight) \in Nat
    BY FS_CardinalityType DEF BufferInv
  <2>6. Cardinality(inFlight') <= MaxInFlight
    BY <2>4, <2>5, PresentationAssumption DEF BufferInv
  <2> QED
    BY <2>1, <2>3, <2>4, <2>6 DEF BufferInv
<1>3. CASE UNCHANGED <<history, inFlight, buffer>>
  BY <1>3 DEF BufferInv
<1> QED
  BY <1>1, <1>2, <1>3
  DEF Next, vars, TimePasses, Advance, BeginFrame, TickFixed, SessionTick, EndFrame,
      PumpTimeSync, PumpResponse, syncVars, serverVars

(* BufferInv at the start.                                                  *)
LEMMA BufferInit == Init => BufferInv
BY FS_EmptySet, TimeSyncAssumption, PresentationAssumption
DEF Init, SyncInit, BufferInv

(* The client's clocks, frame loop and buffers are type correct, and the    *)
(* accumulator, the history and the interpolator's buffer keep their limits.*)
THEOREM TypeCorrect == Spec => []TypeOK
<1>1. Init => ClockInv
  BY ClockInit DEF Init
<1>2. ClockInv /\ PaceInv /\ BufferInv => TypeOK
  <2> SUFFICES ASSUME ClockInv, PaceInv, BufferInv PROVE TypeOK
    OBVIOUS
  <2>1. /\ now \in Start..MaxTime /\ lastFrame \in Start..now
        /\ accumulator \in 0..(MaxFrame + Tick) /\ ticks \in 0..MaxTicks
        /\ simTime \in Nat
    BY TimeSyncAssumption, PresentationAssumption DEF PaceInv, FrameTypes
  <2>2. running \in BOOLEAN
    BY DEF PaceInv, FrameTypes
  <2>3. /\ serverTime \in Nat /\ offset \in Int
        /\ requests \subseteq Nat /\ responses \subseteq Response
    BY DEF ClockInv, SyncTypes
  <2> QED
    BY <2>1, <2>2, <2>3 DEF BufferInv, TypeOK
<1> QED
  BY <1>1, <1>2, ClockStep, PresentationStepsClocks, PaceInit, PaceStep,
     BufferInit, BufferStep, PTL DEF Spec

-----------------------------------------------------------------------------
(***************************************************************************)
(* The rewind.  The history holds the last ticks without a gap, so the      *)
(* snapshot found is less than a tick before the time asked for, or the     *)
(* newest, which is less than a tick behind the real time.                  *)
(***************************************************************************)
ServerOnTime == Ahead + now <= serverTime + Tick

HistoryHasNoGap ==
    /\ \A i \in 1..Len(history) - 1 : history[i + 1] = history[i] + Tick
    /\ history # << >> =>
          /\ history[Len(history)] = serverTime
          /\ history[1] + (Len(history) - 1) * Tick = serverTime
    /\ Len(history) < HistorySize =>
          IF history = << >> THEN serverTime = ServerStart
                             ELSE history[1] = ServerStart + Tick

RewindInv == ServerOnTime /\ HistoryHasNoGap

(* A tick's snapshot, and the oldest dropped when there are too many.       *)
LEMMA HistoryStep ==
    ASSUME SyncTypes, history \in Seq(Nat), Len(history) <= HistorySize,
           HistoryHasNoGap,
           serverTime' = serverTime + Tick, history' = Recorded(history, serverTime')
    PROVE  HistoryHasNoGap'
<1> USE TimeSyncAssumption
<1> DEFINE longer == Append(history, serverTime')
           n == Len(history)
<1>1. /\ serverTime \in Nat /\ serverTime' \in Nat /\ n \in Nat
      /\ longer \in Seq(Nat) /\ Len(longer) = n + 1
      /\ \A i \in 1..n : longer[i] = history[i]
      /\ longer[n + 1] = serverTime + Tick
  BY DEF SyncTypes
<1>2. \A i \in 1..n : history[i] \in Nat
  OBVIOUS
<1>3. \A i \in 1..n : longer[i + 1] = longer[i] + Tick
  <2> SUFFICES ASSUME NEW i \in 1..n PROVE longer[i + 1] = longer[i] + Tick
    OBVIOUS
  <2>1. CASE i = n
    BY <1>1, <2>1 DEF HistoryHasNoGap
  <2>2. CASE i # n
    <3>1. i \in 1..n - 1 /\ i + 1 \in 1..n
      BY <1>1, <2>2
    <3> QED
      BY <1>1, <3>1 DEF HistoryHasNoGap
  <2> QED
    BY <2>1, <2>2
<1>4. longer[1] + n * Tick = serverTime + Tick
  <2>1. CASE history = << >>
    BY <1>1, <2>1
  <2>2. CASE history # << >>
    <3>1. n > 0 /\ longer[1] = history[1] /\ history[1] \in Nat
      BY <1>1, <1>2, <2>2
    <3>2. history[1] + (n - 1) * Tick = serverTime
      BY <2>2 DEF HistoryHasNoGap
    <3> HIDE DEF longer, n
    <3>3. PICK k \in Int : k = (n - 1) * Tick /\ n * Tick = k + Tick
      BY <1>1
    <3>4. history[1] + k = serverTime
      BY <3>2, <3>3
    <3>5. history[1] + (k + Tick) = serverTime + Tick
      BY <1>1, <3>1, <3>4
    <3> QED
      BY <3>1, <3>3, <3>5
  <2> QED
    BY <2>1, <2>2
<1> HIDE DEF longer, n
<1>5. CASE n + 1 <= HistorySize
  <2>1. history' = longer
    BY <1>1, <1>5 DEF Recorded, longer
  <2>2. longer # << >> /\ Len(longer) - 1 = n
    BY <1>1
  <2>3. n < HistorySize
    BY <1>1, <1>5
  <2>4. longer[1] = ServerStart + Tick
    <3>1. CASE history = << >>
      <4>1. n = 0
        BY <3>1 DEF n
      <4> QED
        BY <1>1, <2>3, <3>1, <4>1 DEF HistoryHasNoGap, n
    <3>2. CASE history # << >>
      <4>1. 1 \in 1..n
        BY <3>2 DEF n
      <4> QED
        BY <1>1, <2>3, <3>2, <4>1 DEF HistoryHasNoGap, n
    <3> QED
      BY <3>1, <3>2
  <2>5. \A i \in 1..Len(longer) - 1 : longer[i + 1] = longer[i] + Tick
    BY <1>3, <2>2
  <2>6. longer[Len(longer)] = serverTime'
    BY <1>1
  <2>7. longer[1] + (Len(longer) - 1) * Tick = serverTime'
    BY <1>1, <1>4, <2>2
  <2> QED
    BY <2>1, <2>2, <2>4, <2>5, <2>6, <2>7 DEF HistoryHasNoGap
<1>6. CASE ~(n + 1 <= HistorySize)
  <2>1. history' = Tail(longer)
    BY <1>1, <1>6 DEF Recorded, longer
  <2>2. n = HistorySize /\ n >= 1
    BY <1>1, <1>6 DEF n
  <2>3. /\ Len(Tail(longer)) = n /\ Tail(longer) # << >>
        /\ \A i \in 1..n : Tail(longer)[i] = longer[i + 1]
    BY <1>1, <2>2
  <2>4. \A i \in 1..n - 1 : Tail(longer)[i + 1] = Tail(longer)[i] + Tick
    <3> SUFFICES ASSUME NEW i \in 1..n - 1
                 PROVE  Tail(longer)[i + 1] = Tail(longer)[i] + Tick
      OBVIOUS
    <3>1. i \in 1..n /\ i + 1 \in 1..n
      BY <2>2, <1>1
    <3> QED
      BY <1>3, <2>3, <3>1
  <2>5. Tail(longer)[n] = serverTime'
    BY <1>1, <2>2, <2>3
  <2>6. Tail(longer)[1] + (n - 1) * Tick = serverTime'
    <3>1. 1 \in 1..n /\ longer[1] \in Nat
      BY <1>1, <2>2
    <3>2. Tail(longer)[1] = longer[1] + Tick
      BY <1>3, <2>3, <3>1
    <3>3. n * Tick = (n - 1) * Tick + Tick /\ (n - 1) * Tick \in Int
      BY <1>1
    <3> QED
      BY <1>1, <1>4, <3>1, <3>2, <3>3
  <2>7. ~(Len(history') < HistorySize)
    BY <2>1, <2>2, <2>3
  <2> QED
    BY <2>1, <2>3, <2>4, <2>5, <2>6, <2>7 DEF HistoryHasNoGap
<1> QED
  BY <1>1, <1>5, <1>6

LEMMA RewindStep == ClockInv /\ BufferInv /\ RewindInv /\ [Next]_vars => RewindInv'
<1> SUFFICES ASSUME ClockInv, BufferInv, RewindInv, [Next]_vars PROVE RewindInv'
  OBVIOUS
<1> USE TimeSyncAssumption
<1>1. CASE Advance
  <2>1. now' = now + 1 /\ serverTime' = serverTime /\ history' = history
        /\ Ahead + now # serverTime + Tick
    BY <1>1 DEF Advance, Due, serverVars
  <2>2. now \in Nat /\ serverTime \in Nat
    BY DEF ClockInv, SyncTypes
  <2> QED
    BY <2>1, <2>2 DEF RewindInv, ServerOnTime, Ahead, HistoryHasNoGap
<1>2. CASE ServerTicks
  <2>1. /\ Ahead + now = serverTime + Tick /\ now' = now
        /\ serverTime' = serverTime + Tick
        /\ history' = Recorded(history, serverTime')
    BY <1>2 DEF ServerTicks, ServerTick, Due
  <2>2. ServerOnTime'
    BY <2>1 DEF ServerOnTime, Ahead, ClockInv, SyncTypes
  <2>3. HistoryHasNoGap'
    BY <2>1, HistoryStep DEF ClockInv, BufferInv, RewindInv
  <2> QED
    BY <2>2, <2>3 DEF RewindInv
<1>3. CASE UNCHANGED <<now, serverTime, history>>
  BY <1>3 DEF RewindInv, ServerOnTime, Ahead, HistoryHasNoGap
<1> QED
  BY <1>1, <1>2, <1>3
  DEF Next, vars, TimePasses, ServerStep, BeginFrame, TickFixed, SessionTick, EndFrame,
      PumpTimeSync, PumpResponse, PumpSnapshot, syncVars, serverVars

LEMMA RewindInit == Init => RewindInv
BY TimeSyncAssumption
DEF Init, SyncInit, RewindInv, ServerOnTime, HistoryHasNoGap, Ahead

(* ClosestAtOrBefore finds the last snapshot not after the time, if any.    *)
LEMMA ClosestIsLastBefore ==
    ASSUME NEW h \in Seq(Nat), NEW time \in Int
    PROVE  \/ /\ ClosestAtOrBefore(h, time) = -1
              /\ \A i \in 1..Len(h) : ~(h[i] <= time)
           \/ \E i \in 1..Len(h) :
                /\ ClosestAtOrBefore(h, time) = h[i] /\ h[i] <= time
                /\ \A j \in 1..Len(h) : h[j] <= time => j <= i
<1> DEFINE before == {i \in DOMAIN h : h[i] <= time}
<1>1. before \subseteq 0..Len(h) /\ DOMAIN h = 1..Len(h) /\ Len(h) \in Nat
  OBVIOUS
<1>2. CASE before = {}
  BY <1>1, <1>2 DEF ClosestAtOrBefore
<1>3. CASE before # {}
  <2> DEFINE last == CHOOSE i \in before : \A j \in before : j <= i
  <2>1. \E i \in before : \A j \in before : j <= i
    <3> HIDE DEF before
    <3> QED
      BY <1>1, <1>3, GreatestNumber
  <2>2. last \in before /\ \A j \in before : j <= last
    BY <2>1
  <2>3. ClosestAtOrBefore(h, time) = h[last]
    BY <1>3 DEF ClosestAtOrBefore
  <2> HIDE DEF last
  <2> QED
    BY <1>1, <2>2, <2>3
<1> QED
  BY <1>2, <1>3

(* What is at or before a mapped time is not much later than the time meant. *)
LEMMA NotMuchLater ==
    ASSUME NEW f \in Nat, NEW target \in Nat, NEW mapped \in Int, NEW meant \in Nat,
           NEW high \in Nat, NEW tick \in Nat,
           f <= target, target = 0 \/ target = mapped, mapped <= meant - tick + high
    PROVE  f <= meant + high + tick
<1>1. CASE target = 0
  BY <1>1
<1>2. CASE target = mapped
  BY <1>2
<1> QED
  BY <1>1, <1>2

(* With a history that reaches back as far as the service looks, what it    *)
(* finds is close.                                                          *)
LEMMA RewindClose ==
    ASSUME (HistorySize - 1) * Tick >= MaxRewind, ClockInv, BufferInv, RewindInv
    PROVE  RewindIsClose
<1> USE TimeSyncAssumption
<1> SUFFICES ASSUME sampled, NEW local \in Start..now
             PROVE  LET target == EstimateServerTime(local, offset)
                        found == Query(history, target)
                    IN  /\ found # Refused =>
                              found - (Ahead + local) \in (-(MaxError + Tick))..MaxError
                        /\ /\ ServerStart + Tick <= target /\ target <= serverTime
                           /\ serverTime - target <= MaxRewind
                           => found # Refused
  BY DEF RewindIsClose
<1> DEFINE target == EstimateServerTime(local, offset)
           found == Query(history, target)
<1>1. /\ now \in Nat /\ serverTime \in Nat /\ offset \in Int /\ worstRtt \in Nat
      /\ history \in Seq(Nat) /\ Len(history) <= HistorySize
      /\ local \in Nat /\ local <= now /\ Start <= local
  BY DEF ClockInv, SyncTypes, BufferInv
<1>2. PICK low \in Nat, high \in Nat :
         /\ low = Halved(worstRtt) /\ high = Halved(worstRtt + 1) /\ low <= high
  <2>1. worstRtt + 1 \in Nat /\ worstRtt <= worstRtt + 1
    BY <1>1
  <2> QED
    BY <1>1, <2>1, HalvedBounds, HalvedMonotonic
<1>3. PICK meant \in Nat : meant = Ahead + local
  BY <1>1 DEF Ahead
<1>4. PICK mapped \in Int : /\ mapped = local + offset
                            /\ meant - Tick - low <= mapped
                            /\ mapped <= meant - Tick + high
  <2>1. offset - (Ahead - Tick) \in (-low)..high
    BY <1>2 DEF ClockInv, ClockErrorBounded
  <2> QED
    BY <1>1, <1>2, <1>3, <2>1 DEF Ahead
<1>5. target \in Nat /\ mapped <= target /\ (target = 0 \/ target = mapped)
  BY <1>4 DEF EstimateServerTime
<1>6. meant - Tick <= serverTime
  BY <1>1, <1>3 DEF RewindInv, ServerOnTime, Ahead
<1>7. MaxError = high + Tick
  BY <1>2 DEF MaxError
<1> HIDE DEF target
<1>8. ASSUME found # Refused
      PROVE  found - meant \in (-(MaxError + Tick))..MaxError
  <2>1. found = ClosestAtOrBefore(history, target) /\ found # -1
    BY <1>8 DEF Query, Refused
  <2>2. PICK i \in 1..Len(history) :
           /\ found = history[i] /\ history[i] <= target
           /\ \A j \in 1..Len(history) : history[j] <= target => j <= i
    BY <1>1, <1>5, <2>1, ClosestIsLastBefore
  <2>3. history[i] \in Nat
    BY <1>1
  <2>4. history[i] = serverTime \/ target < history[i] + Tick
    <3>1. CASE i = Len(history)
      BY <1>1, <3>1 DEF RewindInv, HistoryHasNoGap
    <3>2. CASE i # Len(history)
      <4>1. i \in 1..Len(history) - 1 /\ i + 1 \in 1..Len(history) /\ ~(i + 1 <= i)
        BY <1>1, <3>2
      <4>2. history[i + 1] = history[i] + Tick /\ ~(history[i + 1] <= target)
        BY <2>2, <4>1 DEF RewindInv, HistoryHasNoGap
      <4> QED
        BY <1>5, <2>3, <4>2
    <3> QED
      BY <3>1, <3>2
  <2> HIDE DEF found
  <2>5. PICK f \in Nat : f = found /\ f <= target /\ (f = serverTime \/ target < f + Tick)
    BY <2>2, <2>3, <2>4
  <2>6. meant - (low + Tick + Tick) <= f
    <3>1. serverTime \in Nat /\ Tick \in Nat
      BY <1>1
    <3>2. CASE f = serverTime
      BY <1>6, <3>1, <3>2
    <3>3. CASE target < f + Tick
      BY <1>4, <1>5, <3>1, <3>3
    <3> QED
      BY <2>5, <3>2, <3>3
  <2>7. f <= meant + high + Tick
    <3>1. Tick \in Nat
      OBVIOUS
    <3> QED
      BY <1>4, <1>5, <2>5, <3>1, NotMuchLater
  <2>8. f - meant \in (-(high + Tick + Tick))..(high + Tick)
    <3>1. low <= high /\ Tick \in Nat
      BY <1>2
    <3> QED
      BY <2>6, <2>7, <3>1
  <2> QED
    BY <1>7, <2>5, <2>8
<1>9. ASSUME ServerStart + Tick <= target, target <= serverTime,
             serverTime - target <= MaxRewind
      PROVE  found # Refused
  <2>1. found = ClosestAtOrBefore(history, target)
    <3>1. ~(target > serverTime + FutureTolerance) /\ ~(serverTime - target > MaxRewind)
      BY <1>1, <1>5, <1>9
    <3> QED
      BY <3>1 DEF Query
  <2>2. 1 \in 1..Len(history) /\ history[1] <= target
    <3>1. CASE Len(history) < HistorySize
      <4>1. history # << >>
        BY <1>1, <1>5, <1>9, <3>1 DEF RewindInv, HistoryHasNoGap
      <4> QED
        BY <1>1, <1>9, <3>1, <4>1 DEF RewindInv, HistoryHasNoGap
    <3>2. CASE Len(history) = HistorySize
      <4>1. history # << >> /\ history[1] \in Nat
        BY <1>1, <3>2
      <4>2. history[1] + (HistorySize - 1) * Tick = serverTime
        BY <3>2, <4>1 DEF RewindInv, HistoryHasNoGap
      <4>3. PICK reach \in Int : reach = (HistorySize - 1) * Tick /\ reach >= MaxRewind
        OBVIOUS
      <4>4. history[1] + reach = serverTime
        BY <4>2, <4>3
      <4> QED
        BY <1>1, <1>5, <1>9, <4>1, <4>3, <4>4
    <3> QED
      BY <1>1, <3>1, <3>2
  <2>3. found \in Nat
    BY <1>1, <1>5, <2>1, <2>2, ClosestIsLastBefore
  <2> QED
    BY <2>3 DEF Refused
<1> QED
  BY <1>3, <1>8, <1>9 DEF target

(* When the history reaches back as far as the service looks, as 128 ticks  *)
(* do, LagCompensationService answers within that reach, and what it finds  *)
(* is of the time the client meant, within the clock's error and a tick.    *)
THEOREM RewindCorrect ==
    (HistorySize - 1) * Tick >= MaxRewind => (Spec => []RewindIsClose)
<1> SUFFICES ASSUME (HistorySize - 1) * Tick >= MaxRewind PROVE Spec => []RewindIsClose
  OBVIOUS
<1>1. Init => ClockInv
  BY ClockInit DEF Init
<1>2. ClockInv /\ BufferInv /\ RewindInv => RewindIsClose
  BY RewindClose
<1> QED
  BY <1>1, <1>2, ClockStep, PresentationStepsClocks, BufferInit, BufferStep,
     RewindInit, RewindStep, PTL DEF Spec

-----------------------------------------------------------------------------
(***************************************************************************)
(* The interpolator.  What Sample draws follows from how it chooses its two *)
(* snapshots and rounds its weight, for any buffer, in order or not.        *)
(***************************************************************************)

(* The snapshot drawn towards is in the buffer; when the one drawn from is  *)
(* another, the render time lies between the two.                           *)
LEMMA SnapshotsDrawn ==
    ASSUME NEW b \in Seq(Nat), b # << >>, NEW render \in Nat
    PROVE  /\ To(b, render) \in 1..Len(b) /\ From(b, render) \in 1..Len(b)
           /\ From(b, render) # To(b, render) =>
                 b[From(b, render)] <= render /\ render < b[To(b, render)]
<1> DEFINE later == {i \in DOMAIN b : b[i] > render}
<1>1. later \subseteq Nat /\ later \subseteq 1..Len(b) /\ DOMAIN b = 1..Len(b)
  OBVIOUS
<1>2. CASE later = {}
  <2>1. To(b, render) = Len(b) /\ Len(b) \in 1..Len(b)
    BY <1>2 DEF To
  <2>2. From(b, render) = To(b, render)
    BY <1>1, <1>2, <2>1 DEF From
  <2> QED
    BY <2>1, <2>2
<1>3. CASE later # {}
  <2>1. To(b, render) = Min(later)
    BY <1>3 DEF To
  <2> HIDE DEF later
  <2>2. \E x \in later : \A y \in later : x <= y
    BY <1>1, <1>3, LeastNumber
  <2>3. Min(later) \in later /\ \A y \in later : Min(later) <= y
    BY <2>2 DEF Min
  <2>4. PICK t \in 1..Len(b) : t = To(b, render) /\ t \in later /\ \A y \in later : t <= y
    BY <1>1, <2>1, <2>3
  <2>5. b[t] > render /\ b[t] \in Nat
    BY <2>4 DEF later
  <2>6. CASE t > 1
    <3>1. From(b, render) = t - 1 /\ t - 1 \in 1..Len(b) /\ ~(t <= t - 1)
      BY <2>4, <2>5, <2>6 DEF From
    <3>2. t - 1 \notin later
      BY <2>4, <3>1
    <3>3. b[t - 1] <= render
      BY <1>1, <3>1, <3>2 DEF later
    <3> QED
      BY <2>4, <2>5, <3>1, <3>3
  <2>7. CASE ~(t > 1)
    BY <2>4, <2>7 DEF From
  <2> QED
    BY <2>6, <2>7
<1> QED
  BY <1>2, <1>3

(* Drawn a permille of the way, rounded down, between two places a walker   *)
(* was at: at most a thousandth of the way and one short of where it was.   *)
DrawnShort(from, to, render, drawn) ==
    1000 * (Speed * render - drawn) \in 0..(Speed * (to - from) + 999)

LEMMA LerpShort ==
    ASSUME NEW from \in Nat, NEW to \in Nat, NEW render \in Nat,
           from <= render, render < to
    PROVE  DrawnShort(from, to, render,
               Lerp(Speed * from, Speed * to, AlphaPermille(from, to, render)))
<1>1. PICK span \in Nat : span = to - from /\ span > 0
  OBVIOUS
<1>2. PICK gone \in Nat : gone = render - from /\ gone < span
  BY <1>1
<1>3. PICK a \in Nat : /\ a = (gone * 1000) \div span
                       /\ span * a <= gone * 1000 /\ gone * 1000 < span * a + span
  BY <1>1
<1>4. a <= 1000
  <2> SUFFICES ASSUME a >= 1001 PROVE FALSE
    BY <1>3
  <2>1. span * a >= span * 1001
    BY <1>1, <1>3
  <2> QED
    BY <1>1, <1>2, <1>3, <2>1
<1>5. AlphaPermille(from, to, render) = a
  <2>1. (IF render > from THEN render - from ELSE 0) = gone
    BY <1>2
  <2>2. AlphaPermille(from, to, render) = Min({a, 1000})
    BY <1>1, <1>3, <2>1 DEF AlphaPermille
  <2>3. /\ Min({a, 1000}) = a \/ Min({a, 1000}) = 1000
        /\ Min({a, 1000}) <= a
    <3>1. a \in Int /\ 1000 \in Int
      BY <1>3
    <3> QED
      BY <3>1, MinOfTwo
  <2> QED
    BY <1>3, <1>4, <2>2, <2>3
<1>6. PICK way \in Nat : way = Speed * span /\ Speed * to - Speed * from = way
  BY <1>1, PresentationAssumption
<1>7. PICK walked \in Nat : walked = Speed * gone /\ Speed * render = Speed * from + walked
  BY <1>2, PresentationAssumption
<1>8. PICK part \in Nat : part = way * a
  BY <1>3, <1>6
<1>9. part <= 1000 * walked /\ 1000 * walked <= part + way
  <2>1. part = Speed * (span * a) /\ 1000 * walked = Speed * (gone * 1000)
    BY <1>1, <1>2, <1>3, <1>6, <1>7, <1>8, PresentationAssumption
  <2>2. Speed * (span * a) <= Speed * (gone * 1000)
    BY <1>1, <1>2, <1>3, PresentationAssumption
  <2>3. Speed * (gone * 1000) <= Speed * (span * a + span)
    BY <1>1, <1>2, <1>3, PresentationAssumption
  <2>4. Speed * (span * a + span) = part + way
    BY <1>1, <1>3, <1>6, <2>1, PresentationAssumption
  <2> QED
    BY <2>1, <2>2, <2>3, <2>4
<1>10. PICK q \in Nat : q = part \div 1000 /\ 1000 * q <= part /\ part <= 1000 * q + 999
  BY <1>8
<1>11. Lerp(Speed * from, Speed * to, AlphaPermille(from, to, render)) = Speed * from + q
  BY <1>5, <1>6, <1>8, <1>10 DEF Lerp
<1>12. Speed * render - (Speed * from + q) = walked - q
  BY <1>7, <1>10, PresentationAssumption
<1>13. 1000 * (walked - q) \in 0..(way + 999)
  BY <1>9, <1>10
<1>14. Speed * (to - from) = way
  BY <1>1, <1>6
<1> QED
  BY <1>11, <1>12, <1>13, <1>14 DEF DrawnShort

(* PresentationInterpolator draws a remote entity where it was, but for the *)
(* rounding, whenever it has snapshots from before and after that time, in  *)
(* whatever order they arrived and however few the buffer keeps.            *)
THEOREM RemoteIsDrawn == Spec => []RemoteIsDrawnWhereItWas
<1>1. PaceInv /\ BufferInv => RemoteIsDrawnWhereItWas
  <2> SUFFICES ASSUME PaceInv, BufferInv, buffer # << >>
               PROVE  RemoteIsDrawnWhereItWas
    BY DEF RemoteIsDrawnWhereItWas
  <2> DEFINE render == RenderTime(simTime)
             from == From(buffer, render)
             to == To(buffer, render)
  <2>1. render \in Nat
    BY PresentationAssumption DEF RenderTime, PaceInv, FrameTypes
  <2>2. /\ buffer \in Seq(Nat)
        /\ to \in 1..Len(buffer) /\ from \in 1..Len(buffer)
        /\ from # to => buffer[from] <= render /\ render < buffer[to]
    BY <2>1, SnapshotsDrawn DEF BufferInv
  <2>3. DrawnAt(buffer, simTime) =
          Lerp(Speed * buffer[from], Speed * buffer[to],
               AlphaPermille(buffer[from], buffer[to], render))
    BY DEF DrawnAt
  <2> HIDE DEF render, from, to
  <2>4. buffer[from] \in Nat /\ buffer[to] \in Nat
    BY <2>2
  <2>5. ASSUME from # to
        PROVE  1000 * (Speed * render - DrawnAt(buffer, simTime))
                  \in 0..(Speed * (buffer[to] - buffer[from]) + 999)
    <3>1. PICK f \in Nat, g \in Nat, r \in Nat :
             f = buffer[from] /\ g = buffer[to] /\ r = render /\ f <= r /\ r < g
      BY <2>1, <2>2, <2>4, <2>5
    <3>2. DrawnShort(f, g, r, Lerp(Speed * f, Speed * g, AlphaPermille(f, g, r)))
      BY <3>1, LerpShort
    <3>3. DrawnAt(buffer, simTime) = Lerp(Speed * f, Speed * g, AlphaPermille(f, g, r))
      BY <2>3, <3>1
    <3> QED
      BY <3>1, <3>2, <3>3 DEF DrawnShort
  <2>6. ASSUME from = to
        PROVE  \E i \in DOMAIN buffer : DrawnAt(buffer, simTime) = Speed * buffer[i]
    <3>1. AlphaPermille(buffer[from], buffer[to], render) = 0
      BY <2>4, <2>6 DEF AlphaPermille
    <3>2. DrawnAt(buffer, simTime) = Speed * buffer[to]
      BY <2>3, <2>4, <2>6, <3>1, PresentationAssumption DEF Lerp
    <3> QED
      BY <2>2, <3>2
  <2> QED
    BY <2>5, <2>6 DEF RemoteIsDrawnWhereItWas, render, from, to
<1>2. Init => ClockInv
  BY ClockInit DEF Init
<1> QED
  BY <1>1, <1>2, ClockStep, PresentationStepsClocks, PaceInit, PaceStep,
     BufferInit, BufferStep, PTL DEF Spec
=============================================================================
