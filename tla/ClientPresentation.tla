------------------------- MODULE ClientPresentation -------------------------
(***************************************************************************)
(* What a client draws of a remote entity, and when: RaylibClientHost's     *)
(* RunFrame with its FixedStepClock, the client's simulation time, the      *)
(* buffer of PresentationInterpolator and the sample that                   *)
(* BuildClientViewFrame takes of it, beside the clocks of module TimeSync.  *)
(* A snapshot is its server time; the entity walks at a constant Speed, so  *)
(* that where it is tells when it was there.  Seconds are counted in whole  *)
(* milliseconds.                                                            *)
(***************************************************************************)
EXTENDS TimeSync, FiniteSets, FiniteSetsExt

CONSTANTS
    MaxFrame,           \* maxFrameSeconds
    MaxTicks,           \* maxTicksPerFrame
    InterpolationDelay, \* interpolationDelayMs
    MaxSnapshots,       \* PresentationInterpolationConfig::maxSnapshots
    MaxInFlight,        \* bound: snapshots in flight
    Speed               \* of the remote entity

ASSUME PresentationAssumption ==
    /\ MaxFrame \in Nat /\ MaxTicks \in Nat \ {0} /\ InterpolationDelay \in Nat
    /\ MaxSnapshots \in Nat \ {0} /\ MaxInFlight \in Nat /\ Speed \in Nat

VARIABLES
    running,     \* RunFrame is in its loop
    accumulator, \* accumulatorSeconds_
    ticks,       \* ticksConsumedThisFrame_
    lastFrame,   \* local time of the last frame
    simTime,     \* the client simulation's timeMs_
    inFlight,    \* snapshots in flight
    buffer       \* PresentationInterpolator::snapshots_

frameVars == <<running, accumulator, ticks, lastFrame, simTime>>
vars == <<syncVars, frameVars, inFlight, buffer>>

(* Types of the clock's, the frame's and the interpolator's state; the      *)
(* histories stay within their capacities.                                  *)
TypeOK ==
    /\ now \in Start..MaxTime /\ serverTime \in Nat /\ offset \in Int
    /\ requests \subseteq Nat /\ responses \subseteq Response
    /\ Len(history) <= HistorySize
    /\ running \in BOOLEAN
    /\ accumulator \in 0..(MaxFrame + Tick) /\ ticks \in 0..MaxTicks
    /\ lastFrame \in Start..now /\ simTime \in Nat
    /\ inFlight \subseteq Nat /\ Cardinality(inFlight) <= MaxInFlight
    /\ buffer \in Seq(Nat) /\ Len(buffer) <= MaxSnapshots

Init ==
    /\ SyncInit
    /\ running = FALSE /\ accumulator = 0 /\ ticks = 0 /\ lastFrame = Start
    /\ simTime = 0
    /\ inFlight = {} /\ buffer = << >>

-----------------------------------------------------------------------------
(* Time passes between frames.                                              *)
TimePasses ==
    /\ ~running
    /\ Advance
    /\ UNCHANGED <<frameVars, inFlight, buffer>>

(* The server's tick, after which it may send a snapshot that is not lost.  *)
ServerStep ==
    /\ ServerTicks
    /\ \/ UNCHANGED inFlight
       \/ /\ Cardinality(inFlight) < MaxInFlight
          /\ inFlight' = inFlight \cup {serverTime'}
    /\ UNCHANGED <<frameVars, buffer>>

(* FixedStepClock::BeginFrame, with the time since the last frame.          *)
BeginFrame ==
    /\ ~running
    /\ running' = TRUE
    /\ accumulator' = accumulator + Min({now - lastFrame, MaxFrame})
    /\ ticks' = 0
    /\ lastFrame' = now
    /\ UNCHANGED <<syncVars, simTime, inFlight, buffer>>

ShouldTick == accumulator >= Tick /\ ticks < MaxTicks

(* One pass of RunFrame's loop up to the pump.                              *)
TickFixed ==
    /\ running /\ ShouldTick
    /\ simTime' = simTime + Tick
    /\ SessionTick
    /\ accumulator' = accumulator - Tick
    /\ ticks' = ticks + 1
    /\ UNCHANGED <<running, lastFrame, inFlight, buffer>>

(* The pump of the tick that has just run.                                  *)
PumpTimeSync(r) ==
    /\ running /\ ticks > 0
    /\ PumpResponse(r)
    /\ UNCHANGED <<frameVars, inFlight, buffer>>

(* Mutant: the buffer is never trimmed.                                     *)
PushedUntrimmed(b, t) == Append(b, t)

Pushed(b, t) ==
    LET longer == Append(b, t)
    IN  IF Len(longer) > MaxSnapshots THEN Tail(longer) ELSE longer

PumpSnapshot(t) ==
    /\ running /\ ticks > 0
    /\ t \in inFlight
    /\ inFlight' = inFlight \ {t}
    /\ buffer' = Pushed(buffer, t)
    /\ UNCHANGED <<syncVars, frameVars>>

(* Mutant: the backlog is kept for the next frame.                          *)
BacklogKept == accumulator

(* FixedStepClock::EndFrame: a backlog the frame could not run is dropped.  *)
BacklogLeft ==
    IF ticks >= MaxTicks /\ accumulator >= Tick THEN 0 ELSE accumulator

EndFrame ==
    /\ running /\ ~ShouldTick
    /\ running' = FALSE
    /\ accumulator' = BacklogLeft
    /\ UNCHANGED <<syncVars, ticks, lastFrame, simTime, inFlight, buffer>>

Next ==
    \/ TimePasses \/ ServerStep \/ BeginFrame \/ TickFixed \/ EndFrame
    \/ \E r \in responses : PumpTimeSync(r)
    \/ \E t \in inFlight : PumpSnapshot(t)

Spec == Init /\ [][Next]_vars

-----------------------------------------------------------------------------
(* PresentationInterpolator::Sample of a buffer that is not empty.          *)
RenderTime(time) == IF time > InterpolationDelay THEN time - InterpolationDelay ELSE 0

(* The first snapshot, in the order of arrival, that is after the render    *)
(* time is the one drawn towards; the one before it is drawn from.          *)
To(b, render) ==
    LET later == {i \in DOMAIN b : b[i] > render}
    IN  IF later = {} THEN Len(b) ELSE Min(later)

From(b, render) ==
    IF b[To(b, render)] > render /\ To(b, render) > 1 THEN To(b, render) - 1
                                                      ELSE To(b, render)

AlphaPermille(from, to, render) ==
    IF to > from
    THEN Min({((IF render > from THEN render - from ELSE 0) * 1000) \div (to - from), 1000})
    ELSE 0

(* Mutant: the weight is taken from the other end.                          *)
LerpReversed(from, to, alpha) == to - ((to - from) * alpha) \div 1000

Lerp(from, to, alpha) == from + ((to - from) * alpha) \div 1000

(* Where BuildClientViewFrame draws the remote entity: it samples at the    *)
(* client simulation's time.                                                *)
DrawnAt(b, time) ==
    LET render == RenderTime(time)
        from == b[From(b, render)]
        to == b[To(b, render)]
    IN  Lerp(Speed * from, Speed * to, AlphaPermille(from, to, render))

-----------------------------------------------------------------------------
(* The fixed steps keep pace with real time: the client's simulation is     *)
(* never ahead of the time that has passed, and no frame leaves a whole     *)
(* step behind, however long frames take (FixedStepClock).                  *)
FixedStepKeepsPace ==
    /\ simTime + accumulator <= now - Start
    /\ ~running => accumulator < Tick

(* While snapshots on both sides of the render time are buffered, whatever  *)
(* order they came in, the remote entity is drawn where it was at that      *)
(* time, but for the rounding: of the weight, to a thousandth of the way    *)
(* between the two, and of the place.  Otherwise it is drawn at a place     *)
(* some snapshot has it.                                                    *)
RemoteIsDrawnWhereItWas ==
    buffer # << >> =>
        LET render == RenderTime(simTime)
            drawn == DrawnAt(buffer, simTime)
            from == From(buffer, render)
            to == To(buffer, render)
        IN  IF from # to
            THEN 1000 * (Speed * render - drawn)
                    \in 0..(Speed * (buffer[to] - buffer[from]) + 999)
            ELSE \E i \in DOMAIN buffer : drawn = Speed * buffer[i]

(* "`NetworkClock` maps local render time to server time": a frame is drawn *)
(* at the server time the clock gives, less the interpolation delay.        *)
RenderTimeFollowsServer ==
    sampled /\ ~running /\ buffer # << >> =>
        RenderTime(simTime) - RenderTime(EstimateServerTime(now, offset))
            \in (-(MaxError + Tick))..(MaxError + Tick)
=============================================================================
