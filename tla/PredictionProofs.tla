-------------------------- MODULE PredictionProofs --------------------------
(***************************************************************************)
(* Proofs about Prediction, for every number of inputs and of snapshots in  *)
(* flight.                                                                  *)
(***************************************************************************)
EXTENDS Prediction, NumberLemmas, TLAPS

(***************************************************************************)
(* What AcknowledgeThrough returns, by induction along the history.         *)
(***************************************************************************)

Increasing(s) == \A i, j \in 1..Len(s) : i < j => s[i] < s[j]

LEMMA InputsAreNaturals == InputSequence \subseteq Nat
BY PredictionAssumption DEF InputSequence

LEMMA MembersAreInputs ==
    ASSUME NEW s \in Seq(InputSequence), NEW n \in Members(s)
    PROVE  n \in InputSequence /\ n \in Nat
<1>1. n \in InputSequence
  BY DEF Members
<1> QED
  BY <1>1, InputsAreNaturals

LEMMA AppendMembers ==
    ASSUME NEW S, NEW s \in Seq(S), NEW n \in S
    PROVE  Append(s, n) \in Seq(S) /\ Members(Append(s, n)) = Members(s) \cup {n}
BY DEF Members

(* Appending a number above all of an increasing sequence.                  *)
LEMMA AppendIncreases ==
    ASSUME NEW s \in Seq(InputSequence), NEW n \in InputSequence, Increasing(s),
           \A m \in Members(s) : m < n
    PROVE  Increasing(Append(s, n))
<1> SUFFICES ASSUME NEW i \in 1..Len(s) + 1, NEW j \in 1..Len(s) + 1, i < j
             PROVE  Append(s, n)[i] < Append(s, n)[j]
  BY DEF Increasing
<1>1. i \in 1..Len(s) /\ Append(s, n)[i] = s[i] /\ s[i] \in Members(s)
  BY DEF Members
<1>2. CASE j = Len(s) + 1
  BY <1>1, <1>2
<1>3. CASE j \in 1..Len(s)
  BY <1>1, <1>3 DEF Increasing
<1> QED
  BY <1>2, <1>3

(* Replaying a batch that lies above the position.                          *)
LEMMA ReplayedInOrder ==
    ASSUME NEW s \in Seq(InputSequence), NEW b \in Seq(InputSequence),
           Increasing(s), Increasing(b),
           \A m \in Members(s), n \in Members(b) : m < n
    PROVE  /\ Replayed(s, b) \in Seq(InputSequence)
           /\ Members(Replayed(s, b)) = Members(s) \cup Members(b)
           /\ Increasing(Replayed(s, b))
<1> DEFINE r == s \o b
<1>1. /\ r \in Seq(InputSequence) /\ Len(r) = Len(s) + Len(b)
      /\ \A i \in 1..Len(s) : r[i] = s[i]
      /\ \A i \in 1..Len(b) : r[Len(s) + i] = b[i]
  OBVIOUS
<1>2. \A i \in 1..Len(r) : \/ i \in 1..Len(s) /\ r[i] = s[i]
                           \/ i - Len(s) \in 1..Len(b) /\ r[i] = b[i - Len(s)]
  OBVIOUS
<1> HIDE DEF r
<1>3. Members(r) \subseteq Members(s) \cup Members(b)
  BY <1>2 DEF Members
<1>4. Members(s) \subseteq Members(r)
  BY <1>1 DEF Members
<1>5. Members(b) \subseteq Members(r)
  <2> SUFFICES ASSUME NEW i \in 1..Len(b) PROVE b[i] \in Members(r)
    BY DEF Members
  <2>1. Len(s) + i \in 1..Len(r) /\ r[Len(s) + i] = b[i]
    BY <1>1
  <2> QED
    BY <2>1 DEF Members
<1>6. Increasing(r)
  <2> SUFFICES ASSUME NEW i \in 1..Len(r), NEW j \in 1..Len(r), i < j
               PROVE  r[i] < r[j]
    BY DEF Increasing
  <2>1. CASE i \in 1..Len(s) /\ j \in 1..Len(s)
    BY <1>1, <2>1 DEF Increasing
  <2>2. CASE i \in 1..Len(s) /\ j \notin 1..Len(s)
    <3>1. r[i] \in Members(s) /\ r[j] \in Members(b)
      BY <1>2, <2>2 DEF Members
    <3> QED
      BY <3>1
  <2>3. CASE i \notin 1..Len(s)
    <3>1. j \notin 1..Len(s)
      BY <2>3
    <3>2. /\ i - Len(s) \in 1..Len(b) /\ r[i] = b[i - Len(s)]
          /\ j - Len(s) \in 1..Len(b) /\ r[j] = b[j - Len(s)]
      BY <1>2, <2>3, <3>1
    <3>3. i - Len(s) < j - Len(s)
      BY <1>1
    <3> QED
      BY <3>2, <3>3 DEF Increasing
  <2> QED
    BY <2>1, <2>2, <2>3
<1> QED
  BY <1>1, <1>3, <1>4, <1>5, <1>6 DEF r, Replayed

(* The tick moves the position by the last of a batch that lies above it.   *)
LEMMA MovedInOrder ==
    ASSUME NEW s \in Seq(InputSequence), NEW b \in Seq(InputSequence),
           Increasing(s), \A m \in Members(s), n \in Members(b) : m < n
    PROVE  /\ Moved(s, b) \in Seq(InputSequence)
           /\ Increasing(Moved(s, b))
           /\ b = <<>> => Moved(s, b) = s
           /\ b # <<>> => /\ b[Len(b)] \in Members(b)
                          /\ Members(Moved(s, b)) = Members(s) \cup {b[Len(b)]}
<1>1. CASE b = <<>>
  BY <1>1 DEF Moved
<1>2. CASE b # <<>>
  <2>1. b[Len(b)] \in InputSequence /\ b[Len(b)] \in Members(b)
    BY <1>2 DEF Members
  <2> QED
    BY <1>2, <2>1, AppendMembers, AppendIncreases DEF Moved
<1> QED
  BY <1>1, <1>2

(* The equation of the recursive function in AcknowledgeThrough.            *)
KeepsNewer(f, h, n, top) ==
    f = [i \in 0..top |-> IF i = 0 THEN <<>>
                          ELSE IF h[i] > n THEN Append(f[i - 1], h[i])
                                           ELSE f[i - 1]]

(* It has a solution, so the CHOOSE behind it has the value it should.      *)
LEMMA KeepsNewerExists ==
    ASSUME NEW h, NEW n, NEW top \in Nat
    PROVE  \E f : KeepsNewer(f, h, n, top)
<1> DEFINE Bad == {m \in Nat : ~ \E f : KeepsNewer(f, h, n, m)}
<1>1. ASSUME Bad # {} PROVE FALSE
  <2>1. PICK x \in Bad : \A y \in Bad : x <= y
    <3>1. Bad \subseteq Nat
      OBVIOUS
    <3> QED
      BY <1>1, <3>1, LeastNumber
  <2>2. x # 0
    <3>1. KeepsNewer([i \in 0..0 |-> <<>>], h, n, 0)
      BY DEF KeepsNewer
    <3> QED
      BY <3>1
  <2>3. PICK f : KeepsNewer(f, h, n, x - 1)
    <3>1. x - 1 \in Nat /\ ~ (x <= x - 1)
      BY <2>2
    <3> QED
      BY <3>1, <2>1
  <2> DEFINE g == [i \in 0..x |->
                     IF i = x THEN IF h[x] > n THEN Append(f[x - 1], h[x]) ELSE f[x - 1]
                              ELSE f[i]]
  <2>4. \A i \in 0..x - 1 : g[i] = f[i]
    OBVIOUS
  <2>5. \A i \in 0..x : g[i] = IF i = 0 THEN <<>>
                               ELSE IF h[i] > n THEN Append(g[i - 1], h[i]) ELSE g[i - 1]
    <3> SUFFICES ASSUME NEW i \in 0..x
                 PROVE  g[i] = IF i = 0 THEN <<>>
                               ELSE IF h[i] > n THEN Append(g[i - 1], h[i]) ELSE g[i - 1]
      OBVIOUS
    <3>1. CASE i = x
      <4>1. g[x] = IF h[x] > n THEN Append(f[x - 1], h[x]) ELSE f[x - 1]
        OBVIOUS
      <4>2. g[x - 1] = f[x - 1]
        BY <2>2, <2>4
      <4> HIDE DEF g
      <4> QED
        BY <3>1, <4>1, <4>2, <2>2
    <3>2. CASE i # x
      <4>1. i \in 0..x - 1
        BY <3>2
      <4>2. f[i] = IF i = 0 THEN <<>>
                   ELSE IF h[i] > n THEN Append(f[i - 1], h[i]) ELSE f[i - 1]
        BY <2>3, <4>1 DEF KeepsNewer
      <4>3. g[i] = f[i] /\ (i # 0 => g[i - 1] = f[i - 1])
        BY <4>1, <2>4
      <4> HIDE DEF g
      <4> QED
        BY <4>2, <4>3
    <3> QED
      BY <3>1, <3>2
  <2>6. KeepsNewer(g, h, n, x)
    <3>1. g = [i \in 0..x |-> g[i]]
      OBVIOUS
    <3> HIDE DEF g
    <3> QED
      BY <3>1, <2>5 DEF KeepsNewer
  <2> QED
    BY <2>6
<1> QED
  BY <1>1

(* What the function holds after the first i inputs of an ordered history.  *)
KeptRight(f, h, n, i) ==
    /\ f[i] \in Seq(InputSequence)
    /\ Members(f[i]) = {m \in {h[j] : j \in 1..i} : m > n}
    /\ Increasing(f[i])

LEMMA KeptRightAlways ==
    ASSUME NEW h \in Seq(InputSequence), NEW n \in Nat, Increasing(h),
           NEW f, KeepsNewer(f, h, n, Len(h))
    PROVE  \A i \in 0..Len(h) : KeptRight(f, h, n, i)
<1> DEFINE Bad == {i \in 0..Len(h) : ~ KeptRight(f, h, n, i)}
<1>1. \A i \in 0..Len(h) : f[i] = IF i = 0 THEN <<>>
                                  ELSE IF h[i] > n THEN Append(f[i - 1], h[i]) ELSE f[i - 1]
  BY DEF KeepsNewer
<1>2. KeptRight(f, h, n, 0)
  <2>1. f[0] = <<>>
    BY <1>1
  <2>2. Members(f[0]) = {} /\ Increasing(f[0]) /\ f[0] \in Seq(InputSequence)
    BY <2>1 DEF Members, Increasing
  <2>3. {h[j] : j \in 1..0} = {}
    OBVIOUS
  <2> QED
    BY <2>2, <2>3 DEF KeptRight
<1>3. ASSUME NEW i \in 1..Len(h), KeptRight(f, h, n, i - 1) PROVE KeptRight(f, h, n, i)
  <2>1. h[i] \in InputSequence /\ i \in 0..Len(h) /\ i # 0
    BY <1>3
  <2>2. {h[j] : j \in 1..i} = {h[j] : j \in 1..i - 1} \cup {h[i]}
    OBVIOUS
  <2>3. CASE h[i] > n
    <3>1. f[i] = Append(f[i - 1], h[i])
      BY <1>1, <2>1, <2>3
    <3>2. f[i] \in Seq(InputSequence) /\ Members(f[i]) = Members(f[i - 1]) \cup {h[i]}
      BY <1>3, <2>1, <3>1, AppendMembers DEF KeptRight
    <3>3. \A m \in Members(f[i - 1]) : m < h[i]
      BY <1>3 DEF Increasing, KeptRight
    <3>4. Increasing(f[i])
      BY <1>3, <2>1, <3>1, <3>3, AppendIncreases DEF KeptRight
    <3> QED
      BY <1>3, <2>2, <2>3, <3>2, <3>4 DEF KeptRight
  <2>4. CASE ~(h[i] > n)
    <3>1. f[i] = f[i - 1]
      BY <1>1, <2>4
    <3> QED
      BY <1>3, <2>2, <2>4, <3>1 DEF KeptRight
  <2> QED
    BY <2>3, <2>4
<1>4. ASSUME Bad # {} PROVE FALSE
  <2>1. PICK x \in Bad : \A y \in Bad : x <= y
    <3>1. Bad \subseteq Nat
      OBVIOUS
    <3> QED
      BY <1>4, <3>1, LeastNumber
  <2>2. x \in 1..Len(h) /\ x - 1 \in 0..Len(h) /\ ~ (x <= x - 1)
    BY <1>2
  <2> QED
    BY <1>3, <2>1, <2>2
<1> QED
  BY <1>4

(* AcknowledgeThrough keeps exactly the newer inputs, and their order.      *)
LEMMA AcknowledgeThroughKeepsNewer ==
    ASSUME NEW h \in Seq(InputSequence), NEW n \in Nat, Increasing(h)
    PROVE  /\ AcknowledgeThrough(h, n) \in Seq(InputSequence)
           /\ Members(AcknowledgeThrough(h, n)) = {m \in Members(h) : m > n}
           /\ Increasing(AcknowledgeThrough(h, n))
<1> DEFINE f == CHOOSE g : KeepsNewer(g, h, n, Len(h))
<1>1. AcknowledgeThrough(h, n) = f[Len(h)]
  BY DEF AcknowledgeThrough, KeepsNewer
<1>2. KeepsNewer(f, h, n, Len(h))
  BY KeepsNewerExists
<1>3. KeptRight(f, h, n, Len(h))
  <2> HIDE DEF f
  <2> QED
    BY <1>2, KeptRightAlways
<1> HIDE DEF f
<1> QED
  BY <1>1, <1>3 DEF KeptRight, Members

-----------------------------------------------------------------------------
(***************************************************************************)
(* The inductive invariant.                                                 *)
(***************************************************************************)

(* All of the sequence's numbers are below, or up to, a bound.              *)
Below(s, bound) == \A n \in Members(s) : n < bound
UpTo(s, bound) == \A n \in Members(s) : n <= bound

(* The history is in order and holds only inputs already made.              *)
HistoryInOrder == Increasing(unacked) /\ Below(unacked, nextSequence)

(* Only between an input and its tick is anything queued, and then it is    *)
(* the newest input and nothing else.                                       *)
QueueHoldsTheNewest ==
    \/ queued = <<>>
    \/ step = "tick" /\ queued = <<nextSequence - 1>>

(* The prediction is in order, and behind what is queued for the tick.      *)
PredictionInOrder ==
    /\ Increasing(predicted)
    /\ Below(predicted, nextSequence)
    /\ queued # <<>> => Below(predicted, nextSequence - 1)
    /\ Members(unacked) \subseteq Members(predicted) \cup Members(queued)

(* The server has accepted only inputs made, in order; those it has moved   *)
(* by come before those that wait for the tick.                             *)
ServerInOrder ==
    /\ lastAccepted < nextSequence
    /\ \A n \in inputEnvelopes : n < nextSequence
    /\ Increasing(accepted) /\ UpTo(accepted, lastAccepted)
    /\ Increasing(moves) /\ UpTo(moves, lastAccepted)
    /\ \A n \in Members(accepted) : Below(moves, n)

(* A snapshot acknowledges all it was moved by, and nothing accepted since. *)
SnapshotInOrder(s) ==
    /\ s.acked <= lastAccepted
    /\ Increasing(s.moves) /\ UpTo(s.moves, s.acked)
    /\ \A n \in Members(accepted) : n > s.acked

SnapshotsInOrder ==
    \A i \in 1..Len(snapshotEnvelopes) : SnapshotInOrder(snapshotEnvelopes[i])

PredictionInv ==
    /\ TypeOK
    /\ HistoryInOrder
    /\ QueueHoldsTheNewest
    /\ PredictionInOrder
    /\ ServerInOrder
    /\ SnapshotsInOrder

-----------------------------------------------------------------------------
LEMMA PredictionInit == Init => PredictionInv
BY PredictionAssumption
DEF Init, PredictionInv, TypeOK, HistoryInOrder, QueueHoldsTheNewest, PredictionInOrder,
    ServerInOrder, SnapshotsInOrder, Increasing, Below, UpTo, Members, InputSequence

LEMMA SubmitInputStep ==
    ASSUME PredictionInv, NEW arrives \in BOOLEAN, SubmitInput(arrives)
    PROVE  PredictionInv'
<1> USE PredictionAssumption DEF PredictionInv
<1>1. CASE nextSequence > MaxSequence
  <2>1. UNCHANGED <<nextSequence, unacked, queued, predicted, confirmed, lastAccepted,
                    accepted, moves, inputEnvelopes, snapshotEnvelopes>>
    BY <1>1 DEF SubmitInput, serverVars
  <2>2. queued = <<>> /\ step' = "tick"
    BY DEF SubmitInput, QueueHoldsTheNewest
  <2> QED
    BY <2>1, <2>2 DEF TypeOK, HistoryInOrder, QueueHoldsTheNewest, PredictionInOrder,
       ServerInOrder, SnapshotsInOrder, SnapshotInOrder
<1>2. CASE ~(nextSequence > MaxSequence)
  <2>1. /\ nextSequence \in InputSequence /\ nextSequence' = nextSequence + 1
        /\ nextSequence \in Nat
        /\ unacked' = Append(unacked, nextSequence)
        /\ queued' = Append(queued, nextSequence)
        /\ inputEnvelopes' \subseteq inputEnvelopes \cup {nextSequence}
        /\ step' = "tick"
        /\ UNCHANGED <<predicted, confirmed, lastAccepted, accepted, moves,
                       snapshotEnvelopes>>
    BY <1>2 DEF SubmitInput, serverVars, TypeOK, InputSequence
  <2>2. queued = <<>> /\ queued' = <<nextSequence>>
    BY <2>1 DEF SubmitInput, QueueHoldsTheNewest
  <2>3. /\ unacked' \in Seq(InputSequence)
        /\ Members(unacked') = Members(unacked) \cup {nextSequence}
    BY <2>1, AppendMembers DEF TypeOK
  <2>4. TypeOK'
    BY <2>1, <2>2, <2>3 DEF TypeOK, InputSequence
  <2>5. HistoryInOrder'
    <3>1. Increasing(unacked')
      BY <2>1, AppendIncreases DEF TypeOK, HistoryInOrder, Below
    <3>2. \A n \in Members(unacked) : n < nextSequence + 1
      BY <2>1, MembersAreInputs DEF HistoryInOrder, Below, TypeOK
    <3> QED
      BY <2>1, <2>3, <3>1, <3>2 DEF HistoryInOrder, Below
  <2>6. QueueHoldsTheNewest'
    BY <2>1, <2>2 DEF QueueHoldsTheNewest
  <2>7. PredictionInOrder'
    <3>1. Members(queued') = {nextSequence} /\ Members(queued) = {}
      BY <2>2 DEF Members
    <3>2. Members(unacked') \subseteq Members(predicted') \cup Members(queued')
      BY <2>1, <2>3, <3>1 DEF PredictionInOrder
    <3>3. Below(predicted, nextSequence) /\ Below(predicted, nextSequence + 1)
      BY <2>1, MembersAreInputs DEF PredictionInOrder, Below, TypeOK
    <3>4. nextSequence' - 1 = nextSequence
      BY <2>1
    <3> QED
      BY <2>1, <3>2, <3>3, <3>4 DEF PredictionInOrder
  <2>8. ServerInOrder'
    <3>1. lastAccepted' < nextSequence' /\ \A n \in inputEnvelopes' : n < nextSequence'
      BY <2>1 DEF ServerInOrder, TypeOK, InputSequence
    <3> QED
      BY <2>1, <3>1 DEF ServerInOrder, Increasing, Below, UpTo, Members
  <2>9. SnapshotsInOrder'
    BY <2>1 DEF SnapshotsInOrder, SnapshotInOrder, Increasing, UpTo, Members
  <2> QED
    BY <2>4, <2>5, <2>6, <2>7, <2>8, <2>9
<1> QED
  BY <1>1, <1>2

LEMMA TickSimulationStep ==
    ASSUME PredictionInv, TickSimulation
    PROVE  PredictionInv'
<1> USE PredictionAssumption DEF PredictionInv
<1>1. /\ predicted' = Moved(predicted, queued) /\ queued' = <<>>
      /\ UNCHANGED <<nextSequence, unacked, confirmed, lastAccepted, accepted, moves,
                     inputEnvelopes, snapshotEnvelopes>>
      /\ step' = "pump"
  BY DEF TickSimulation, serverVars
<1>2. HistoryInOrder' /\ QueueHoldsTheNewest' /\ ServerInOrder' /\ SnapshotsInOrder'
  BY <1>1 DEF HistoryInOrder, QueueHoldsTheNewest, ServerInOrder, SnapshotsInOrder,
              SnapshotInOrder, Increasing, Below, UpTo, Members
<1>3. CASE queued = <<>>
  BY <1>1, <1>2, <1>3 DEF Moved, TypeOK, PredictionInOrder
<1>4. CASE queued # <<>>
  <2>1. queued = <<nextSequence - 1>> /\ Members(queued) = {nextSequence - 1}
    BY <1>4 DEF QueueHoldsTheNewest, Members
  <2>2. /\ predicted' \in Seq(InputSequence) /\ Increasing(predicted')
        /\ Members(predicted') = Members(predicted) \cup {nextSequence - 1}
    <3>1. \A m \in Members(predicted), n \in Members(queued) : m < n
      BY <1>4, <2>1 DEF PredictionInOrder, Below
    <3>2. queued[Len(queued)] = nextSequence - 1
      BY <2>1
    <3> QED
      BY <1>1, <1>4, <3>1, <3>2, MovedInOrder DEF TypeOK, PredictionInOrder
  <2>3. TypeOK'
    BY <1>1, <2>2 DEF TypeOK
  <2>4. PredictionInOrder'
    <3>1. \A n \in Members(predicted') : n < nextSequence
      BY <2>2 DEF PredictionInOrder, Below, TypeOK
    <3> QED
      BY <1>1, <2>1, <2>2, <3>1 DEF PredictionInOrder, Below
  <2> QED
    BY <1>2, <2>3, <2>4
<1> QED
  BY <1>3, <1>4

(* Taking one snapshot out of the channel leaves others of the same.        *)
LEMMA LeftInFlightIsLeft ==
    ASSUME snapshotEnvelopes \in Seq(Snapshot), NEW i \in 1..Len(snapshotEnvelopes)
    PROVE  /\ LeftInFlight(i) \in Seq(Snapshot)
           /\ Len(LeftInFlight(i)) <= Len(snapshotEnvelopes)
           /\ \A j \in 1..Len(LeftInFlight(i)) : \E k \in 1..Len(snapshotEnvelopes) :
                 LeftInFlight(i)[j] = snapshotEnvelopes[k]
<1> DEFINE a == SubSeq(snapshotEnvelopes, 1, i - 1)
           b == SubSeq(snapshotEnvelopes, i + 1, Len(snapshotEnvelopes))
<1>1. /\ a \in Seq(Snapshot) /\ Len(a) = i - 1
      /\ \A j \in 1..Len(a) : a[j] = snapshotEnvelopes[j]
  OBVIOUS
<1>2. /\ b \in Seq(Snapshot) /\ Len(b) = Len(snapshotEnvelopes) - i
      /\ \A j \in 1..Len(b) : b[j] = snapshotEnvelopes[j + i]
  OBVIOUS
<1>3. LeftInFlight(i) = a \o b
  BY DEF LeftInFlight
<1> HIDE DEF a, b
<1>4. \A j \in 1..Len(a \o b) : \E k \in 1..Len(snapshotEnvelopes) :
         (a \o b)[j] = snapshotEnvelopes[k]
  <2> SUFFICES ASSUME NEW j \in 1..Len(a \o b)
               PROVE  \E k \in 1..Len(snapshotEnvelopes) :
                         (a \o b)[j] = snapshotEnvelopes[k]
    OBVIOUS
  <2>1. CASE j \in 1..Len(a)
    BY <1>1, <1>2, <2>1
  <2>2. CASE j \notin 1..Len(a)
    <3>1. j - Len(a) \in 1..Len(b) /\ (a \o b)[j] = b[j - Len(a)]
      BY <1>1, <1>2, <2>2
    <3>2. j - Len(a) + i \in 1..Len(snapshotEnvelopes)
      BY <1>1, <1>2, <3>1
    <3> QED
      BY <1>2, <3>1, <3>2
  <2> QED
    BY <2>1, <2>2
<1> QED
  BY <1>1, <1>2, <1>3, <1>4

LEMMA PumpSnapshotStep ==
    ASSUME PredictionInv, PumpSnapshot
    PROVE  PredictionInv'
<1> USE PredictionAssumption DEF PredictionInv
<1>1. PICK i \in 1..Len(snapshotEnvelopes) :
         /\ ApplyServerSnapshot(snapshotEnvelopes[i])
         /\ snapshotEnvelopes' = LeftInFlight(i)
  BY DEF PumpSnapshot
<1>2. /\ step = "pump" /\ queued = <<>>
      /\ UNCHANGED <<nextSequence, queued, step, inputEnvelopes, lastAccepted, accepted,
                     moves>>
  BY DEF PumpSnapshot, QueueHoldsTheNewest, serverVars
<1> DEFINE s == snapshotEnvelopes[i]
<1>3. /\ s \in Snapshot /\ s.acked \in 0..MaxSequence /\ s.acked \in Nat
      /\ s.moves \in Seq(InputSequence)
  <2>1. s \in Snapshot
    BY DEF TypeOK
  <2> QED
    BY <2>1 DEF Snapshot
<1>4. SnapshotInOrder(s)
  BY DEF SnapshotsInOrder
<1>5. /\ unacked' = AcknowledgeThrough(unacked, s.acked)
      /\ predicted' = Replayed(s.moves, unacked')
      /\ confirmed' = confirmed \cup Members(s.moves)
  BY <1>1 DEF ApplyServerSnapshot
<1> HIDE DEF s
<1>6. /\ unacked' \in Seq(InputSequence)
      /\ Members(unacked') = {m \in Members(unacked) : m > s.acked}
      /\ Increasing(unacked')
  BY <1>3, <1>5, AcknowledgeThroughKeepsNewer DEF TypeOK, HistoryInOrder
<1>7. \A m \in Members(s.moves), n \in Members(unacked') : m < n
  <2> SUFFICES ASSUME NEW m \in Members(s.moves), NEW n \in Members(unacked')
               PROVE  m < n
    OBVIOUS
  <2>1. m \in Nat /\ n \in Nat
    BY <1>3, <1>6, MembersAreInputs
  <2>2. m <= s.acked /\ s.acked < n
    BY <1>4, <1>6 DEF SnapshotInOrder, UpTo
  <2> QED
    BY <1>3, <2>1, <2>2
<1>8. /\ predicted' \in Seq(InputSequence)
      /\ Members(predicted') = Members(s.moves) \cup Members(unacked')
      /\ Increasing(predicted')
  BY <1>3, <1>4, <1>5, <1>6, <1>7, ReplayedInOrder DEF SnapshotInOrder
<1>9. TypeOK'
  <2>1. Members(s.moves) \subseteq InputSequence
    BY <1>3, MembersAreInputs
  <2>2. snapshotEnvelopes' \in Seq(Snapshot) /\ Len(snapshotEnvelopes') <= MaxInFlight
    BY <1>1, LeftInFlightIsLeft DEF TypeOK
  <2> QED
    BY <1>2, <1>5, <1>6, <1>8, <2>1, <2>2 DEF TypeOK
<1>10. HistoryInOrder'
  BY <1>2, <1>6 DEF HistoryInOrder, Below
<1>11. PredictionInOrder'
  <2>1. \A m \in Members(s.moves) : m < nextSequence
    <3> SUFFICES ASSUME NEW m \in Members(s.moves) PROVE m < nextSequence
      OBVIOUS
    <3>1. m \in Nat
      BY <1>3, MembersAreInputs
    <3> QED
      BY <1>3, <1>4, <3>1 DEF SnapshotInOrder, UpTo, ServerInOrder, TypeOK
  <2>2. Below(predicted', nextSequence)
    BY <1>6, <1>8, <2>1 DEF HistoryInOrder, Below
  <2> QED
    BY <1>2, <1>8, <2>2 DEF PredictionInOrder
<1>12. QueueHoldsTheNewest' /\ ServerInOrder'
  BY <1>2 DEF QueueHoldsTheNewest, ServerInOrder
<1>13. SnapshotsInOrder'
  <2>1. \A j \in 1..Len(snapshotEnvelopes') : SnapshotInOrder(snapshotEnvelopes'[j])
    BY <1>1, LeftInFlightIsLeft DEF SnapshotsInOrder, TypeOK
  <2> QED
    BY <1>2, <2>1 DEF SnapshotsInOrder, SnapshotInOrder
<1> QED
  BY <1>9, <1>10, <1>11, <1>12, <1>13

LEMMA EndPumpStep ==
    ASSUME PredictionInv, EndPump
    PROVE  PredictionInv'
<1>1. queued = <<>> /\ step' = "input" /\ UNCHANGED <<nextSequence, unacked, queued,
        predicted, confirmed, inputEnvelopes, snapshotEnvelopes, lastAccepted, accepted,
        moves>>
  BY DEF EndPump, serverVars, PredictionInv, QueueHoldsTheNewest
<1> QED
  BY <1>1 DEF PredictionInv, TypeOK, HistoryInOrder, QueueHoldsTheNewest,
              PredictionInOrder, ServerInOrder, SnapshotsInOrder, SnapshotInOrder

LEMMA HandleInputEnvelopeStep ==
    ASSUME PredictionInv, NEW n \in InputSequence, HandleInputEnvelope(n)
    PROVE  PredictionInv'
<1> USE PredictionAssumption DEF PredictionInv
<1>1. /\ n \in inputEnvelopes /\ inputEnvelopes' = inputEnvelopes \ {n}
      /\ UNCHANGED <<nextSequence, unacked, queued, predicted, step, confirmed, moves,
                     snapshotEnvelopes>>
  BY DEF HandleInputEnvelope, clientVars
<1>2. HistoryInOrder' /\ QueueHoldsTheNewest' /\ PredictionInOrder'
  BY <1>1 DEF HistoryInOrder, QueueHoldsTheNewest, PredictionInOrder
<1>3. CASE ~(n > lastAccepted)
  <2>1. UNCHANGED <<lastAccepted, accepted>>
    BY <1>3 DEF HandleInputEnvelope
  <2> QED
    BY <1>1, <1>2, <2>1 DEF TypeOK, ServerInOrder, SnapshotsInOrder, SnapshotInOrder
<1>4. CASE n > lastAccepted
  <2>1. lastAccepted' = n /\ accepted' = Append(accepted, n)
    BY <1>4 DEF HandleInputEnvelope
  <2>2. /\ accepted' \in Seq(InputSequence)
        /\ Members(accepted') = Members(accepted) \cup {n}
    BY <2>1, AppendMembers DEF TypeOK
  <2>3. n \in Nat /\ lastAccepted \in Nat
    BY InputsAreNaturals DEF TypeOK
  <2>4. TypeOK'
    BY <1>1, <2>1, <2>2 DEF TypeOK, InputSequence
  <2>5. \A m \in Members(accepted) : m < n
    BY <1>4, <2>3, MembersAreInputs DEF ServerInOrder, UpTo, TypeOK
  <2>6. \A m \in Members(moves) : m < n
    BY <1>4, <2>3, MembersAreInputs DEF ServerInOrder, UpTo, TypeOK
  <2>7. ServerInOrder'
    <3>1. Increasing(accepted')
      BY <2>1, <2>5, AppendIncreases DEF ServerInOrder, TypeOK
    <3>2. \A m \in Members(accepted') : m <= n
      BY <2>2, <2>3, <2>5, MembersAreInputs DEF TypeOK
    <3>3. \A m \in Members(moves) : m <= n
      BY <2>3, <2>6, MembersAreInputs DEF TypeOK
    <3>4. \A m \in Members(accepted') : Below(moves, m)
      BY <2>2, <2>6 DEF ServerInOrder, Below
    <3> QED
      BY <1>1, <2>1, <3>1, <3>2, <3>3, <3>4 DEF ServerInOrder, UpTo
  <2>8. SnapshotsInOrder'
    <3> SUFFICES ASSUME NEW i \in 1..Len(snapshotEnvelopes)
                 PROVE  SnapshotInOrder(snapshotEnvelopes[i])'
      BY <1>1 DEF SnapshotsInOrder, SnapshotInOrder
    <3> DEFINE s == snapshotEnvelopes[i]
    <3>1. s \in Snapshot
      BY DEF TypeOK
    <3>2. s.acked \in Nat /\ SnapshotInOrder(s)
      BY <3>1 DEF SnapshotsInOrder, Snapshot
    <3>3. s.acked <= n /\ s.acked < n
      BY <1>4, <2>3, <3>2 DEF SnapshotInOrder
    <3> QED
      BY <1>1, <2>1, <2>2, <3>2, <3>3 DEF SnapshotInOrder
  <2> QED
    BY <1>2, <2>4, <2>7, <2>8
<1> QED
  BY <1>3, <1>4

LEMMA ServerTickStep ==
    ASSUME PredictionInv, NEW sends \in BOOLEAN, ServerTick(sends)
    PROVE  PredictionInv'
<1> USE PredictionAssumption DEF PredictionInv
<1>1. /\ moves' = Moved(moves, accepted) /\ accepted' = <<>>
      /\ UNCHANGED <<nextSequence, unacked, queued, predicted, step, confirmed,
                     lastAccepted, inputEnvelopes>>
  BY DEF ServerTick, clientVars
<1>2. HistoryInOrder' /\ QueueHoldsTheNewest' /\ PredictionInOrder'
  BY <1>1 DEF HistoryInOrder, QueueHoldsTheNewest, PredictionInOrder
<1>3. /\ moves' \in Seq(InputSequence) /\ Increasing(moves')
      /\ Members(moves') \subseteq Members(moves) \cup Members(accepted)
  BY <1>1, MovedInOrder DEF TypeOK, ServerInOrder, Below
<1>4. Members(accepted') = {} /\ Increasing(accepted')
  BY <1>1 DEF Members, Increasing
<1>5. UpTo(moves', lastAccepted)
  BY <1>3 DEF ServerInOrder, UpTo
<1>6. ServerInOrder'
  BY <1>1, <1>3, <1>4, <1>5 DEF ServerInOrder, UpTo
<1> DEFINE s == [acked |-> lastAccepted, moves |-> moves']
<1>7. /\ snapshotEnvelopes' \in Seq(Snapshot)
      /\ Len(snapshotEnvelopes') <= MaxInFlight
      /\ \A i \in 1..Len(snapshotEnvelopes') :
            \/ snapshotEnvelopes'[i] = s
            \/ \E k \in 1..Len(snapshotEnvelopes) :
                  snapshotEnvelopes'[i] = snapshotEnvelopes[k]
  <2>1. s \in Snapshot
    BY <1>3 DEF Snapshot, TypeOK
  <2> HIDE DEF s
  <2>2. CASE snapshotEnvelopes' = snapshotEnvelopes
    BY <2>2 DEF TypeOK
  <2>3. CASE /\ Len(snapshotEnvelopes) < MaxInFlight
             /\ snapshotEnvelopes' = Append(snapshotEnvelopes, s)
    BY <2>1, <2>3 DEF TypeOK
  <2> QED
    BY <2>2, <2>3 DEF ServerTick, s
<1>8. TypeOK'
  BY <1>1, <1>3, <1>7 DEF TypeOK
<1>9. SnapshotsInOrder'
  <2> SUFFICES ASSUME NEW i \in 1..Len(snapshotEnvelopes')
               PROVE  SnapshotInOrder(snapshotEnvelopes[i])'
    BY DEF SnapshotsInOrder
  <2>1. CASE snapshotEnvelopes'[i] = s
    <3>1. lastAccepted \in Nat
      BY DEF TypeOK
    <3> QED
      BY <1>1, <1>3, <1>4, <1>5, <2>1, <3>1 DEF SnapshotInOrder
  <2>2. ASSUME NEW k \in 1..Len(snapshotEnvelopes),
               snapshotEnvelopes'[i] = snapshotEnvelopes[k]
        PROVE  SnapshotInOrder(snapshotEnvelopes[i])'
    BY <1>1, <1>4, <2>2 DEF SnapshotsInOrder, SnapshotInOrder
  <2> QED
    BY <1>7, <2>1, <2>2
<1> QED
  BY <1>2, <1>6, <1>8, <1>9

LEMMA PredictionStep == PredictionInv /\ [Next]_vars => PredictionInv'
<1> SUFFICES ASSUME PredictionInv, [Next]_vars PROVE PredictionInv'
  OBVIOUS
<1>1. CASE UNCHANGED vars
  BY <1>1 DEF vars, clientVars, serverVars, PredictionInv, TypeOK, HistoryInOrder,
     QueueHoldsTheNewest, PredictionInOrder, ServerInOrder, SnapshotsInOrder,
     SnapshotInOrder
<1>2. CASE ClientStep
  BY <1>2, SubmitInputStep, TickSimulationStep, PumpSnapshotStep, EndPumpStep
  DEF ClientStep
<1>3. CASE \E n \in InputSequence : HandleInputEnvelope(n)
  BY <1>3, HandleInputEnvelopeStep
<1>4. CASE \E sends \in BOOLEAN : ServerTick(sends)
  BY <1>4, ServerTickStep
<1> QED
  BY <1>1, <1>2, <1>3, <1>4 DEF Next

LEMMA PredictionInvariant == Spec => []PredictionInv
BY PredictionInit, PredictionStep, PTL DEF Spec

-----------------------------------------------------------------------------
(* The client's history, queue and prediction and the server's inputs, and  *)
(* every envelope between them, have their types.                           *)
THEOREM PredictionTypes == Spec => []TypeOK
<1>1. PredictionInv => TypeOK
  BY DEF PredictionInv
<1> QED
  BY <1>1, PredictionInvariant, PTL

(* Whatever is lost or reordered, no input moves the predicted player twice *)
(* or out of order, by RunFrame's tick or by a replay.                      *)
THEOREM PredictionKeepsOrder == Spec => []InputsPredictedInOrder
<1>1. PredictionInv => InputsPredictedInOrder
  BY DEF PredictionInv, PredictionInOrder, Increasing, InputsPredictedInOrder
<1> QED
  BY <1>1, PredictionInvariant, PTL

(* ApplyServerSnapshot takes back no input the server has not acknowledged. *)
THEOREM NoUnackedInputIsTakenBack == Spec => []UnackedInputsArePredicted
<1>1. PredictionInv => UnackedInputsArePredicted
  BY DEF PredictionInv, PredictionInOrder, UnackedInputsArePredicted, Members
<1> QED
  BY <1>1, PredictionInvariant, PTL

(* TickAndSendSnapshots acknowledges no input that waits for its tick.      *)
THEOREM OnlySimulatedInputsAreAcknowledged == Spec => []AcknowledgedInputsWereSimulated
<1>1. PredictionInv => AcknowledgedInputsWereSimulated
  BY DEF PredictionInv, SnapshotsInOrder, SnapshotInOrder, AcknowledgedInputsWereSimulated
<1> QED
  BY <1>1, PredictionInvariant, PTL
=============================================================================
