------------------------------ MODULE Iteration ------------------------------
(***************************************************************************)
(* A loop over 1..n as a recursive function, f[i] being its state after i   *)
(* passes.  The recursive functions of the transports are instances: a      *)
(* loop's own parameters are in x.                                          *)
(***************************************************************************)
EXTENDS Integers, NumberLemmas, TLAPS

CONSTANTS Start(_),      \* the state before the loop, for the parameters x
          Pass(_, _, _)  \* what the i-th pass makes of a state

IsLoop(f, x, n) ==
    f = [i \in 0..n |-> IF i = 0 THEN Start(x) ELSE Pass(x, i, f[i - 1])]

(* There is such a function, by induction on the number of passes.          *)
LEMMA LoopExists ==
    ASSUME NEW x, NEW n \in Nat
    PROVE  \E f : IsLoop(f, x, n)
<1> DEFINE Bad == {m \in Nat : ~ \E f : IsLoop(f, x, m)}
<1>1. ASSUME Bad # {} PROVE FALSE
  <2>1. PICK m \in Bad : \A y \in Bad : m <= y
    <3>1. Bad \subseteq Nat
      OBVIOUS
    <3> QED
      BY <1>1, <3>1, LeastNumber
  <2>2. m # 0
    <3>1. IsLoop([i \in 0..0 |-> Start(x)], x, 0)
      BY DEF IsLoop
    <3> QED
      BY <3>1
  <2>3. PICK f : IsLoop(f, x, m - 1)
    <3>1. m - 1 \in Nat /\ ~ (m <= m - 1)
      BY <2>2
    <3> QED
      BY <2>1, <3>1
  <2> DEFINE g == [i \in 0..m |-> IF i = m THEN Pass(x, m, f[m - 1]) ELSE f[i]]
  <2>4. \A i \in 0..m - 1 : g[i] = f[i]
    OBVIOUS
  <2>5. \A i \in 0..m : g[i] = IF i = 0 THEN Start(x) ELSE Pass(x, i, g[i - 1])
    <3> SUFFICES ASSUME NEW i \in 0..m
                 PROVE  g[i] = IF i = 0 THEN Start(x) ELSE Pass(x, i, g[i - 1])
      OBVIOUS
    <3>1. CASE i = m
      <4>1. g[m] = Pass(x, m, f[m - 1])
        OBVIOUS
      <4>2. g[m - 1] = f[m - 1]
        BY <2>2, <2>4
      <4> HIDE DEF g
      <4> QED
        BY <2>2, <3>1, <4>1, <4>2
    <3>2. CASE i # m
      <4>1. i \in 0..m - 1
        BY <3>2
      <4>2. f[i] = IF i = 0 THEN Start(x) ELSE Pass(x, i, f[i - 1])
        BY <2>3, <4>1 DEF IsLoop
      <4>3. g[i] = f[i] /\ (i # 0 => g[i - 1] = f[i - 1])
        BY <2>4, <4>1
      <4> HIDE DEF g
      <4> QED
        BY <4>2, <4>3
    <3> QED
      BY <3>1, <3>2
  <2>6. IsLoop(g, x, m)
    <3>1. g = [i \in 0..m |-> g[i]]
      OBVIOUS
    <3> HIDE DEF g
    <3> QED
      BY <2>5, <3>1 DEF IsLoop
  <2> QED
    BY <2>6
<1> QED
  BY <1>1

(* What the equation says of the function at each i.                        *)
LEMMA LoopPasses ==
    ASSUME NEW x, NEW n \in Nat, NEW f, IsLoop(f, x, n)
    PROVE  /\ f[0] = Start(x)
           /\ \A i \in 1..n : f[i] = Pass(x, i, f[i - 1])
<1>1. \A i \in 0..n : f[i] = IF i = 0 THEN Start(x) ELSE Pass(x, i, f[i - 1])
  BY DEF IsLoop
<1> QED
  BY <1>1

(* So the function that the equation defines starts and goes on as it says. *)
LEMMA LoopUnrolls ==
    ASSUME NEW x, NEW n \in Nat
    PROVE  LET f == CHOOSE g : IsLoop(g, x, n)
           IN  /\ f[0] = Start(x)
               /\ \A i \in 1..n : f[i] = Pass(x, i, f[i - 1])
<1> DEFINE f == CHOOSE g : IsLoop(g, x, n)
<1>1. IsLoop(f, x, n)
  BY LoopExists
<1> HIDE DEF f
<1>2. /\ f[0] = Start(x)
      /\ \A i \in 1..n : f[i] = Pass(x, i, f[i - 1])
  BY <1>1, LoopPasses
<1> QED
  BY <1>2 DEF f
=============================================================================
