------------------------------- MODULE Passes -------------------------------
(***************************************************************************)
(* A loop of the code as a function of its rounds: Pass is what n rounds   *)
(* of Step make of start.  That something holds after each round is an     *)
(* induction over the rounds; it is done here once, for any Step and any   *)
(* Inv, and used with INSTANCE for each loop.  p is what a round does not  *)
(* change.                                                                 *)
(***************************************************************************)
EXTENDS Naturals, TLAPS, WellFoundedInduction

CONSTANTS
  Step(_, _, _),   \* p, what there is before the round, the number of the round
  Inv(_, _, _)     \* p, the number of rounds, what there is after them

Pass(p, start, n) ==
  LET pass[i \in 0 .. n] == IF i = 0 THEN start ELSE Step(p, pass[i - 1], i)
  IN  pass[n]

IsPass(f, p, start, n) == f = [i \in 0 .. n |-> IF i = 0 THEN start ELSE Step(p, f[i - 1], i)]

\* A set of numbers that is not empty has a least one.
LEMMA Least ==
  ASSUME NEW T, T \subseteq Nat, T # {}
  PROVE  \E k \in T : \A j \in T : ~(j < k)
<1>1. PICK k \in T : \A j \in T : ~(<<j, k>> \in OpToRel(<, Nat))
  BY NatLessThanWellFounded, WFMin
<1> QED
  BY <1>1 DEF OpToRel

\* The function of the rounds exists, for any number of rounds.
LEMMA PassExists ==
  ASSUME NEW p, NEW start, NEW m \in Nat
  PROVE  \E f : IsPass(f, p, start, m)
<1> SUFFICES ASSUME ~ \E f : IsPass(f, p, start, m)
             PROVE  FALSE
  OBVIOUS
<1> DEFINE T == {n \in Nat : ~ \E f : IsPass(f, p, start, n)}
<1>1. PICK k \in T : \A j \in T : ~(j < k)
  <2>1. T \subseteq Nat /\ T # {}
    OBVIOUS
  <2> QED BY <2>1, Least
<1>2. k # 0
  <2>1. IsPass([i \in 0 .. 0 |-> start], p, start, 0)
    BY DEF IsPass
  <2> QED BY <2>1
<1>3. k - 1 \in Nat /\ k - 1 < k
  BY <1>2
<1>4. PICK f : IsPass(f, p, start, k - 1)
  BY <1>1, <1>3
<1> DEFINE g == [i \in 0 .. k |-> IF i < k THEN f[i] ELSE Step(p, f[k - 1], k)]
<1>5. \A i \in 0 .. k : g[i] = IF i = 0 THEN start ELSE Step(p, g[i - 1], i)
  <2> TAKE i \in 0 .. k
  <2>1. f[0] = start /\ \A j \in 1 .. k - 1 : f[j] = Step(p, f[j - 1], j)
    BY <1>3, <1>4 DEF IsPass
  <2>2. CASE i = 0
    BY <1>3, <2>1, <2>2
  <2>3. CASE i \in 1 .. k - 1
    <3>1. g[i] = f[i] /\ g[i - 1] = f[i - 1]
      BY <1>3, <2>3
    <3> QED BY <2>1, <2>3, <3>1
  <2>4. CASE i = k
    <3>1. g[i] = Step(p, f[k - 1], k) /\ g[i - 1] = f[k - 1]
      BY <1>3, <2>4
    <3> QED BY <1>2, <2>4, <3>1
  <2> QED BY <1>3, <2>2, <2>3, <2>4
<1>6. IsPass(g, p, start, k)
  <2>1. g = [i \in 0 .. k |-> g[i]]
    OBVIOUS
  <2> HIDE DEF g
  <2> QED BY <1>5, <2>1 DEF IsPass
<1> QED
  BY <1>6

\* Without a round there is what there was.
LEMMA PassOfNone ==
  ASSUME NEW p, NEW start
  PROVE  Pass(p, start, 0) = start
<1> DEFINE pass == CHOOSE f : f = [i \in 0 .. 0 |-> IF i = 0 THEN start ELSE Step(p, f[i - 1], i)]
<1>1. IsPass(pass, p, start, 0)
  <2>1. \E f : IsPass(f, p, start, 0)
    BY PassExists
  <2> QED BY <2>1 DEF IsPass
<1>2. Pass(p, start, 0) = pass[0]
  BY DEF Pass
<1> HIDE DEF pass
<1> QED
  BY <1>1, <1>2 DEF IsPass

\* One more round is a Step of what there was before it.
LEMMA PassOfNext ==
  ASSUME NEW p, NEW start, NEW n \in Nat
  PROVE  Pass(p, start, n + 1) = Step(p, Pass(p, start, n), n + 1)
<1> DEFINE pass(m) == CHOOSE f : f = [i \in 0 .. m |-> IF i = 0 THEN start ELSE Step(p, f[i - 1], i)]
<1>1. ASSUME NEW m \in Nat
      PROVE  IsPass(pass(m), p, start, m) /\ Pass(p, start, m) = pass(m)[m]
  <2>1. \E f : IsPass(f, p, start, m)
    BY PassExists
  <2>2. IsPass(pass(m), p, start, m)
    BY <2>1 DEF IsPass
  <2>3. Pass(p, start, m) = pass(m)[m]
    BY DEF Pass
  <2> QED BY <2>2, <2>3
<1> HIDE DEF pass
<1>2. ASSUME NEW m \in 0 .. n, pass(n + 1)[m] # pass(n)[m]
      PROVE  FALSE
  <2> DEFINE T == {i \in 0 .. n : pass(n + 1)[i] # pass(n)[i]}
  <2>1. PICK k \in T : \A j \in T : ~(j < k)
    <3>1. T \subseteq Nat /\ T # {}
      BY <1>2
    <3> QED BY <3>1, Least
  <2>2. IsPass(pass(n), p, start, n) /\ IsPass(pass(n + 1), p, start, n + 1)
    BY <1>1
  <2>3. pass(n)[0] = start /\ pass(n + 1)[0] = start
    BY <2>2 DEF IsPass
  <2>4. k # 0 /\ k \in 0 .. n
    BY <2>3
  <2>5. k - 1 \in 0 .. n /\ k - 1 < k /\ k \in 0 .. n + 1
    BY <2>4
  <2>6. pass(n + 1)[k - 1] = pass(n)[k - 1]
    BY <2>1, <2>5
  <2>7. pass(n)[k] = Step(p, pass(n)[k - 1], k) /\ pass(n + 1)[k] = Step(p, pass(n + 1)[k - 1], k)
    BY <2>2, <2>4, <2>5 DEF IsPass
  <2> QED BY <2>1, <2>6, <2>7
<1>3. pass(n + 1)[n] = pass(n)[n]
  BY <1>2
<1>4. pass(n + 1)[n + 1] = Step(p, pass(n + 1)[n], n + 1)
  BY <1>1 DEF IsPass
<1> QED
  BY <1>1, <1>3, <1>4

\* What holds at the start and is kept by each round holds after the last.
THEOREM PassKeeps ==
  ASSUME NEW p, NEW start, NEW n \in Nat,
         Inv(p, 0, start),
         \A i \in 1 .. n : \A d : Inv(p, i - 1, d) => Inv(p, i, Step(p, d, i))
  PROVE  Inv(p, n, Pass(p, start, n))
<1> DEFINE pass == CHOOSE f : f = [i \in 0 .. n |-> IF i = 0 THEN start ELSE Step(p, f[i - 1], i)]
<1>1. IsPass(pass, p, start, n)
  <2>1. \E f : IsPass(f, p, start, n)
    BY PassExists
  <2> QED BY <2>1 DEF IsPass
<1>2. Pass(p, start, n) = pass[n]
  BY DEF Pass
<1> HIDE DEF pass
<1>3. ASSUME NEW m \in 0 .. n, ~Inv(p, m, pass[m])
      PROVE  FALSE
  <2> DEFINE T == {i \in 0 .. n : ~Inv(p, i, pass[i])}
  <2>1. PICK k \in T : \A j \in T : ~(j < k)
    <3>1. T \subseteq Nat /\ T # {}
      BY <1>3
    <3> QED BY <3>1, Least
  <2>2. pass[0] = start
    BY <1>1 DEF IsPass
  <2>3. k # 0
    BY <2>2
  <2>4. k - 1 \in 0 .. n /\ k - 1 < k /\ k \in 1 .. n
    BY <2>3
  <2>5. Inv(p, k - 1, pass[k - 1])
    BY <2>1, <2>4
  <2>6. pass[k] = Step(p, pass[k - 1], k)
    BY <1>1, <2>4 DEF IsPass
  <2> QED BY <2>4, <2>5, <2>6
<1> QED
  BY <1>2, <1>3
=============================================================================
