-------------------------------- MODULE Loops --------------------------------
(***************************************************************************)
(* Induction over the numbers up to a bound, and loops: what the proofs    *)
(* about scanning, searching, copying, writing and parsing rest on.        *)
(***************************************************************************)
EXTENDS Naturals, WellFoundedInduction, TLAPS

\* The order of the naturals, as a relation.
Less == {ss \in Nat \X Nat : ss[1] < ss[2]}

\* A set of numbers that is not empty has a least element.
LEMMA LeastNumber ==
    ASSUME NEW T \in SUBSET Nat, T # {}
    PROVE  \E x \in T : \A y \in T : x <= y
<1>1. OpToRel(<, Nat) = Less
  BY Zenon DEF OpToRel, Less
<1>2. IsWellFoundedOn(Less, Nat)
  BY <1>1, NatLessThanWellFounded, Zenon
<1>3. PICK x \in T : \A y \in T : ~(<<y, x>> \in Less)
  BY <1>2, WFMin
<1>4. \A a, b \in Nat : a < b => <<a, b>> \in Less
  BY DEF Less
<1>5. \A y \in T : ~(y < x)
  BY <1>3, <1>4
<1>6. \A y \in T : x <= y
  BY <1>5
<1>7. QED
  BY <1>6

\* What holds of 0 and, with each number below n, of the next one holds up to n.
LEMMA UpTo ==
    ASSUME NEW n \in Nat, NEW T, 0 \in T, \A i \in 0 .. n - 1 : i \in T => i + 1 \in T
    PROVE  0 .. n \subseteq T
<1> SUFFICES ASSUME NEW m \in 0 .. n, m \notin T PROVE FALSE
  OBVIOUS
<1> DEFINE missing == {i \in 0 .. n : i \notin T}
<1>1. missing \subseteq Nat /\ missing # {}
  OBVIOUS
<1>2. PICK x \in missing : \A y \in missing : x <= y
  BY <1>1, LeastNumber
<1>3. x \in 0 .. n /\ x \notin T /\ x # 0
  BY <1>2
<1>4. x - 1 \in 0 .. n - 1 /\ (x - 1) + 1 = x
  BY <1>3
<1>5. x - 1 \notin missing
  BY <1>2, <1>4
<1>6. QED
  BY <1>3, <1>4, <1>5

\* The states of a loop of n rounds: the one it starts in, and those the rounds yield.
Runs(g, n, S, start, round) ==
    /\ g \in [0 .. n -> S] /\ g[0] = start
    /\ \A i \in 1 .. n : g[i] = round[i][g[i - 1]]

\* A loop that computes its state from the state before has one after every round.
LEMMA LoopRuns ==
    ASSUME NEW n \in Nat, NEW S, NEW start \in S, NEW round \in [1 .. n -> [S -> S]]
    PROVE  \E g : Runs(g, n, S, start, round)
<1> DEFINE T == {m \in 0 .. n : \E g : Runs(g, m, S, start, round)}
<1>1. 0 \in T
  <2> DEFINE g == [i \in 0 .. 0 |-> start]
  <2>1. g \in [0 .. 0 -> S] /\ g[0] = start
    OBVIOUS
  <2> HIDE DEF g
  <2>2. Runs(g, 0, S, start, round)
    BY <2>1 DEF Runs
  <2>3. QED
    BY <2>2
<1>2. ASSUME NEW m \in 0 .. n - 1, m \in T PROVE m + 1 \in T
  <2>1. PICK g : Runs(g, m, S, start, round)
    BY <1>2
  <2> DEFINE h == [i \in 0 .. m + 1 |-> IF i = m + 1 THEN round[i][g[m]] ELSE g[i]]
  <2>2. g \in [0 .. m -> S] /\ g[m] \in S /\ round[m + 1] \in [S -> S]
    BY <2>1 DEF Runs
  <2>3. h \in [0 .. m + 1 -> S]
    BY <2>2
  <2>4. h[0] = start /\ \A i \in 1 .. m + 1 : h[i] = round[i][h[i - 1]]
    BY <2>1, <2>2 DEF Runs
  <2>5. m + 1 \in 0 .. n
    OBVIOUS
  <2> HIDE DEF h
  <2>6. Runs(h, m + 1, S, start, round)
    BY <2>3, <2>4 DEF Runs
  <2>7. QED
    BY <2>5, <2>6
<1> HIDE DEF T
<1>3. 0 .. n \subseteq T
  BY <1>1, <1>2, UpTo
<1>4. n \in T
  BY <1>3
<1>5. QED
  BY <1>4 DEF T

\* A loop whose rounds keep a set of states stays in it.
LEMMA LoopStays ==
    ASSUME NEW n \in Nat, NEW S, NEW x, x[0] \in S,
           \A i \in 1 .. n : x[i - 1] \in S => x[i] \in S
    PROVE  \A i \in 0 .. n : x[i] \in S
<1> DEFINE T == {i \in 0 .. n : x[i] \in S}
<1>1. 0 \in T
  OBVIOUS
<1>2. ASSUME NEW i \in 0 .. n - 1, i \in T PROVE i + 1 \in T
  <2>1. i + 1 \in 1 .. n /\ (i + 1) - 1 = i
    OBVIOUS
  <2>2. x[i + 1] \in S
    BY <1>2, <2>1
  <2>3. QED
    BY <2>1, <2>2
<1> HIDE DEF T
<1>3. 0 .. n \subseteq T
  BY <1>1, <1>2, UpTo
<1>4. QED
  BY <1>3 DEF T
=============================================================================
