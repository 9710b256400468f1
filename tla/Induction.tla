------------------------------ MODULE Induction -------------------------------
(***************************************************************************)
(* Induction over the natural numbers and definition by recursion, with a  *)
(* set and a function where the library has an operator as a parameter:    *)
(* the provers instantiate these.  Then the facts about Doubled.           *)
(***************************************************************************)
EXTENDS Doubling, Integers, WellFoundedInduction, TLAPS

\* A set that has 0 and with every number the next one has all numbers.
THEOREM SetInduction ==
    ASSUME NEW S, 0 \in S, \A n \in Nat : n \in S => n + 1 \in S
    PROVE  Nat \subseteq S
  <1> DEFINE T == Nat \ S
             Less == {p \in Nat \X Nat : p[1] < p[2]}
  <1>1. IsWellFoundedOn(Less, Nat)
    BY NatLessThanWellFounded DEF OpToRel
  <1>2. SUFFICES ASSUME T # {} PROVE FALSE
    OBVIOUS
  <1>3. PICK x \in T : \A y \in T : ~(<<y, x>> \in Less)
    <2> HIDE DEF Less
    <2> QED BY <1>1, <1>2, WFMin
  <1>4. x \in Nat /\ x # 0
    OBVIOUS
  <1>5. x - 1 \in Nat /\ <<x - 1, x>> \in Less
    BY <1>4
  <1>6. x - 1 \in S
    BY <1>3, <1>5
  <1> QED
    BY <1>4, <1>5, <1>6

-------------------------------------------------------------------------------
(* Recursion: base is the value at 0, step[<<n, v>>] the value at n + 1 if v  *)
(* is the one at n.                                                          *)

\* g follows the recursion up to n.
Follows(g, n, base, step, V) ==
    /\ g \in [0 .. n -> V]
    /\ g[0] = base
    /\ \A i \in Nat : i < n => g[i + 1] = step[<<i, g[i]>>]

\* The recursion can be followed as far as one likes.
LEMMA FollowsExists ==
    ASSUME NEW V, NEW base \in V, NEW step \in [Nat \X V -> V]
    PROVE  \A n \in Nat : \E g : Follows(g, n, base, step, V)
  <1> DEFINE S == {n \in Nat : \E g : Follows(g, n, base, step, V)}
  <1>1. 0 \in S
    <2> Follows([i \in 0 .. 0 |-> base], 0, base, step, V)
      BY DEF Follows
    <2> QED OBVIOUS
  <1>2. ASSUME NEW n \in Nat, n \in S PROVE n + 1 \in S
    <2>1. PICK g : Follows(g, n, base, step, V)
      BY <1>2
    <2> DEFINE h == [i \in 0 .. n + 1 |-> IF i = n + 1 THEN step[<<n, g[n]>>] ELSE g[i]]
    <2>2. g[n] \in V /\ step[<<n, g[n]>>] \in V
      BY <2>1 DEF Follows
    <2>3. h \in [0 .. n + 1 -> V] /\ h[0] = base
      BY <2>1, <2>2 DEF Follows
    <2>4. ASSUME NEW i \in Nat, i < n + 1 PROVE h[i + 1] = step[<<i, h[i]>>]
      <3>1. i \in 0 .. n + 1 /\ i + 1 \in 0 .. n + 1 /\ i # n + 1 /\ h[i] = g[i]
        BY <2>4
      <3>2. CASE i = n
        BY <3>1, <3>2
      <3>3. CASE i # n
        <4>1. i < n /\ i + 1 # n + 1
          BY <2>4, <3>3
        <4> QED BY <2>1, <3>1, <4>1 DEF Follows
      <3> QED BY <3>2, <3>3
    <2>5. Follows(h, n + 1, base, step, V)
      <3> HIDE DEF h
      <3> QED BY <2>3, <2>4 DEF Follows
    <2> QED BY <2>5
  <1> HIDE DEF S
  <1>3. Nat \subseteq S
    BY <1>1, <1>2, SetInduction
  <1> QED BY <1>3 DEF S

\* Two functions that follow it agree as far as both go.
LEMMA FollowsUnique ==
    ASSUME NEW V, NEW base, NEW step, NEW m \in Nat, NEW n \in Nat, NEW g, NEW h,
           Follows(g, m, base, step, V), Follows(h, n, base, step, V)
    PROVE  \A i \in Nat : i <= m /\ i <= n => g[i] = h[i]
  <1> DEFINE S == {i \in Nat : i <= m /\ i <= n => g[i] = h[i]}
  <1>1. 0 \in S
    BY DEF Follows
  <1>2. ASSUME NEW i \in Nat, i \in S PROVE i + 1 \in S
    <2> SUFFICES ASSUME i + 1 <= m, i + 1 <= n PROVE g[i + 1] = h[i + 1]
      OBVIOUS
    <2>1. i < m /\ i < n /\ i <= m /\ i <= n
      OBVIOUS
    <2>2. g[i] = h[i]
      BY <1>2, <2>1
    <2> QED BY <2>1, <2>2 DEF Follows
  <1> HIDE DEF S
  <1>3. Nat \subseteq S
    BY <1>1, <1>2, SetInduction
  <1> QED BY <1>3 DEF S

\* f follows it for ever.
Recurs(f, base, step, V) ==
    /\ f \in [Nat -> V]
    /\ f[0] = base
    /\ \A n \in Nat : f[n + 1] = step[<<n, f[n]>>]

\* A function of the natural numbers may be defined by recursion.
THEOREM RecursionExists ==
    ASSUME NEW V, NEW base \in V, NEW step \in [Nat \X V -> V]
    PROVE  \E f : Recurs(f, base, step, V)
  <1> DEFINE G(n) == CHOOSE g : Follows(g, n, base, step, V)
             f == [n \in Nat |-> G(n)[n]]
  <1>1. ASSUME NEW n \in Nat PROVE Follows(G(n), n, base, step, V)
    BY FollowsExists
  <1> HIDE DEF G
  <1>2. f \in [Nat -> V] /\ f[0] = base
    BY <1>1 DEF Follows
  <1>3. ASSUME NEW n \in Nat PROVE f[n + 1] = step[<<n, f[n]>>]
    <2>1. Follows(G(n), n, base, step, V) /\ Follows(G(n + 1), n + 1, base, step, V)
      BY <1>1
    <2>2. G(n)[n] = G(n + 1)[n]
      BY <2>1, FollowsUnique
    <2>3. G(n + 1)[n + 1] = step[<<n, G(n + 1)[n]>>]
      BY <2>1 DEF Follows
    <2> QED BY <2>2, <2>3
  <1> HIDE DEF f
  <1>4. Recurs(f, base, step, V)
    BY <1>2, <1>3 DEF Recurs
  <1> QED BY <1>4

-------------------------------------------------------------------------------
\* Doubled is the function that its definition says.
LEMMA DoubledDef ==
    /\ Doubled \in [Nat -> Nat \ {0}]
    /\ Doubled[0] = 1
    /\ \A n \in Nat : Doubled[n + 1] = 2 * Doubled[n]
  <1> DEFINE V == Nat \ {0}
             step == [p \in Nat \X V |-> 2 * p[2]]
  <1>1. PICK f : Recurs(f, 1, step, V)
    <2>1. step \in [Nat \X V -> V]
      OBVIOUS
    <2>2. 1 \in V
      OBVIOUS
    <2> HIDE DEF V, step
    <2> QED BY <2>1, <2>2, RecursionExists
  <1>2. \A n \in Nat : f[n] = IF n = 0 THEN 1 ELSE 2 * f[n - 1]
    <2> SUFFICES ASSUME NEW n \in Nat, n # 0 PROVE f[n] = 2 * f[n - 1]
      BY <1>1 DEF Recurs
    <2>1. n - 1 \in Nat /\ (n - 1) + 1 = n
      OBVIOUS
    <2>2. f[(n - 1) + 1] = step[<<n - 1, f[n - 1]>>]
      BY <1>1, <2>1 DEF Recurs
    <2>3. f[n - 1] \in V
      BY <1>1, <2>1 DEF Recurs
    <2> QED BY <2>1, <2>2, <2>3
  <1>3. f = [n \in Nat |-> IF n = 0 THEN 1 ELSE 2 * f[n - 1]]
    BY <1>1, <1>2 DEF Recurs
  <1>4. Doubled = [n \in Nat |-> IF n = 0 THEN 1 ELSE 2 * Doubled[n - 1]]
    BY <1>3 DEF Doubled
  <1> DEFINE S == {n \in Nat : Doubled[n] \in Nat \ {0}}
  <1>5. 0 \in S
    BY <1>4
  <1>6. ASSUME NEW n \in Nat, n \in S PROVE n + 1 \in S
    BY <1>4, <1>6
  <1> HIDE DEF S
  <1>7. Nat \subseteq S
    BY <1>5, <1>6, SetInduction
  <1>8. \A n \in Nat : Doubled[n] \in Nat \ {0}
    BY <1>7 DEF S
  <1>9. Doubled \in [Nat -> Nat \ {0}]
    BY <1>4, <1>8
  <1>10. ASSUME NEW n \in Nat PROVE Doubled[n + 1] = 2 * Doubled[n]
    <2>1. n + 1 \in Nat /\ n + 1 # 0 /\ (n + 1) - 1 = n
      OBVIOUS
    <2> QED BY <1>4, <2>1
  <1> QED BY <1>4, <1>9, <1>10

===============================================================================
