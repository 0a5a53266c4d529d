--------------------------- MODULE RecursionProofs ---------------------------
(***************************************************************************)
(* Numbers and recursion: the first and the last of a set of numbers,      *)
(* induction up to a bound by a set instead of a predicate, and that a     *)
(* definition by recursion defines a function.                             *)
(***************************************************************************)
EXTENDS Integers, WellFoundedInduction, TLAPS

(* The order of the numbers, as a relation.                                *)
less == {ss \in Nat \X Nat : ss[1] < ss[2]}

(* A set of numbers that is not empty has a first one.                     *)
LEMMA FirstOf ==
  ASSUME NEW T, T \subseteq Nat, T # {}
  PROVE  \E x \in T : \A y \in T : x <= y
  <1>1. IsWellFoundedOn(less, Nat)
    BY NatLessThanWellFounded, Zenon DEF OpToRel, less
  <1>2. PICK x \in T : \A y \in T : ~(<<y, x>> \in less)
    BY <1>1, WFMin, Zenon
  <1>3. \A y \in T : ~(y < x)
    BY <1>2 DEF less
  <1> QED BY <1>3

(* If the set is bounded it has a last one too.                            *)
LEMMA LastOf ==
  ASSUME NEW T, NEW top \in Nat, T \subseteq 0..top, T # {}
  PROVE  \E x \in T : \A y \in T : y <= x
  <1> DEFINE U == {top - y : y \in T}
  <1>0. \A y \in T : y \in Nat /\ top - y \in Nat /\ top - y \in U
    OBVIOUS
  <1>1. U \subseteq Nat /\ U # {}
    BY <1>0
  <1>2. PICK u \in U : \A v \in U : u <= v
    <2> HIDE DEF U
    <2> QED BY <1>1, FirstOf
  <1>3. PICK x \in T : u = top - x
    BY <1>2
  <1>4. ASSUME NEW y \in T
        PROVE  y <= x
    <2>1. u <= top - y
      BY <1>0, <1>2
    <2> QED BY <1>0, <1>3, <2>1
  <1> QED BY <1>4

(* f starts at b and goes on by h.                                         *)
Recurs(f, V, b, h) ==
  f \in [Nat -> V] /\ f[0] = b /\ \A n \in Nat : f[n + 1] = h[<<f[n], n>>]

(* A definition by recursion on the numbers defines a function.            *)
LEMMA Recursion ==
  ASSUME NEW V, NEW b, b \in V, NEW h, h \in [V \X Nat -> V]
  PROVE  \E f : Recurs(f, V, b, h)
  <1> DEFINE App(m) == {f \in [0..m -> V] :
                          f[0] = b /\ \A n \in 0..(m - 1) : f[n + 1] = h[<<f[n], n>>]}
  <1>1. ASSUME NEW m \in Nat
        PROVE  App(m) # {}
    <2> DEFINE T == {k \in Nat : App(k) = {}}
    <2>1. SUFFICES ASSUME T # {} PROVE FALSE
      OBVIOUS
    <2>2. PICK k \in T : \A j \in T : k <= j
      <3>1. T \subseteq Nat
        OBVIOUS
      <3> HIDE DEF T
      <3> QED BY <2>1, <3>1, FirstOf
    <2>3. k \in Nat /\ App(k) = {}
      OBVIOUS
    <2>4. CASE k = 0
      <3>1. [n \in 0..k |-> b] \in App(k)
        BY <2>4
      <3> QED BY <2>3, <3>1
    <2>5. CASE k # 0
      <3>1. k - 1 \in Nat /\ k - 1 \notin T
        BY <2>2, <2>3, <2>5
      <3>2. PICK g : g \in App(k - 1)
        BY <3>1
      <3> DEFINE f == [n \in 0..k |-> IF n = k THEN h[<<g[k - 1], k - 1>>] ELSE g[n]]
      <3>3. /\ g \in [0..(k - 1) -> V] /\ g[0] = b
            /\ \A n \in 0..((k - 1) - 1) : g[n + 1] = h[<<g[n], n>>]
        BY <3>2
      <3>4. g[k - 1] \in V
        BY <3>1, <3>3
      <3>5. h[<<g[k - 1], k - 1>>] \in V
        BY <3>1, <3>4
      <3>6. \A n \in 0..k : n # k => n \in 0..(k - 1)
        BY <2>3
      <3>7. f \in [0..k -> V] /\ f[0] = b
        BY <2>3, <2>5, <3>3, <3>5, <3>6
      <3>8. ASSUME NEW n \in 0..(k - 1)
            PROVE  f[n + 1] = h[<<f[n], n>>]
        <4>1. n \in 0..k /\ n # k /\ n + 1 \in 0..k
          BY <2>3
        <4>2. f[n] = g[n]
          BY <4>1
        <4>3. CASE n = k - 1
          <5>1. n + 1 = k
            BY <2>3, <4>3
          <5> QED BY <4>1, <4>2, <4>3, <5>1
        <4>4. CASE n # k - 1
          <5>1. n \in 0..((k - 1) - 1) /\ n + 1 # k
            BY <2>3, <4>4
          <5> QED BY <3>3, <4>1, <4>2, <5>1
        <4> QED BY <4>3, <4>4
      <3> HIDE DEF f
      <3>9. f \in App(k)
        BY <3>7, <3>8
      <3> QED BY <2>3, <3>9
    <2> QED BY <2>4, <2>5
  <1>2. ASSUME NEW m \in Nat, NEW k \in Nat, NEW f \in App(m), NEW g \in App(k),
               NEW n \in Nat, n <= m, n <= k
        PROVE  f[n] = g[n]
    <2> DEFINE T == {j \in Nat : j <= m /\ j <= k /\ f[j] # g[j]}
    <2>1. SUFFICES ASSUME T # {} PROVE FALSE
      BY <1>2
    <2>2. PICK j \in T : \A i_1 \in T : j <= i_1
      <3>1. T \subseteq Nat
        OBVIOUS
      <3> HIDE DEF T
      <3> QED BY <2>1, <3>1, FirstOf
    <2>3. j \in Nat /\ j <= m /\ j <= k /\ f[j] # g[j]
      OBVIOUS
    <2>4. j # 0
      BY <2>3
    <2>5. j - 1 \in Nat /\ j - 1 \notin T
      BY <2>2, <2>3, <2>4
    <2>6. f[j - 1] = g[j - 1]
      BY <2>3, <2>5
    <2>7. j - 1 \in 0..(m - 1) /\ j - 1 \in 0..(k - 1) /\ (j - 1) + 1 = j
      BY <2>3, <2>5
    <2>8. f[(j - 1) + 1] = h[<<f[j - 1], j - 1>>] /\ g[(j - 1) + 1] = h[<<g[j - 1], j - 1>>]
      BY <2>7
    <2> QED BY <2>3, <2>6, <2>7, <2>8
  <1> DEFINE F == [m \in Nat |-> CHOOSE f : f \in App(m)]
             r == [n \in Nat |-> F[n][n]]
  <1>3. \A m \in Nat : F[m] \in App(m)
    BY <1>1, Zenon
  <1>4. \A n \in Nat : r[n] = F[n][n]
    OBVIOUS
  <1>5. r \in [Nat -> V]
    <2>1. ASSUME NEW n \in Nat PROVE F[n][n] \in V
      <3>1. F[n] \in [0..n -> V]
        <4> HIDE DEF F
        <4> QED BY <1>3
      <3> HIDE DEF F
      <3> QED BY <3>1
    <2> HIDE DEF F
    <2> QED BY <2>1
  <1> HIDE DEF F, r
  <1>6. r[0] = b
    BY <1>3, <1>4
  <1>7. ASSUME NEW n \in Nat
        PROVE  r[n + 1] = h[<<r[n], n>>]
    <2>1. F[n + 1] \in App(n + 1) /\ F[n] \in App(n) /\ n + 1 \in Nat
      BY <1>3
    <2>2. n \in 0..((n + 1) - 1)
      OBVIOUS
    <2>3. F[n + 1][n + 1] = h[<<F[n + 1][n], n>>]
      BY <2>1, <2>2
    <2>4. n <= n /\ n <= n + 1
      OBVIOUS
    <2> HIDE DEF App
    <2>5. F[n + 1][n] = F[n][n]
      BY <1>2, <2>1, <2>4
    <2> QED BY <1>4, <2>1, <2>3, <2>5
  <1> QED BY <1>5, <1>6, <1>7 DEF Recurs

(* Induction up to a bound.                                                *)
LEMMA UpTo ==
  ASSUME NEW N \in Nat, NEW P, 0 \in P, \A n \in 0..(N - 1) : n \in P => n + 1 \in P
  PROVE  \A n \in 0..N : n \in P
  <1> DEFINE T == {n \in 0..N : n \notin P}
  <1>1. SUFFICES ASSUME T # {} PROVE FALSE
    OBVIOUS
  <1>2. PICK k \in T : \A j \in T : k <= j
    <2>1. T \subseteq Nat
      OBVIOUS
    <2> HIDE DEF T
    <2> QED BY <1>1, <2>1, FirstOf
  <1>3. k \in 0..N /\ k \notin P /\ k # 0
    OBVIOUS
  <1>4. k - 1 \in 0..(N - 1) /\ ~(k <= k - 1) /\ (k - 1) + 1 = k /\ k - 1 \in 0..N
    BY <1>3
  <1>5. k - 1 \in P
    BY <1>2, <1>4
  <1> QED BY <1>3, <1>4, <1>5
=============================================================================
