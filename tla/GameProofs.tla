------------------------------ MODULE GameProofs ------------------------------
(***************************************************************************)
(* The game, for a board of any size and any number of moves: the score    *)
(* accounts for the tiles, the keys do what they say, the volume follows   *)
(* the score.  And slideArray, for a line of any length: it computes the   *)
(* rule that the game is defined by.                                       *)
(*                                                                         *)
(* The rule and the sums are recursive functions, so the first half is     *)
(* what follows from their definitions: that a function with these values  *)
(* exists, and what a suffix, a pair or a permutation changes.             *)
(***************************************************************************)
EXTENDS Slide, Game2048, WellFoundedInduction, TLAPS
-----------------------------------------------------------------------------
(* Induction.  A property is a set here: the library's theorems take it as *)
(* an operator, which no prover at hand can instantiate.                   *)

Less == {ss \in Nat \X Nat : ss[1] < ss[2]}

LEMMA LessWF == IsWellFoundedOn(Less, Nat)
  BY Zenon, NatLessThanWellFounded DEF OpToRel, Less

LEMMA Least ==
  ASSUME NEW T, T \subseteq Nat, T /= {}
  PROVE  \E col \in T : \A y \in T : col <= y
<1>1. PICK col \in T : \A y \in T : ~ (<<y, col>> \in Less)
  BY LessWF, WFMin
<1>2. \A y \in T : ~(y < col)
  BY <1>1 DEF Less
<1> QED
  BY <1>2

LEMMA Induction ==
  ASSUME NEW P, 0 \in P, \A n \in Nat : n \in P => n + 1 \in P
  PROVE  \A n \in Nat : n \in P
<1> DEFINE T == {n \in Nat : n \notin P}
<1> SUFFICES ASSUME T /= {} PROVE FALSE
  OBVIOUS
<1>1. PICK col \in T : \A y \in T : col <= y
  BY Least
<1>2. col \in Nat /\ col /= 0
  BY <1>1
<1>3. col - 1 \in Nat /\ col - 1 \notin T
  BY <1>1, <1>2
<1>4. col - 1 + 1 \in P
  BY <1>3
<1> QED
  BY <1>1, <1>2, <1>4

\* A function is defined by recursion if each value depends on those of
\* lower rank only; B[i] is the body of the definition.
Recursive(D, V, rank, m, B) ==
  /\ V /= {} /\ rank \in [D -> Nat] /\ m \in Nat
  /\ \A i \in D : rank[i] < m
  /\ B \in [D -> [[D -> V] -> V]]
  /\ \A i \in D : \A f, g \in [D -> V] :
       (\A j \in D : rank[j] < rank[i] => f[j] = g[j]) => B[i][f] = B[i][g]
Solution(D, V, B, f) == f \in [D -> V] /\ \A i \in D : f[i] = B[i][f]

LEMMA Recursion ==
  ASSUME NEW D, NEW V, NEW rank, NEW m, NEW B, Recursive(D, V, rank, m, B)
  PROVE  \E f : Solution(D, V, B, f)
<1> USE DEF Recursive, Solution
<1> DEFINE P == {k \in Nat : \E f \in [D -> V] : \A i \in D : rank[i] < k => f[i] = B[i][f]}
<1>1. 0 \in P
  <2>1. PICK v \in V : TRUE
    OBVIOUS
  <2>2. [i \in D |-> v] \in [D -> V] /\ \A i \in D : ~(rank[i] < 0)
    OBVIOUS
  <2> QED
    BY <2>2
<1>2. ASSUME NEW k \in Nat, k \in P PROVE k + 1 \in P
  <2>1. PICK f \in [D -> V] : \A i \in D : rank[i] < k => f[i] = B[i][f]
    BY <1>2
  <2> DEFINE g == [i \in D |-> IF rank[i] < k THEN f[i] ELSE B[i][f]]
  <2>2. g \in [D -> V]
    OBVIOUS
  <2>3. \A i \in D : rank[i] < k => g[i] = f[i]
    OBVIOUS
  <2>4. \A i \in D : g[i] = B[i][f]
    BY <2>1
  <2> HIDE DEF g
  <2>5. ASSUME NEW i \in D, rank[i] < k + 1 PROVE g[i] = B[i][g]
    <3>1. \A j \in D : rank[j] < rank[i] => f[j] = g[j]
      BY <2>3, <2>5
    <3>2. B[i][f] = B[i][g]
      BY <2>2, <3>1
    <3> QED
      BY <2>4, <3>2
  <2> QED
    BY <2>2, <2>5
<1> HIDE DEF P
<1>3. m \in P
  BY <1>1, <1>2, Induction
<1> QED
  BY <1>3 DEF P

\* Recursion on the number before, as in a loop.
Looping(V, v, n, h) == v \in V /\ n \in Nat /\ h \in [0..n -> [V -> V]]
Looped(V, v, n, h, f) ==
  f \in [0..n -> V] /\ \A k \in 0..n : f[k] = IF k = 0 THEN v ELSE h[k][f[k - 1]]

LEMMA Loop ==
  ASSUME NEW V, NEW v, NEW n, NEW h, Looping(V, v, n, h)
  PROVE  \E f : Looped(V, v, n, h, f)
<1> USE DEF Looping, Looped
<1> DEFINE D == 0..n
           B == [k \in D |-> [f \in [D -> V] |-> IF k = 0 THEN v ELSE h[k][f[k - 1]]]]
           rank == [k \in D |-> k]
<1>1. rank \in [D -> Nat] /\ n + 1 \in Nat /\ \A k \in D : rank[k] < n + 1
  OBVIOUS
<1>2. ASSUME NEW k \in D, NEW f \in [D -> V]
      PROVE  (IF k = 0 THEN v ELSE h[k][f[k - 1]]) \in V
  <2>1. CASE k = 0
    BY <2>1
  <2>2. CASE k /= 0
    <3>1. f[k - 1] \in V
      BY <2>2
    <3> QED
      BY <2>2, <3>1
  <2> QED
    BY <2>1, <2>2
<1>3. B \in [D -> [[D -> V] -> V]]
  BY <1>2
<1>4. \A k \in D : \A f \in [D -> V] : B[k][f] = IF k = 0 THEN v ELSE h[k][f[k - 1]]
  OBVIOUS
<1>5. ASSUME NEW k \in D, NEW f \in [D -> V], NEW g \in [D -> V],
             \A j \in D : rank[j] < rank[k] => f[j] = g[j]
      PROVE  B[k][f] = B[k][g]
  <2>1. k /= 0 => k - 1 \in D /\ rank[k - 1] < rank[k]
    OBVIOUS
  <2> HIDE DEF B, rank
  <2>2. k /= 0 => f[k - 1] = g[k - 1]
    BY <1>5, <2>1
  <2> QED
    BY <1>4, <2>2
<1>6. V /= {}
  OBVIOUS
<1> HIDE DEF B, rank, D
<1>7. Recursive(D, V, rank, n + 1, B)
  BY <1>1, <1>3, <1>5, <1>6 DEF Recursive
<1>8. PICK f : Solution(D, V, B, f)
  BY <1>7, Recursion
<1>9. f \in [D -> V] /\ \A k \in D : f[k] = IF k = 0 THEN v ELSE h[k][f[k - 1]]
  BY <1>4, <1>8 DEF Solution
<1> QED
  BY <1>9 DEF D
-----------------------------------------------------------------------------
(* Powers of two and sums.                                                 *)

Doubles(f, e) == f = [i \in 0..e |-> IF i = 0 THEN 1 ELSE 2 * f[i - 1]]

LEMMA ShownIs ==
  ASSUME NEW e \in Nat
  PROVE  \E f : Doubles(f, e) /\ Shown(e) = f[e]
<1>1. \E f : Doubles(f, e)
  <2> DEFINE h == [k \in 0..e |-> [y \in Nat |-> 2 * y]]
  <2>1. Looping(Nat, 1, e, h)
    BY DEF Looping
  <2>2. \A k \in 0..e : \A y \in Nat : h[k][y] = 2 * y
    OBVIOUS
  <2> HIDE DEF h
  <2>3. PICK f : Looped(Nat, 1, e, h, f)
    BY <2>1, Loop
  <2> USE DEF Looped
  <2>4. ASSUME NEW k \in 0..e PROVE f[k] = IF k = 0 THEN 1 ELSE 2 * f[k - 1]
    <3>1. k /= 0 => f[k - 1] \in Nat
      BY <2>3
    <3> QED
      BY <2>2, <2>3, <3>1
  <2>5. f = [k \in 0..e |-> IF k = 0 THEN 1 ELSE 2 * f[k - 1]]
    BY <2>3, <2>4
  <2> QED
    BY <2>5 DEF Doubles
<1>2. Shown(e) = (CHOOSE f : Doubles(f, e))[e]
  BY Zenon DEF Shown, Doubles
<1> DEFINE c == CHOOSE f : Doubles(f, e)
<1>3. Doubles(c, e)
  BY <1>1
<1> QED
  BY <1>2, <1>3

\* All such functions agree where they are defined.
LEMMA DoublesAgree ==
  ASSUME NEW e \in Nat, NEW d \in Nat, NEW f, NEW g, Doubles(f, e), Doubles(g, d)
  PROVE  \A k \in Nat : k <= e /\ k <= d => f[k] = g[k] /\ f[k] \in Nat
<1> DEFINE P == {k \in Nat : k <= e /\ k <= d => f[k] = g[k] /\ f[k] \in Nat}
<1>1. /\ \A k \in 0..e : f[k] = IF k = 0 THEN 1 ELSE 2 * f[k - 1]
      /\ \A k \in 0..d : g[k] = IF k = 0 THEN 1 ELSE 2 * g[k - 1]
  BY DEF Doubles
<1>2. 0 \in P
  BY <1>1
<1>3. ASSUME NEW k \in Nat, k \in P PROVE k + 1 \in P
  <2>1. SUFFICES ASSUME k + 1 <= e, k + 1 <= d
                 PROVE  f[k + 1] = g[k + 1] /\ f[k + 1] \in Nat
    OBVIOUS
  <2>2. f[k] = g[k] /\ f[k] \in Nat
    BY <1>3, <2>1
  <2>3. k + 1 \in 0..e /\ k + 1 \in 0..d /\ k + 1 /= 0 /\ k + 1 - 1 = k
    BY <2>1
  <2>4. f[k + 1] = 2 * f[k] /\ g[k + 1] = 2 * g[k]
    BY <1>1, <2>3
  <2> QED
    BY <2>2, <2>4
<1> HIDE DEF P
<1>4. \A k \in Nat : k \in P
  BY <1>2, <1>3, Induction
<1> QED
  BY <1>4 DEF P

LEMMA ShownDoubles ==
  /\ Shown(0) = 1
  /\ \A e \in Nat : Shown(e) \in Nat /\ Shown(e + 1) = 2 * Shown(e)
<1>1. Shown(0) = 1
  <2>1. PICK f : Doubles(f, 0) /\ Shown(0) = f[0]
    BY ShownIs
  <2> QED
    BY <2>1 DEF Doubles
<1>2. ASSUME NEW e \in Nat PROVE Shown(e) \in Nat /\ Shown(e + 1) = 2 * Shown(e)
  <2>1. PICK f : Doubles(f, e) /\ Shown(e) = f[e]
    BY ShownIs
  <2>2. e + 1 \in Nat /\ e + 1 \in 0..(e + 1) /\ e <= e /\ e <= e + 1 /\ e + 1 - 1 = e
    OBVIOUS
  <2>3. PICK g : Doubles(g, e + 1) /\ Shown(e + 1) = g[e + 1]
    BY <2>2, ShownIs
  <2>4. f[e] = g[e] /\ f[e] \in Nat
    BY <2>1, <2>2, <2>3, DoublesAgree
  <2>5. g[e + 1] = 2 * g[e + 1 - 1]
    BY <2>2, <2>3 DEF Doubles
  <2> QED
    BY <2>1, <2>2, <2>3, <2>4, <2>5
<1> QED
  BY <1>1, <1>2

Sums(s, f, n) == s = [k \in 0..n |-> IF k = 0 THEN 0 ELSE s[k - 1] + f[k - 1]]

LEMMA TotalIs ==
  ASSUME NEW n \in Nat, NEW f, \A i \in 0..(n - 1) : f[i] \in Int
  PROVE  \E s : Sums(s, f, n) /\ Total(f, n) = s[n]
<1>1. \E s : Sums(s, f, n)
  <2> DEFINE h == [k \in 0..n |-> [y \in Int |-> y + IF k = 0 THEN 0 ELSE f[k - 1]]]
  <2>0. \A k \in 0..n : k /= 0 => f[k - 1] \in Int
    OBVIOUS
  <2>1. Looping(Int, 0, n, h)
    BY <2>0 DEF Looping
  <2>2. \A k \in 0..n : \A y \in Int : k /= 0 => h[k][y] = y + f[k - 1]
    OBVIOUS
  <2> HIDE DEF h
  <2>3. PICK s : Looped(Int, 0, n, h, s)
    BY <2>1, Loop
  <2> USE DEF Looped
  <2>4. ASSUME NEW k \in 0..n PROVE s[k] = IF k = 0 THEN 0 ELSE s[k - 1] + f[k - 1]
    <3>1. k /= 0 => s[k - 1] \in Int
      BY <2>3
    <3> QED
      BY <2>2, <2>3, <3>1
  <2>5. s = [k \in 0..n |-> IF k = 0 THEN 0 ELSE s[k - 1] + f[k - 1]]
    BY <2>3, <2>4
  <2> QED
    BY <2>5 DEF Sums
<1>2. Total(f, n) = (CHOOSE s : Sums(s, f, n))[n]
  BY Zenon DEF Total, Sums
<1> DEFINE c == CHOOSE s : Sums(s, f, n)
<1>3. Sums(c, f, n)
  BY <1>1
<1> QED
  BY <1>2, <1>3

LEMMA SumsAgree ==
  ASSUME NEW n \in Nat, NEW m \in Nat, NEW f, NEW s, NEW tt, Sums(s, f, n), Sums(tt, f, m),
         \A i \in 0..(n - 1) : f[i] \in Int
  PROVE  \A k \in Nat : k <= n /\ k <= m => s[k] = tt[k] /\ s[k] \in Int
<1> DEFINE P == {k \in Nat : k <= n /\ k <= m => s[k] = tt[k] /\ s[k] \in Int}
<1>1. /\ \A k \in 0..n : s[k] = IF k = 0 THEN 0 ELSE s[k - 1] + f[k - 1]
      /\ \A k \in 0..m : tt[k] = IF k = 0 THEN 0 ELSE tt[k - 1] + f[k - 1]
  BY DEF Sums
<1>2. 0 \in P
  BY <1>1
<1>3. ASSUME NEW k \in Nat, k \in P PROVE k + 1 \in P
  <2>1. SUFFICES ASSUME k + 1 <= n, k + 1 <= m
                 PROVE  s[k + 1] = tt[k + 1] /\ s[k + 1] \in Int
    OBVIOUS
  <2>2. s[k] = tt[k] /\ s[k] \in Int /\ f[k] \in Int
    BY <1>3, <2>1
  <2>3. k + 1 \in 0..n /\ k + 1 \in 0..m /\ k + 1 /= 0 /\ k + 1 - 1 = k
    BY <2>1
  <2>4. s[k + 1] = s[k] + f[k] /\ tt[k + 1] = tt[k] + f[k]
    BY <1>1, <2>3
  <2> QED
    BY <2>2, <2>4
<1> HIDE DEF P
<1>4. \A k \in Nat : k \in P
  BY <1>2, <1>3, Induction
<1> QED
  BY <1>4 DEF P

\* Total is a sum.
LEMMA TotalNone == ASSUME NEW f PROVE Total(f, 0) = 0
<1>1. \A i \in 0..(0 - 1) : f[i] \in Int
  OBVIOUS
<1>2. PICK s : Sums(s, f, 0) /\ Total(f, 0) = s[0]
  BY <1>1, TotalIs
<1> QED
  BY <1>2 DEF Sums

LEMMA TotalOneMore ==
  ASSUME NEW n \in Nat, NEW f, \A i \in 0..n : f[i] \in Int
  PROVE  Total(f, n) \in Int /\ Total(f, n + 1) = Total(f, n) + f[n]
<1>1. /\ \A i \in 0..(n - 1) : f[i] \in Int
      /\ \A i \in 0..(n + 1 - 1) : f[i] \in Int
  OBVIOUS
<1>2. n + 1 \in Nat /\ n + 1 \in 0..(n + 1) /\ n <= n /\ n <= n + 1 /\ n + 1 - 1 = n
  OBVIOUS
<1>3. PICK s : Sums(s, f, n) /\ Total(f, n) = s[n]
  BY <1>1, TotalIs
<1>4. PICK tt : Sums(tt, f, n + 1) /\ Total(f, n + 1) = tt[n + 1]
  BY <1>1, <1>2, TotalIs
<1>5. s[n] = tt[n] /\ s[n] \in Int
  BY <1>1, <1>2, <1>3, <1>4, SumsAgree
<1>6. tt[n + 1] = tt[n + 1 - 1] + f[n + 1 - 1]
  BY <1>2, <1>4 DEF Sums
<1> QED
  BY <1>2, <1>3, <1>4, <1>5, <1>6

LEMMA TotalType ==
  ASSUME NEW n \in Nat, NEW f, \A i \in 0..(n - 1) : f[i] \in Int
  PROVE  Total(f, n) \in Int
<1>1. n <= n
  OBVIOUS
<1>2. PICK s : Sums(s, f, n) /\ Total(f, n) = s[n]
  BY TotalIs
<1>3. s[n] \in Int
  BY <1>1, <1>2, SumsAgree
<1> QED
  BY <1>2, <1>3

LEMMA TotalSame ==
  ASSUME NEW n \in Nat, NEW f, NEW g,
         \A i \in 0..(n - 1) : f[i] \in Int /\ g[i] = f[i]
  PROVE  Total(g, n) = Total(f, n)
<1> DEFINE P == {k \in Nat : k <= n => Total(g, k) = Total(f, k)}
<1>1. 0 \in P
  BY TotalNone
<1>2. ASSUME NEW k \in Nat, k \in P PROVE k + 1 \in P
  <2>1. SUFFICES ASSUME k + 1 <= n PROVE Total(g, k + 1) = Total(f, k + 1)
    OBVIOUS
  <2>2. \A i \in 0..k : f[i] \in Int /\ g[i] \in Int
    BY <2>1
  <2>3. k \in 0..(n - 1) /\ Total(g, k) = Total(f, k)
    BY <1>2, <2>1
  <2>4. Total(f, k + 1) = Total(f, k) + f[k] /\ Total(g, k + 1) = Total(g, k) + g[k]
    BY <2>2, TotalOneMore
  <2> QED
    BY <2>3, <2>4
<1> HIDE DEF P
<1>3. \A k \in Nat : k \in P
  BY <1>1, <1>2, Induction
<1> QED
  BY <1>3 DEF P

LEMMA TotalPlus ==
  ASSUME NEW n \in Nat, NEW f, NEW g, NEW h,
         \A i \in 0..(n - 1) : f[i] \in Int /\ g[i] \in Int /\ h[i] = f[i] + g[i]
  PROVE  Total(h, n) = Total(f, n) + Total(g, n)
<1> DEFINE P == {k \in Nat : k <= n => Total(h, k) = Total(f, k) + Total(g, k)}
<1>1. 0 \in P
  BY TotalNone
<1>2. ASSUME NEW k \in Nat, k \in P PROVE k + 1 \in P
  <2>1. SUFFICES ASSUME k + 1 <= n PROVE Total(h, k + 1) = Total(f, k + 1) + Total(g, k + 1)
    OBVIOUS
  <2>2. \A i \in 0..k : f[i] \in Int /\ g[i] \in Int /\ h[i] \in Int
    BY <2>1
  <2>3. k \in 0..(n - 1) /\ Total(h, k) = Total(f, k) + Total(g, k)
    BY <1>2, <2>1
  <2>4. /\ Total(f, k) \in Int /\ Total(f, k + 1) = Total(f, k) + f[k]
        /\ Total(g, k) \in Int /\ Total(g, k + 1) = Total(g, k) + g[k]
        /\ Total(h, k) \in Int /\ Total(h, k + 1) = Total(h, k) + h[k]
    BY <2>2, TotalOneMore
  <2>5. f[k] \in Int /\ g[k] \in Int /\ h[k] = f[k] + g[k]
    BY <2>3
  <2> QED
    BY <2>3, <2>4, <2>5
<1> HIDE DEF P
<1>3. \A k \in Nat : k \in P
  BY <1>1, <1>2, Induction
<1> QED
  BY <1>3 DEF P

LEMMA TotalNat ==
  ASSUME NEW n \in Nat, NEW f, \A i \in 0..(n - 1) : f[i] \in Nat
  PROVE  Total(f, n) \in Nat
<1> DEFINE P == {k \in Nat : k <= n => Total(f, k) \in Nat}
<1>1. 0 \in P
  BY TotalNone
<1>2. ASSUME NEW k \in Nat, k \in P PROVE k + 1 \in P
  <2>1. SUFFICES ASSUME k + 1 <= n PROVE Total(f, k + 1) \in Nat
    OBVIOUS
  <2>2. \A i \in 0..k : f[i] \in Nat
    BY <2>1
  <2>3. \A i \in 0..k : f[i] \in Int
    BY <2>2
  <2>4. Total(f, k + 1) = Total(f, k) + f[k]
    BY <2>3, TotalOneMore
  <2>5. Total(f, k) \in Nat /\ f[k] \in Nat
    BY <1>2, <2>1, <2>2
  <2> QED
    BY <2>4, <2>5
<1> HIDE DEF P
<1>3. \A k \in Nat : k \in P
  BY <1>1, <1>2, Induction
<1> QED
  BY <1>3 DEF P

\* Only entry d differs.
OneDiffers(f, g, n, d) ==
  /\ n \in Nat /\ d \in 0..(n - 1) /\ g[d] \in Int
  /\ \A i \in 0..(n - 1) : f[i] \in Int /\ (i /= d => g[i] = f[i])

LEMMA TotalButOne ==
  ASSUME NEW n, NEW f, NEW g, NEW d, OneDiffers(f, g, n, d)
  PROVE  Total(g, n) = Total(f, n) + g[d] - f[d]
<1> USE DEF OneDiffers
<1> DEFINE more(k) == IF d < k THEN g[d] - f[d] ELSE 0
           P == {k \in Nat : k <= n => Total(g, k) = Total(f, k) + more(k)}
<1>0. d \in Nat /\ d < n /\ f[d] \in Int
  OBVIOUS
<1>1. 0 \in P
  BY <1>0, TotalNone
<1>2. ASSUME NEW k \in Nat, k \in P PROVE k + 1 \in P
  <2>1. SUFFICES ASSUME k + 1 <= n PROVE Total(g, k + 1) = Total(f, k + 1) + more(k + 1)
    OBVIOUS
  <2>2. \A i \in 0..k : f[i] \in Int /\ g[i] \in Int
    BY <2>1
  <2>3. k \in 0..(n - 1) /\ Total(g, k) = Total(f, k) + more(k)
    BY <1>2, <2>1
  <2>4. /\ Total(f, k) \in Int /\ Total(f, k + 1) = Total(f, k) + f[k]
        /\ Total(g, k) \in Int /\ Total(g, k + 1) = Total(g, k) + g[k]
    BY <2>2, TotalOneMore
  <2>5. f[k] \in Int /\ g[k] \in Int /\ (k /= d => g[k] = f[k])
    BY <2>2, <2>3
  <2>6. CASE k = d
    BY <1>0, <2>3, <2>4, <2>5, <2>6
  <2>7. CASE k /= d
    <3>1. more(k + 1) = more(k) /\ more(k) \in Int
      BY <1>0, <2>7
    <3> QED
      BY <2>3, <2>4, <2>5, <2>7, <3>1
  <2> QED
    BY <2>6, <2>7
<1> HIDE DEF P
<1>3. \A k \in Nat : k \in P
  BY <1>1, <1>2, Induction
<1>4. n \in P /\ n <= n
  BY <1>3
<1>5. Total(g, n) = Total(f, n) + (g[d] - f[d])
  BY <1>0, <1>4 DEF P
<1>6. Total(f, n) \in Int
  BY TotalType
<1> QED
  BY <1>0, <1>5, <1>6

\* The first entry, and those that follow it.
LEMMA TotalFirst ==
  ASSUME NEW n \in Nat, NEW f, NEW g,
         \A i \in 0..n : f[i] \in Int,
         \A i \in 0..(n - 1) : g[i] = f[i + 1]
  PROVE  Total(f, n + 1) = f[0] + Total(g, n)
<1> DEFINE P == {k \in Nat : k <= n => Total(f, k + 1) = f[0] + Total(g, k)}
<1>1. 0 \in P
  <2>1. f[0] \in Int /\ \A i \in 0..0 : f[i] \in Int
    OBVIOUS
  <2>2. Total(f, 0 + 1) = Total(f, 0) + f[0]
    BY <2>1, TotalOneMore
  <2> QED
    BY <2>1, <2>2, TotalNone
<1>2. ASSUME NEW k \in Nat, k \in P PROVE k + 1 \in P
  <2>1. SUFFICES ASSUME k + 1 <= n PROVE Total(f, k + 1 + 1) = f[0] + Total(g, k + 1)
    OBVIOUS
  <2>2. \A i \in 0..(k + 1) : f[i] \in Int
    BY <2>1
  <2>3. \A i \in 0..k : g[i] \in Int
    <3> SUFFICES ASSUME NEW i \in 0..k PROVE g[i] \in Int
      OBVIOUS
    <3>1. i \in 0..(n - 1) /\ i + 1 \in 0..n
      BY <2>1
    <3> QED
      BY <3>1
  <2>4. k + 1 \in Nat /\ k \in 0..(n - 1) /\ Total(f, k + 1) = f[0] + Total(g, k)
    BY <1>2, <2>1
  <2>5. Total(f, k + 1) \in Int /\ Total(f, k + 1 + 1) = Total(f, k + 1) + f[k + 1]
    BY <2>2, <2>4, TotalOneMore
  <2>6. Total(g, k) \in Int /\ Total(g, k + 1) = Total(g, k) + g[k]
    BY <2>3, TotalOneMore
  <2>7. f[0] \in Int /\ f[k + 1] \in Int /\ g[k] = f[k + 1]
    BY <2>2, <2>4
  <2> QED
    BY <2>4, <2>5, <2>6, <2>7
<1> HIDE DEF P
<1>3. \A k \in Nat : k \in P
  BY <1>1, <1>2, Induction
<1> QED
  BY <1>3 DEF P

LEMMA TotalReversed ==
  ASSUME NEW n \in Nat, NEW f, NEW g,
         \A i \in 0..(n - 1) : f[i] \in Int /\ g[i] = f[n - 1 - i]
  PROVE  Total(g, n) = Total(f, n)
<1> DEFINE P == {k \in Nat : k <= n => Total(f, n) = Total(f, n - k) + Total(g, k)}
<1>0. ASSUME NEW i \in 0..(n - 1) PROVE g[i] \in Int
  <2>1. n - 1 - i \in 0..(n - 1)
    OBVIOUS
  <2> QED
    BY <2>1
<1>tt. Total(f, n) \in Int /\ n - 0 = n
  BY TotalType
<1>1. 0 \in P
  BY <1>tt, TotalNone
<1>2. ASSUME NEW k \in Nat, k \in P PROVE k + 1 \in P
  <2>1. SUFFICES ASSUME k + 1 <= n
                 PROVE  Total(f, n) = Total(f, n - (k + 1)) + Total(g, k + 1)
    OBVIOUS
  <2>2. \A i \in 0..k : g[i] \in Int
    BY <1>0, <2>1
  <2> DEFINE d == n - (k + 1)
  <2>3. d \in Nat /\ d + 1 = n - k /\ n - 1 - k = d /\ k \in 0..(n - 1)
    BY <2>1
  <2>4. \A i \in 0..d : f[i] \in Int
    BY <2>1
  <2>5. Total(f, n) = Total(f, n - k) + Total(g, k)
    BY <1>2, <2>1
  <2>7. Total(g, k) \in Int /\ Total(g, k + 1) = Total(g, k) + g[k]
    BY <2>2, TotalOneMore
  <2>8. g[k] = f[d] /\ g[k] \in Int
    BY <1>0, <2>3
  <2> HIDE DEF d
  <2>6. Total(f, d) \in Int /\ Total(f, d + 1) = Total(f, d) + f[d]
    BY <2>3, <2>4, TotalOneMore
  <2>9. Total(f, n) = Total(f, d) + Total(g, k + 1)
    BY <2>3, <2>5, <2>6, <2>7, <2>8
  <2> QED
    BY <2>9 DEF d
<1> HIDE DEF P
<1>3. \A k \in Nat : k \in P
  BY <1>1, <1>2, Induction
<1>4. Total(f, n) = Total(f, n - n) + Total(g, n) /\ n - n = 0
  BY <1>3 DEF P
<1>5. Total(g, n) \in Int
  BY <1>0, TotalType
<1> QED
  BY <1>4, <1>5, TotalNone

\* Rows first, or columns first.
Transposed(a, c, n, m) ==
  /\ n \in Nat /\ m \in Nat
  /\ \A i \in 0..(n - 1) : \A j \in 0..(m - 1) : a[i][j] \in Int /\ c[j][i] = a[i][j]
SumOfSums(a, n, m) == Total([i \in 0..(n - 1) |-> Total(a[i], m)], n)

LEMMA TotalSwapped ==
  ASSUME NEW n, NEW m, NEW a, NEW c, Transposed(a, c, n, m)
  PROVE  SumOfSums(a, n, m) = SumOfSums(c, m, n)
<1> USE DEF Transposed
<1> DEFINE rows == [i \in 0..(n - 1) |-> Total(a[i], m)]
           cols(k) == [j \in 0..(m - 1) |-> Total(c[j], k)]
           P == {k \in Nat : k <= n => Total(rows, k) = Total(cols(k), m)}
<1>r. \A i \in 0..(n - 1) : rows[i] \in Int
  BY TotalType
<1>1. 0 \in P
  <2>1. \A j \in 0..(m - 1) : cols(0)[j] = 0
    BY TotalNone
  <2> DEFINE z == cols(0)
  <2>2. \A j \in 0..(m - 1) : z[j] \in Int /\ z[j] = z[j] + z[j]
    BY <2>1
  <2> HIDE DEF z
  <2>3. Total(z, m) \in Int
    BY <2>2, TotalType
  <2>4. Total(z, m) = Total(z, m) + Total(z, m)
    BY <2>2, TotalPlus
  <2>5. Total(z, m) = 0
    <3>1. PICK v \in Int : v = Total(z, m)
      BY <2>3
    <3>2. v = v + v
      BY <2>4, <3>1
    <3>3. v = 0
      BY <3>2
    <3> QED
      BY <3>1, <3>3
  <2> QED
    BY <2>5, TotalNone DEF z
<1>2. ASSUME NEW k \in Nat, k \in P PROVE k + 1 \in P
  <2>1. SUFFICES ASSUME k + 1 <= n PROVE Total(rows, k + 1) = Total(cols(k + 1), m)
    OBVIOUS
  <2>2. k \in 0..(n - 1) /\ Total(rows, k) = Total(cols(k), m)
    BY <1>2, <2>1
  <2>3. Total(rows, k + 1) = Total(rows, k) + rows[k]
    <3>1. \A i \in 0..k : rows[i] \in Int
      BY <1>r, <2>1
    <3> HIDE DEF rows
    <3> QED
      BY <3>1, TotalOneMore
  <2>4. rows[k] = Total(a[k], m)
    BY <2>2
  <2>5. ASSUME NEW j \in 0..(m - 1)
        PROVE  cols(k)[j] \in Int /\ a[k][j] \in Int /\ cols(k + 1)[j] = cols(k)[j] + a[k][j]
    <3>1. \A i \in 0..k : c[j][i] \in Int
      BY <2>1
    <3>2. Total(c[j], k) \in Int /\ Total(c[j], k + 1) = Total(c[j], k) + c[j][k]
      BY <3>1, TotalOneMore
    <3> QED
      BY <2>2, <3>2
  <2> DEFINE ck == cols(k)
             cn == cols(k + 1)
             ak == a[k]
  <2>6. \A j \in 0..(m - 1) : ck[j] \in Int /\ ak[j] \in Int /\ cn[j] = ck[j] + ak[j]
    BY <2>5
  <2>7. Total(rows, k) = Total(ck, m) /\ rows[k] = Total(ak, m)
    BY <2>2, <2>4
  <2> HIDE DEF ck, cn, ak, rows
  <2>8. Total(cn, m) = Total(ck, m) + Total(ak, m)
    BY <2>6, TotalPlus
  <2>9. Total(rows, k + 1) = Total(cn, m)
    BY <2>3, <2>7, <2>8
  <2> QED
    BY <2>9 DEF cn
<1> HIDE DEF P
<1>3. \A k \in Nat : k \in P
  BY <1>1, <1>2, Induction
<1> QED
  BY <1>3 DEF P, SumOfSums

-----------------------------------------------------------------------------
(* Recursion from the end of a range to its beginning, one or two steps    *)
(* back at a time.                                                         *)

LEMMA Downward ==
  ASSUME NEW lo \in Nat, NEW hi \in Nat, NEW P,
         \A i \in lo..hi : (\A j \in (i + 1)..hi : j \in P) => i \in P
  PROVE  \A i \in lo..hi : i \in P
<1> DEFINE T == {k \in Nat : hi - k \in lo..hi /\ hi - k \notin P}
<1> SUFFICES ASSUME NEW i \in lo..hi, i \notin P PROVE FALSE
  OBVIOUS
<1>1. hi - i \in T
  <2>1. hi - i \in Nat /\ hi - (hi - i) = i
    OBVIOUS
  <2> QED
    BY <2>1
<1>2. PICK k \in T : \A y \in T : k <= y
  BY <1>1, Least
<1>3. ASSUME NEW j \in (hi - k + 1)..hi PROVE j \in P
  <2>1. hi - j \in Nat /\ hi - (hi - j) = j /\ j \in lo..hi /\ ~(k <= hi - j)
    BY <1>2
  <2>2. hi - j \notin T
    BY <1>2, <2>1
  <2> QED
    BY <2>1, <2>2
<1> QED
  BY <1>2, <1>3

Unrolling(V, v, lo, hi, two, h) ==
  /\ v \in V /\ lo \in Nat /\ hi \in Nat
  /\ two \subseteq lo..hi
  /\ \A i \in two : i + 2 <= hi
  /\ h \in [lo..hi -> [V -> V]]
Unrolled(V, v, lo, hi, two, h, f) ==
  /\ f \in [lo..hi -> V]
  /\ \A i \in lo..hi : f[i] = IF i = hi THEN v
                              ELSE IF i \in two THEN h[i][f[i + 2]] ELSE h[i][f[i + 1]]

LEMMA Unroll ==
  ASSUME NEW V, NEW v, NEW lo, NEW hi, NEW two, NEW h, Unrolling(V, v, lo, hi, two, h)
  PROVE  \E f : Unrolled(V, v, lo, hi, two, h, f)
<1> USE DEF Unrolling, Unrolled
<1> DEFINE D == lo..hi
           body(f, i) == IF i = hi THEN v
                         ELSE IF i \in two THEN h[i][f[i + 2]] ELSE h[i][f[i + 1]]
           B == [i \in D |-> [f \in [D -> V] |-> body(f, i)]]
           rank == [i \in D |-> hi - i]
<1>1. rank \in [D -> Nat] /\ hi + 1 \in Nat /\ \A i \in D : rank[i] < hi + 1
  OBVIOUS
<1>0. ASSUME NEW i \in D, i /= hi
      PROVE  /\ i + 1 \in D /\ rank[i + 1] < rank[i]
             /\ i \in two => i + 2 \in D /\ rank[i + 2] < rank[i]
  <2>1. i + 1 \in D /\ (i \in two => i + 2 \in D)
    BY <1>0
  <2> QED
    BY <1>0, <2>1
<1>2. ASSUME NEW i \in D, NEW f \in [D -> V] PROVE body(f, i) \in V
  <2>1. CASE i = hi
    BY <2>1
  <2>2. CASE i /= hi /\ i \in two
    <3>1. i + 2 \in D
      BY <1>0, <2>2
    <3>2. f[i + 2] \in V
      BY <3>1
    <3> QED
      BY <2>2, <3>2
  <2>3. CASE i /= hi /\ i \notin two
    <3>1. i + 1 \in D
      BY <1>0, <2>3
    <3>2. f[i + 1] \in V
      BY <3>1
    <3> QED
      BY <2>3, <3>2
  <2> QED
    BY <2>1, <2>2, <2>3
<1>4. \A i \in D : \A f \in [D -> V] : B[i][f] = body(f, i)
  OBVIOUS
<1>3. B \in [D -> [[D -> V] -> V]]
  <2> HIDE DEF body
  <2> QED
    BY <1>2
<1>5. ASSUME NEW i \in D, NEW f \in [D -> V], NEW g \in [D -> V],
             \A j \in D : rank[j] < rank[i] => f[j] = g[j]
      PROVE  B[i][f] = B[i][g]
  <2> HIDE DEF B, rank
  <2>2. i /= hi => f[i + 1] = g[i + 1] /\ (i \in two => f[i + 2] = g[i + 2])
    BY <1>0, <1>5
  <2> QED
    BY <1>4, <2>2
<1>6. V /= {}
  OBVIOUS
<1> HIDE DEF B, rank, D, body
<1>7. Recursive(D, V, rank, hi + 1, B)
  BY <1>1, <1>3, <1>5, <1>6 DEF Recursive
<1>8. PICK f : Solution(D, V, B, f)
  BY <1>7, Recursion
<1>9. f \in [D -> V] /\ \A i \in D : f[i] = body(f, i)
  BY <1>4, <1>8 DEF Solution
<1> QED
  BY <1>9 DEF D, body
-----------------------------------------------------------------------------
(* The tiles of a line.                                                    *)

\* f[i] is the sequence of tiles of the line from cell i on.
TilesFrom(f, row, n) ==
  f = [i \in 0..n |-> IF i = n THEN <<>>
                      ELSE IF row[i] = 0 THEN f[i + 1]
                      ELSE <<row[i]>> \o f[i + 1]]

LEMMA ConsType ==
  ASSUME NEW S, NEW a \in S, NEW s \in Seq(S)
  PROVE  <<a>> \o s \in Seq(S) /\ Len(<<a>> \o s) = 1 + Len(s)
  OBVIOUS

LEMMA TilesIs ==
  ASSUME NEW n \in Nat, NEW row, \A i \in 0..(n - 1) : row[i] \in Nat
  PROVE  \E f : /\ TilesFrom(f, row, n) /\ Tiles(row, n) = f[0]
                /\ f \in [0..n -> Seq(Nat \ {0})]
<1> DEFINE V == Seq(Nat \ {0})
           h == [i \in 0..n |-> [s \in V |-> IF i = n \/ row[i] = 0 THEN s ELSE <<row[i]>> \o s]]
<1>1. ASSUME NEW i \in 0..n, NEW s \in V
      PROVE  (IF i = n \/ row[i] = 0 THEN s ELSE <<row[i]>> \o s) \in V
  <2>1. CASE i = n \/ row[i] = 0
    BY <2>1
  <2>2. CASE i /= n /\ row[i] /= 0
    <3>1. row[i] \in Nat \ {0}
      BY <2>2
    <3>2. <<row[i]>> \o s \in V
      BY <3>1, ConsType
    <3> QED
      BY <2>2, <3>2
  <2> QED
    BY <2>1, <2>2
<1>2. h \in [0..n -> [V -> V]]
  BY <1>1
<1>3. \A i \in 0..n : \A s \in V :
        i /= n => h[i][s] = IF row[i] = 0 THEN s ELSE <<row[i]>> \o s
  OBVIOUS
<1>4. <<>> \in V
  OBVIOUS
<1> HIDE DEF h, V
<1>5. Unrolling(V, <<>>, 0, n, {}, h)
  BY <1>2, <1>4 DEF Unrolling
<1>6. PICK f : Unrolled(V, <<>>, 0, n, {}, h, f)
  BY <1>5, Unroll
<1>7. ASSUME NEW i \in 0..n
      PROVE  f[i] = IF i = n THEN <<>> ELSE IF row[i] = 0 THEN f[i + 1] ELSE <<row[i]>> \o f[i + 1]
  <2>1. f \in [0..n -> V]
    BY <1>6 DEF Unrolled
  <2>2. i /= n => f[i + 1] \in V
    BY <2>1
  <2>3. f[i] = IF i = n THEN <<>> ELSE h[i][f[i + 1]]
    BY <1>6 DEF Unrolled
  <2> QED
    BY <1>3, <2>2, <2>3
<1>8. f \in [0..n -> V]
  BY <1>6 DEF Unrolled
<1>9. TilesFrom(f, row, n)
  BY <1>7, <1>8 DEF TilesFrom
<1>10. Tiles(row, n) = (CHOOSE g : TilesFrom(g, row, n))[0]
  BY Zenon DEF Tiles, TilesFrom
<1> DEFINE c == CHOOSE g : TilesFrom(g, row, n)
<1>11. TilesFrom(c, row, n)
  BY <1>9
<1> HIDE DEF c
<1>12. c = f
  <2> DEFINE P == {i \in 0..n : c[i] = f[i]}
  <2>1. \A i \in 0..n : c[i] = IF i = n THEN <<>> ELSE IF row[i] = 0 THEN c[i + 1]
                                                   ELSE <<row[i]>> \o c[i + 1]
    BY <1>11 DEF TilesFrom
  <2>2. ASSUME NEW i \in 0..n, \A j \in (i + 1)..n : j \in P
        PROVE  i \in P
    <3>1. i /= n => c[i + 1] = f[i + 1]
      BY <2>2
    <3> QED
      BY <1>7, <2>1, <3>1
  <2> HIDE DEF P
  <2>3. 0 \in Nat
    OBVIOUS
  <2>4. \A i \in 0..n : i \in P
    BY <2>2, <2>3, Downward
  <2>5. \A i \in 0..n : c[i] = f[i]
    BY <2>4 DEF P
  <2>6. c = [i \in 0..n |-> c[i]] /\ f = [i \in 0..n |-> f[i]]
    BY <1>8, <1>11 DEF TilesFrom
  <2>7. [i \in 0..n |-> c[i]] = [i \in 0..n |-> f[i]]
    BY <2>5
  <2> QED
    BY <2>6, <2>7
<1> QED
  BY <1>8, <1>10, <1>11, <1>12 DEF c, V
-----------------------------------------------------------------------------
(* Merging.                                                                *)

Tile == Nat \ {0}
Rest(s, d) == SubSeq(s, d + 1, Len(s))

LEMMA RestIs ==
  ASSUME NEW s \in Seq(Tile), NEW d \in 0..Len(s)
  PROVE  /\ Rest(s, d) \in Seq(Tile) /\ Len(Rest(s, d)) = Len(s) - d
         /\ \A i \in 1..(Len(s) - d) : Rest(s, d)[i] = s[i + d]
  BY DEF Rest

\* f[i] is what becomes of the tiles from the i-th on, and what they score.
MergeFrom(f, s) ==
  f = [i \in 1..(Len(s) + 1) |->
         IF i > Len(s) THEN <<>>
         ELSE IF Pair(s, i) THEN <<s[i] + 1>> \o f[i + 2]
         ELSE <<s[i]>> \o f[i + 1]]
ScoreFrom(f, s) ==
  f = [i \in 1..(Len(s) + 1) |->
         IF i > Len(s) THEN 0
         ELSE IF Pair(s, i) THEN Shown(s[i] + 1) + f[i + 2]
         ELSE f[i + 1]]

Pairs(s) == {i \in 1..Len(s) : Pair(s, i)}

LEMMA PairsAreInside ==
  ASSUME NEW s \in Seq(Tile)
  PROVE  /\ Pairs(s) \subseteq 1..(Len(s) + 1) /\ \A i \in Pairs(s) : i + 2 <= Len(s) + 1
         /\ \A i \in 1..(Len(s) + 1) : i /= Len(s) + 1 =>
              (i \in Pairs(s) <=> Pair(s, i)) /\ ~(i > Len(s)) /\ s[i] \in Tile
         /\ Len(s) \in Nat /\ 1 \in 1..(Len(s) + 1) /\ 1 \in Nat /\ Len(s) + 1 \in Nat
         /\ \A i \in 1..(Len(s) + 1) : i = Len(s) + 1 <=> i > Len(s)
<1>1. Len(s) \in Nat
  OBVIOUS
<1>2. \A i \in 1..Len(s) : s[i] \in Tile
  OBVIOUS
<1>3. \A i \in Pairs(s) : i \in 1..Len(s) /\ i < Len(s)
  BY DEF Pairs, Pair
<1>4. \A i \in 1..(Len(s) + 1) : i /= Len(s) + 1 => i \in 1..Len(s) /\ ~(i > Len(s))
  BY <1>1
<1>5. \A i \in 1..Len(s) : i \in Pairs(s) <=> Pair(s, i)
  BY DEF Pairs
<1>6. Pairs(s) \subseteq 1..(Len(s) + 1) /\ \A i \in Pairs(s) : i + 2 <= Len(s) + 1
  BY <1>1, <1>3
<1>7. \A i \in 1..(Len(s) + 1) : i = Len(s) + 1 <=> i > Len(s)
  BY <1>1
<1>8. 1 \in 1..(Len(s) + 1) /\ Len(s) + 1 \in Nat /\ 1 \in Nat
  BY <1>1
<1> QED
  BY <1>1, <1>2, <1>4, <1>5, <1>6, <1>7, <1>8

LEMMA MergeIs ==
  ASSUME NEW s \in Seq(Tile)
  PROVE  \E f : /\ MergeFrom(f, s) /\ Merge(s) = f[1]
                /\ f \in [1..(Len(s) + 1) -> Seq(Tile)]
<1> DEFINE V == Seq(Tile)
           n == Len(s) + 1
           new(i) == IF Pair(s, i) THEN s[i] + 1 ELSE s[i]
           h == [i \in 1..n |-> [r \in V |-> IF i = n THEN r ELSE <<new(i)>> \o r]]
           body(f, i) == IF i > Len(s) THEN <<>>
                         ELSE IF Pair(s, i) THEN <<s[i] + 1>> \o f[i + 2]
                         ELSE <<s[i]>> \o f[i + 1]
<1>0. \A i \in 1..n : i /= n => new(i) \in Tile
  BY PairsAreInside DEF Tile
<1> HIDE DEF new
<1>1. ASSUME NEW i \in 1..n, NEW r \in V
      PROVE  (IF i = n THEN r ELSE <<new(i)>> \o r) \in V
  <2>1. i /= n => <<new(i)>> \o r \in V
    BY <1>0, ConsType
  <2> QED
    BY <2>1
<1>2. h \in [1..n -> [V -> V]]
  BY <1>1
<1>3. \A i \in 1..n : \A r \in V : i /= n => h[i][r] = <<new(i)>> \o r
  OBVIOUS
<1>4. <<>> \in V
  OBVIOUS
<1> HIDE DEF h, V
<1>5. Unrolling(V, <<>>, 1, n, Pairs(s), h)
  BY <1>2, <1>4, PairsAreInside DEF Unrolling
<1>6. PICK f : Unrolled(V, <<>>, 1, n, Pairs(s), h, f)
  BY <1>5, Unroll
<1>7. ASSUME NEW i \in 1..n PROVE f[i] = body(f, i)
  <2>1. f \in [1..n -> V]
    BY <1>6 DEF Unrolled
  <2>2. i /= n => i + 1 \in 1..n /\ (i \in Pairs(s) => i + 2 \in 1..n)
    BY PairsAreInside
  <2>3. i /= n => f[i + 1] \in V /\ (i \in Pairs(s) => f[i + 2] \in V)
    BY <2>1, <2>2
  <2>4. f[i] = IF i = n THEN <<>> ELSE IF i \in Pairs(s) THEN h[i][f[i + 2]] ELSE h[i][f[i + 1]]
    BY <1>6 DEF Unrolled
  <2>5. f[i] = IF i = n THEN <<>> ELSE IF i \in Pairs(s) THEN <<new(i)>> \o f[i + 2]
                                  ELSE <<new(i)>> \o f[i + 1]
    BY <1>3, <2>3, <2>4
  <2>6. (i = n <=> i > Len(s)) /\ (i /= n => (i \in Pairs(s) <=> Pair(s, i)))
    BY PairsAreInside
  <2>7. CASE i = n
    BY <2>5, <2>6, <2>7
  <2>8. CASE i /= n /\ Pair(s, i)
    BY <2>5, <2>6, <2>8 DEF new
  <2>9. CASE i /= n /\ ~Pair(s, i)
    BY <2>5, <2>6, <2>9 DEF new
  <2> QED
    BY <2>7, <2>8, <2>9
<1>8. f \in [1..n -> V]
  BY <1>6 DEF Unrolled
<1>9. MergeFrom(f, s)
  BY <1>7, <1>8 DEF MergeFrom
<1>10. Merge(s) = (CHOOSE g : MergeFrom(g, s))[1]
  BY Zenon DEF Merge, MergeFrom
<1> DEFINE c == CHOOSE g : MergeFrom(g, s)
<1>11. MergeFrom(c, s)
  BY <1>9
<1> HIDE DEF c
<1>12. c = f
  <2> DEFINE P == {i \in 1..n : c[i] = f[i]}
  <2>1. \A i \in 1..n : c[i] = body(c, i)
    BY <1>11 DEF MergeFrom
  <2>2. ASSUME NEW i \in 1..n, \A j \in (i + 1)..n : j \in P
        PROVE  i \in P
    <3>1. i /= n => c[i + 1] = f[i + 1] /\ (i \in Pairs(s) => c[i + 2] = f[i + 2])
      BY <2>2, PairsAreInside
    <3>2. (i = n <=> i > Len(s)) /\ (i /= n => (i \in Pairs(s) <=> Pair(s, i)))
      BY PairsAreInside
    <3>3. body(c, i) = body(f, i)
      BY <3>1, <3>2
    <3> QED
      BY <1>7, <2>1, <3>3
  <2> HIDE DEF P
  <2>3. 1 \in Nat /\ n \in Nat
    BY PairsAreInside
  <2>4. \A i \in 1..n : i \in P
    BY <2>2, <2>3, Downward
  <2>5. \A i \in 1..n : c[i] = f[i]
    BY <2>4 DEF P
  <2>6. c = [i \in 1..n |-> c[i]] /\ f = [i \in 1..n |-> f[i]]
    BY <1>8, <1>11 DEF MergeFrom
  <2>7. [i \in 1..n |-> c[i]] = [i \in 1..n |-> f[i]]
    BY <2>5
  <2> QED
    BY <2>6, <2>7
<1> QED
  BY <1>8, <1>10, <1>11, <1>12 DEF c, V

LEMMA MergeScoreIs ==
  ASSUME NEW s \in Seq(Tile)
  PROVE  \E f : /\ ScoreFrom(f, s) /\ MergeScore(s) = f[1]
                /\ f \in [1..(Len(s) + 1) -> Nat]
<1> DEFINE V == Nat
           n == Len(s) + 1
           new(i) == IF Pair(s, i) THEN Shown(s[i] + 1) ELSE 0
           h == [i \in 1..n |-> [r \in V |-> IF i = n THEN r ELSE new(i) + r]]
           body(f, i) == IF i > Len(s) THEN 0
                         ELSE IF Pair(s, i) THEN Shown(s[i] + 1) + f[i + 2]
                         ELSE f[i + 1]
<1>0. \A i \in 1..n : i /= n => new(i) \in Nat
  <2>1. \A i \in 1..n : i /= n => s[i] + 1 \in Nat
    BY PairsAreInside DEF Tile
  <2> QED
    BY <2>1, ShownDoubles
<1> HIDE DEF new
<1>1. ASSUME NEW i \in 1..n, NEW r \in V
      PROVE  (IF i = n THEN r ELSE new(i) + r) \in V
  <2>1. i /= n => new(i) + r \in V
    BY <1>0
  <2> QED
    BY <2>1
<1>2. h \in [1..n -> [V -> V]]
  BY <1>1
<1>3. \A i \in 1..n : \A r \in V : i /= n => h[i][r] = new(i) + r
  OBVIOUS
<1>4. 0 \in V
  OBVIOUS
<1> HIDE DEF h, V
<1>5. Unrolling(V, 0, 1, n, Pairs(s), h)
  BY <1>2, <1>4, PairsAreInside DEF Unrolling
<1>6. PICK f : Unrolled(V, 0, 1, n, Pairs(s), h, f)
  BY <1>5, Unroll
<1>7. ASSUME NEW i \in 1..n PROVE f[i] = body(f, i)
  <2>1. f \in [1..n -> V]
    BY <1>6 DEF Unrolled
  <2>2. i /= n => i + 1 \in 1..n /\ (i \in Pairs(s) => i + 2 \in 1..n)
    BY PairsAreInside
  <2>3. i /= n => f[i + 1] \in V /\ (i \in Pairs(s) => f[i + 2] \in V)
    BY <2>1, <2>2
  <2>4. f[i] = IF i = n THEN 0 ELSE IF i \in Pairs(s) THEN h[i][f[i + 2]] ELSE h[i][f[i + 1]]
    BY <1>6 DEF Unrolled
  <2>5. f[i] = IF i = n THEN 0 ELSE IF i \in Pairs(s) THEN new(i) + f[i + 2]
                                  ELSE new(i) + f[i + 1]
    BY <1>3, <2>3, <2>4
  <2>6. (i = n <=> i > Len(s)) /\ (i /= n => (i \in Pairs(s) <=> Pair(s, i)))
    BY PairsAreInside
  <2>7. CASE i = n
    BY <2>5, <2>6, <2>7
  <2>8. CASE i /= n /\ Pair(s, i)
    BY <2>5, <2>6, <2>8 DEF new
  <2>9. CASE i /= n /\ ~Pair(s, i)
    <3>1. new(i) = 0 /\ f[i + 1] \in Nat
      BY <2>3, <2>9 DEF new, V
    <3>2. f[i] = new(i) + f[i + 1]
      BY <2>5, <2>6, <2>9
    <3>3. body(f, i) = f[i + 1]
      BY <2>6, <2>9
    <3> QED
      BY <3>1, <3>2, <3>3
  <2> QED
    BY <2>7, <2>8, <2>9
<1>8. f \in [1..n -> V]
  BY <1>6 DEF Unrolled
<1>9. ScoreFrom(f, s)
  BY <1>7, <1>8 DEF ScoreFrom
<1>10. MergeScore(s) = (CHOOSE g : ScoreFrom(g, s))[1]
  BY Zenon DEF MergeScore, ScoreFrom
<1> DEFINE c == CHOOSE g : ScoreFrom(g, s)
<1>11. ScoreFrom(c, s)
  BY <1>9
<1> HIDE DEF c
<1>12. c = f
  <2> DEFINE P == {i \in 1..n : c[i] = f[i]}
  <2>1. \A i \in 1..n : c[i] = body(c, i)
    BY <1>11 DEF ScoreFrom
  <2>2. ASSUME NEW i \in 1..n, \A j \in (i + 1)..n : j \in P
        PROVE  i \in P
    <3>1. i /= n => c[i + 1] = f[i + 1] /\ (i \in Pairs(s) => c[i + 2] = f[i + 2])
      BY <2>2, PairsAreInside
    <3>2. (i = n <=> i > Len(s)) /\ (i /= n => (i \in Pairs(s) <=> Pair(s, i)))
      BY PairsAreInside
    <3>3. body(c, i) = body(f, i)
      BY <3>1, <3>2
    <3> QED
      BY <1>7, <2>1, <3>3
  <2> HIDE DEF P
  <2>3. 1 \in Nat /\ n \in Nat
    BY PairsAreInside
  <2>4. \A i \in 1..n : i \in P
    BY <2>2, <2>3, Downward
  <2>5. \A i \in 1..n : c[i] = f[i]
    BY <2>4 DEF P
  <2>6. c = [i \in 1..n |-> c[i]] /\ f = [i \in 1..n |-> f[i]]
    BY <1>8, <1>11 DEF ScoreFrom
  <2>7. [i \in 1..n |-> c[i]] = [i \in 1..n |-> f[i]]
    BY <2>5
  <2> QED
    BY <2>6, <2>7
<1> QED
  BY <1>8, <1>10, <1>11, <1>12 DEF c, V

\* What comes after a suffix does not depend on what comes before it.
LEMMA MergeSuffix ==
  ASSUME NEW s \in Seq(Tile), NEW d \in 0..Len(s), NEW f, NEW g,
         MergeFrom(f, s), MergeFrom(g, Rest(s, d))
  PROVE  \A i \in 1..(Len(s) - d + 1) : f[i + d] = g[i]
<1> DEFINE n == Len(s) - d
           r == Rest(s, d)
           P == {i \in 1..(n + 1) : f[i + d] = g[i]}
<1>1. Len(s) \in Nat /\ n \in Nat /\ d \in Nat /\ Len(s) = n + d
  OBVIOUS
<1>2. Len(r) = n /\ \A i \in 1..n : r[i] = s[i + d]
  BY RestIs
<1> HIDE DEF n, r
<1>3. ASSUME NEW i \in 1..(n + 1), \A j \in (i + 1)..(n + 1) : j \in P
      PROVE  i \in P
  <2>1. i + d \in 1..(Len(s) + 1) /\ i \in 1..(Len(r) + 1)
    BY <1>1, <1>2
  <2>2. /\ f[i + d] = IF i + d > Len(s) THEN <<>>
                      ELSE IF Pair(s, i + d) THEN <<s[i + d] + 1>> \o f[i + d + 2]
                      ELSE <<s[i + d]>> \o f[i + d + 1]
        /\ g[i] = IF i > Len(r) THEN <<>>
                  ELSE IF Pair(r, i) THEN <<r[i] + 1>> \o g[i + 2]
                  ELSE <<r[i]>> \o g[i + 1]
    BY <2>1 DEF MergeFrom, r
  <2>3. CASE i > n
    BY <1>1, <1>2, <2>2, <2>3
  <2>4. CASE ~(i > n)
    <3>1. i \in 1..n /\ ~(i + d > Len(s)) /\ ~(i > Len(r)) /\ r[i] = s[i + d]
      BY <1>1, <1>2, <2>4
    <3>2. Pair(s, i + d) <=> Pair(r, i)
      <4>1. CASE i < n
        <5>1. i + 1 \in 1..n /\ i + 1 + d = i + d + 1 /\ i + d < Len(s) /\ i < Len(r)
          BY <1>1, <1>2, <4>1
        <5>2. r[i + 1] = s[i + d + 1]
          BY <1>2, <5>1
        <5> QED
          BY <3>1, <5>1, <5>2 DEF Pair
      <4>2. CASE ~(i < n)
        BY <1>1, <1>2, <3>1, <4>2 DEF Pair
      <4> QED
        BY <4>1, <4>2
    <3>3. f[i + d + 1] = g[i + 1]
      <4>1. i + 1 \in (i + 1)..(n + 1) /\ i + 1 + d = i + d + 1
        BY <1>1, <3>1
      <4> QED
        BY <1>3, <4>1
    <3>4. Pair(r, i) => f[i + d + 2] = g[i + 2]
      <4>1. SUFFICES ASSUME Pair(r, i) PROVE f[i + d + 2] = g[i + 2]
        OBVIOUS
      <4>2. i + 2 \in (i + 1)..(n + 1) /\ i + 2 + d = i + d + 2
        BY <1>1, <1>2, <3>1, <4>1 DEF Pair
      <4> QED
        BY <1>3, <4>2
    <3> QED
      BY <2>2, <3>1, <3>2, <3>3, <3>4
  <2> QED
    BY <2>3, <2>4
<1> HIDE DEF P
<1>4. 1 \in Nat /\ n + 1 \in Nat
  BY <1>1
<1>5. \A i \in 1..(n + 1) : i \in P
  BY <1>3, <1>4, Downward
<1> QED
  BY <1>5 DEF P, n

LEMMA ScoreSuffix ==
  ASSUME NEW s \in Seq(Tile), NEW d \in 0..Len(s), NEW f, NEW g,
         ScoreFrom(f, s), ScoreFrom(g, Rest(s, d))
  PROVE  \A i \in 1..(Len(s) - d + 1) : f[i + d] = g[i]
<1> DEFINE n == Len(s) - d
           r == Rest(s, d)
           P == {i \in 1..(n + 1) : f[i + d] = g[i]}
<1>1. Len(s) \in Nat /\ n \in Nat /\ d \in Nat /\ Len(s) = n + d
  OBVIOUS
<1>2. Len(r) = n /\ \A i \in 1..n : r[i] = s[i + d]
  BY RestIs
<1> HIDE DEF n, r
<1>3. ASSUME NEW i \in 1..(n + 1), \A j \in (i + 1)..(n + 1) : j \in P
      PROVE  i \in P
  <2>1. i + d \in 1..(Len(s) + 1) /\ i \in 1..(Len(r) + 1)
    BY <1>1, <1>2
  <2>2. /\ f[i + d] = IF i + d > Len(s) THEN 0
                      ELSE IF Pair(s, i + d) THEN Shown(s[i + d] + 1) + f[i + d + 2]
                      ELSE f[i + d + 1]
        /\ g[i] = IF i > Len(r) THEN 0
                  ELSE IF Pair(r, i) THEN Shown(r[i] + 1) + g[i + 2]
                  ELSE g[i + 1]
    BY <2>1 DEF ScoreFrom, r
  <2>3. CASE i > n
    BY <1>1, <1>2, <2>2, <2>3
  <2>4. CASE ~(i > n)
    <3>1. i \in 1..n /\ ~(i + d > Len(s)) /\ ~(i > Len(r)) /\ r[i] = s[i + d]
      BY <1>1, <1>2, <2>4
    <3>2. Pair(s, i + d) <=> Pair(r, i)
      <4>1. CASE i < n
        <5>1. i + 1 \in 1..n /\ i + 1 + d = i + d + 1 /\ i + d < Len(s) /\ i < Len(r)
          BY <1>1, <1>2, <4>1
        <5>2. r[i + 1] = s[i + d + 1]
          BY <1>2, <5>1
        <5> QED
          BY <3>1, <5>1, <5>2 DEF Pair
      <4>2. CASE ~(i < n)
        BY <1>1, <1>2, <3>1, <4>2 DEF Pair
      <4> QED
        BY <4>1, <4>2
    <3>3. f[i + d + 1] = g[i + 1]
      <4>1. i + 1 \in (i + 1)..(n + 1) /\ i + 1 + d = i + d + 1
        BY <1>1, <3>1
      <4> QED
        BY <1>3, <4>1
    <3>4. Pair(r, i) => f[i + d + 2] = g[i + 2]
      <4>1. SUFFICES ASSUME Pair(r, i) PROVE f[i + d + 2] = g[i + 2]
        OBVIOUS
      <4>2. i + 2 \in (i + 1)..(n + 1) /\ i + 2 + d = i + d + 2
        BY <1>1, <1>2, <3>1, <4>1 DEF Pair
      <4> QED
        BY <1>3, <4>2
    <3> QED
      BY <2>2, <3>1, <3>2, <3>3, <3>4
  <2> QED
    BY <2>3, <2>4
<1> HIDE DEF P
<1>4. 1 \in Nat /\ n + 1 \in Nat
  BY <1>1
<1>5. \A i \in 1..(n + 1) : i \in P
  BY <1>3, <1>4, Downward
<1> QED
  BY <1>5 DEF P, n

\* The rule: the first two tiles merge, or the first one stays.
LEMMA MergeStep ==
  ASSUME NEW s \in Seq(Tile)
  PROVE  /\ Merge(s) \in Seq(Tile) /\ MergeScore(s) \in Nat
         /\ Len(s) = 0 => Merge(s) = <<>> /\ MergeScore(s) = 0
         /\ Len(s) > 0 /\ Pair(s, 1) =>
              /\ Merge(s) = <<s[1] + 1>> \o Merge(Rest(s, 2))
              /\ MergeScore(s) = Shown(s[1] + 1) + MergeScore(Rest(s, 2))
         /\ Len(s) > 0 /\ ~Pair(s, 1) =>
              /\ Merge(s) = <<s[1]>> \o Merge(Rest(s, 1))
              /\ MergeScore(s) = MergeScore(Rest(s, 1))
<1>0. Len(s) \in Nat /\ 1 \in 1..(Len(s) + 1)
  OBVIOUS
<1>1. PICK f : MergeFrom(f, s) /\ Merge(s) = f[1] /\ f \in [1..(Len(s) + 1) -> Seq(Tile)]
  BY MergeIs
<1>2. PICK e : ScoreFrom(e, s) /\ MergeScore(s) = e[1] /\ e \in [1..(Len(s) + 1) -> Nat]
  BY MergeScoreIs
<1>3. Merge(s) \in Seq(Tile) /\ MergeScore(s) \in Nat
  BY <1>0, <1>1, <1>2
<1>4. /\ f[1] = IF 1 > Len(s) THEN <<>>
                ELSE IF Pair(s, 1) THEN <<s[1] + 1>> \o f[1 + 2] ELSE <<s[1]>> \o f[1 + 1]
      /\ e[1] = IF 1 > Len(s) THEN 0
                ELSE IF Pair(s, 1) THEN Shown(s[1] + 1) + e[1 + 2] ELSE e[1 + 1]
  BY <1>0, <1>1, <1>2 DEF MergeFrom, ScoreFrom
<1>5. ASSUME NEW d \in 0..Len(s) PROVE f[1 + d] = Merge(Rest(s, d)) /\ e[1 + d] = MergeScore(Rest(s, d))
  <2> DEFINE r == Rest(s, d)
  <2>1. r \in Seq(Tile) /\ 1 \in 1..(Len(s) - d + 1)
    BY <1>0, RestIs
  <2>2. PICK g : MergeFrom(g, r) /\ Merge(r) = g[1]
    BY <2>1, MergeIs
  <2>3. PICK k : ScoreFrom(k, r) /\ MergeScore(r) = k[1]
    BY <2>1, MergeScoreIs
  <2>4. f[1 + d] = g[1]
    BY <1>1, <2>1, <2>2, MergeSuffix
  <2>5. e[1 + d] = k[1]
    BY <1>2, <2>1, <2>3, ScoreSuffix
  <2> QED
    BY <2>2, <2>3, <2>4, <2>5
<1>6. CASE Len(s) = 0
  BY <1>0, <1>1, <1>2, <1>3, <1>4, <1>6
<1>7. CASE Len(s) > 0 /\ Pair(s, 1)
  <2>1. 2 \in 0..Len(s) /\ ~(1 > Len(s))
    BY <1>0, <1>7 DEF Pair
  <2>2. f[1 + 2] = Merge(Rest(s, 2)) /\ e[1 + 2] = MergeScore(Rest(s, 2))
    BY <1>5, <2>1
  <2> QED
    BY <1>0, <1>1, <1>2, <1>3, <1>4, <1>7, <2>1, <2>2
<1>8. CASE Len(s) > 0 /\ ~Pair(s, 1)
  <2>1. 1 \in 0..Len(s) /\ ~(1 > Len(s))
    BY <1>0, <1>8
  <2>2. f[1 + 1] = Merge(Rest(s, 1)) /\ e[1 + 1] = MergeScore(Rest(s, 1))
    BY <1>5, <2>1
  <2> QED
    BY <1>0, <1>1, <1>2, <1>3, <1>4, <1>8, <2>1, <2>2
<1> QED
  BY <1>0, <1>6, <1>7, <1>8
-----------------------------------------------------------------------------
(* What tiles are worth.                                                   *)

LEMMA WorthType == \A e \in Nat : Worth(e) \in Int
<1> SUFFICES ASSUME NEW e \in Nat PROVE Worth(e) \in Int
  OBVIOUS
<1>1. Shown(e) \in Nat
  BY ShownDoubles
<1>2. PICK v \in Nat : v = Shown(e)
  BY <1>1
<1>3. (e - 1) * v \in Int
  OBVIOUS
<1> QED
  BY <1>2, <1>3 DEF Worth

\* Merging two tiles scores what the new one is worth more.
LEMMA WorthOfPair ==
  ASSUME NEW e \in Tile
  PROVE  Worth(e + 1) = Worth(e) + Worth(e) + Shown(e + 1)
<1>1. e \in Nat /\ e /= 0 /\ e + 1 /= 0 /\ e + 1 - 1 = e
  BY DEF Tile
<1>2. PICK v \in Nat : v = Shown(e)
  BY <1>1, ShownDoubles
<1>3. Shown(e + 1) = 2 * v
  BY <1>1, <1>2, ShownDoubles
<1>4. Worth(e) = (e - 1) * v /\ Worth(e + 1) = e * (2 * v)
  BY <1>1, <1>2, <1>3 DEF Worth
<1>5. e * (2 * v) = (e - 1) * v + (e - 1) * v + 2 * v
  BY <1>1
<1> QED
  BY <1>3, <1>4, <1>5

Worths(s) == [i \in 0..(Len(s) - 1) |-> Worth(s[i + 1])]
SeqWorth(s) == Total(Worths(s), Len(s))

LEMMA WorthsType ==
  ASSUME NEW s \in Seq(Tile)
  PROVE  SeqWorth(s) \in Int /\ \A i \in 0..(Len(s) - 1) : Worths(s)[i] \in Int
<1>1. Len(s) \in Nat /\ \A i \in 0..(Len(s) - 1) : i + 1 \in 1..Len(s)
  OBVIOUS
<1>2. \A i \in 0..(Len(s) - 1) : s[i + 1] \in Nat
  BY <1>1 DEF Tile
<1>3. \A i \in 0..(Len(s) - 1) : Worths(s)[i] \in Int
  BY <1>2, WorthType DEF Worths
<1>4. Total(Worths(s), Len(s)) \in Int
  BY <1>1, <1>3, TotalType
<1> QED
  BY <1>3, <1>4 DEF SeqWorth

LEMMA SeqWorthNone == SeqWorth(<<>>) = 0
  BY TotalNone DEF SeqWorth

LEMMA SeqWorthCons ==
  ASSUME NEW a \in Tile, NEW s \in Seq(Tile)
  PROVE  SeqWorth(<<a>> \o s) = Worth(a) + SeqWorth(s)
<1> DEFINE tt == <<a>> \o s
           n == Len(s)
<1>1. tt \in Seq(Tile) /\ Len(tt) = n + 1 /\ n \in Nat /\ tt[1] = a
  BY ConsType
<1>2. \A i \in 1..n : tt[i + 1] = s[i]
  OBVIOUS
<1> HIDE DEF tt
<1>3. \A i \in 0..n : Worths(tt)[i] \in Int /\ Worths(tt)[i] = Worth(tt[i + 1])
  <2>1. Len(tt) - 1 = n
    BY <1>1
  <2> QED
    BY <1>1, <2>1, WorthsType DEF Worths
<1>4. \A i \in 0..(n - 1) : Worths(s)[i] = Worths(tt)[i + 1]
  <2> SUFFICES ASSUME NEW i \in 0..(n - 1) PROVE Worths(s)[i] = Worths(tt)[i + 1]
    OBVIOUS
  <2>1. i + 1 \in 0..n /\ i + 1 \in 1..n
    BY <1>1
  <2>2. Worths(tt)[i + 1] = Worth(tt[i + 1 + 1])
    BY <1>3, <2>1
  <2>3. tt[i + 1 + 1] = s[i + 1]
    BY <1>2, <2>1
  <2>4. Worths(s)[i] = Worth(s[i + 1])
    BY DEF Worths
  <2> QED
    BY <2>2, <2>3, <2>4
<1>5. Total(Worths(tt), n + 1) = Worths(tt)[0] + Total(Worths(s), n)
  BY <1>1, <1>3, <1>4, TotalFirst
<1>6. Worths(tt)[0] = Worth(a)
  BY <1>1, <1>3
<1> QED
  BY <1>1, <1>5, <1>6 DEF SeqWorth, tt

LEMMA SameSeq ==
  ASSUME NEW s \in Seq(Tile), NEW tt \in Seq(Tile), Len(s) = Len(tt),
         \A i \in 1..Len(s) : s[i] = tt[i]
  PROVE  s = tt
  OBVIOUS

LEMMA HeadAndRest ==
  ASSUME NEW s \in Seq(Tile), Len(s) > 0
  PROVE  s[1] \in Tile /\ s = <<s[1]>> \o Rest(s, 1)
<1> DEFINE r == Rest(s, 1)
<1>1. Len(s) \in Nat /\ 1 \in 0..Len(s) /\ s[1] \in Tile
  OBVIOUS
<1>2. r \in Seq(Tile) /\ Len(r) = Len(s) - 1 /\ \A i \in 1..(Len(s) - 1) : r[i] = s[i + 1]
  BY <1>1, RestIs
<1> HIDE DEF r
<1> DEFINE tt == <<s[1]>> \o r
<1>3. tt \in Seq(Tile) /\ Len(tt) = Len(s)
  BY <1>1, <1>2, ConsType
<1>4. ASSUME NEW i \in 1..Len(s) PROVE s[i] = tt[i]
  <2>1. CASE i = 1
    BY <1>2, <2>1
  <2>2. CASE i /= 1
    <3>1. i - 1 \in 1..(Len(s) - 1) /\ i - 1 + 1 = i
      BY <1>1, <2>2
    <3>2. tt[i] = r[i - 1]
      BY <1>1, <1>2, <2>2, <3>1
    <3> QED
      BY <1>2, <3>1, <3>2
  <2> QED
    BY <2>1, <2>2
<1> HIDE DEF tt
<1>5. s = tt
  BY <1>3, <1>4, SameSeq
<1> QED
  BY <1>1, <1>5 DEF tt, r

LEMMA RestOfRest ==
  ASSUME NEW s \in Seq(Tile), Len(s) > 1
  PROVE  Rest(Rest(s, 1), 1) = Rest(s, 2) /\ Rest(s, 1)[1] = s[2] /\ Len(Rest(s, 1)) > 0
<1>1. Len(s) \in Nat /\ 1 \in 0..Len(s) /\ 2 \in 0..Len(s)
  OBVIOUS
<1> DEFINE r == Rest(s, 1)
           tt == Rest(s, 2)
           u == Rest(r, 1)
<1>2. r \in Seq(Tile) /\ Len(r) = Len(s) - 1 /\ \A i \in 1..(Len(s) - 1) : r[i] = s[i + 1]
  BY <1>1, RestIs
<1>3. tt \in Seq(Tile) /\ Len(tt) = Len(s) - 2 /\ \A i \in 1..(Len(s) - 2) : tt[i] = s[i + 2]
  BY <1>1, RestIs
<1> HIDE DEF r, tt
<1>4. 1 \in 0..Len(r)
  BY <1>1, <1>2
<1>5. u \in Seq(Tile) /\ Len(u) = Len(r) - 1 /\ \A i \in 1..(Len(r) - 1) : u[i] = r[i + 1]
  BY <1>2, <1>4, RestIs
<1> HIDE DEF u
<1>6. ASSUME NEW i \in 1..Len(u) PROVE u[i] = tt[i]
  <2>1. i \in 1..(Len(r) - 1) /\ i + 1 \in 1..(Len(s) - 1) /\ i \in 1..(Len(s) - 2) /\ i + 1 + 1 = i + 2
    BY <1>1, <1>2, <1>5
  <2>2. u[i] = r[i + 1] /\ r[i + 1] = s[i + 1 + 1] /\ tt[i] = s[i + 2]
    BY <1>2, <1>3, <1>5, <2>1
  <2> QED
    BY <2>1, <2>2
<1>l. Len(u) = Len(tt)
  BY <1>1, <1>2, <1>3, <1>5
<1>7. u = tt
  BY <1>3, <1>5, <1>6, <1>l, SameSeq
<1>8. r[1] = s[2] /\ Len(r) > 0
  BY <1>1, <1>2
<1> QED
  BY <1>7, <1>8 DEF u, tt, r

\* Merging keeps what the tiles are worth, up to the score, and makes no
\* line longer.
LEMMA MergeWorth ==
  ASSUME NEW s \in Seq(Tile)
  PROVE  Len(Merge(s)) <= Len(s) /\ SeqWorth(Merge(s)) = SeqWorth(s) + MergeScore(s)
<1> DEFINE Kept(r) == Len(Merge(r)) <= Len(r) /\ SeqWorth(Merge(r)) = SeqWorth(r) + MergeScore(r)
           P == {k \in Nat : \A r \in Seq(Tile) : Len(r) <= k => Kept(r)}
<1>0. ASSUME NEW r \in Seq(Tile), Len(r) = 0 PROVE Kept(r)
  <2>0. r = <<>> /\ Len(<<>>) = 0 /\ 0 + 0 = 0 /\ 0 <= 0
    BY <1>0
  <2>1. Merge(r) = <<>> /\ MergeScore(r) = 0
    BY <1>0, MergeStep
  <2> QED
    BY <2>0, <2>1, SeqWorthNone
<1>1. 0 \in P
  BY <1>0
<1>2. ASSUME NEW k \in Nat, k \in P PROVE k + 1 \in P
  <2> SUFFICES ASSUME NEW r \in Seq(Tile), Len(r) <= k + 1 PROVE Kept(r)
    OBVIOUS
  <2>1. Len(r) \in Nat
    OBVIOUS
  <2>2. CASE Len(r) = 0
    BY <1>0, <2>2
  <2>3. ASSUME Len(r) > 0 PROVE r[1] \in Tile /\ Rest(r, 1) \in Seq(Tile) /\ Len(Rest(r, 1)) = Len(r) - 1
                                /\ SeqWorth(r) = Worth(r[1]) + SeqWorth(Rest(r, 1))
    <3>1. 1 \in 0..Len(r)
      BY <2>1, <2>3
    <3>2. Rest(r, 1) \in Seq(Tile) /\ Len(Rest(r, 1)) = Len(r) - 1
      BY <3>1, RestIs
    <3>3. r[1] \in Tile /\ r = <<r[1]>> \o Rest(r, 1)
      BY <2>3, HeadAndRest
    <3>4. SeqWorth(<<r[1]>> \o Rest(r, 1)) = Worth(r[1]) + SeqWorth(Rest(r, 1))
      BY <3>2, <3>3, SeqWorthCons
    <3> QED
      BY <3>2, <3>3, <3>4
  <2>4. CASE Len(r) > 0 /\ ~Pair(r, 1)
    <3> DEFINE q == Rest(r, 1)
    <3>1. q \in Seq(Tile) /\ Len(q) = Len(r) - 1 /\ r[1] \in Tile
          /\ SeqWorth(r) = Worth(r[1]) + SeqWorth(q)
      BY <2>3, <2>4
    <3>2. Merge(r) = <<r[1]>> \o Merge(q) /\ MergeScore(r) = MergeScore(q)
      BY <2>4, MergeStep
    <3> HIDE DEF q
    <3>3. Merge(q) \in Seq(Tile) /\ MergeScore(q) \in Nat
      BY <3>1, MergeStep
    <3>4. Len(q) <= k
      BY <2>1, <3>1
    <3>5. Len(Merge(q)) <= Len(q) /\ SeqWorth(Merge(q)) = SeqWorth(q) + MergeScore(q)
      BY <1>2, <3>1, <3>4
    <3>6. Len(<<r[1]>> \o Merge(q)) = 1 + Len(Merge(q)) /\ Len(Merge(q)) \in Nat /\ Len(q) \in Nat
      BY <3>1, <3>3, ConsType
    <3>7. SeqWorth(<<r[1]>> \o Merge(q)) = Worth(r[1]) + SeqWorth(Merge(q))
      BY <3>1, <3>3, SeqWorthCons
    <3>8. Worth(r[1]) \in Int /\ SeqWorth(q) \in Int /\ SeqWorth(Merge(q)) \in Int
      BY <3>1, <3>3, WorthType, WorthsType DEF Tile
    <3>9. Len(Merge(r)) <= Len(r)
      BY <2>1, <3>1, <3>2, <3>5, <3>6
    <3>10. SeqWorth(Merge(r)) = SeqWorth(r) + MergeScore(r)
      BY <3>1, <3>2, <3>3, <3>5, <3>7, <3>8
    <3> QED
      BY <3>9, <3>10
  <2>5. CASE Len(r) > 0 /\ Pair(r, 1)
    <3> DEFINE q == Rest(r, 1)
               tt == Rest(r, 2)
               e == r[1]
    <3>0. Len(r) > 1 /\ r[2] = e
      BY <2>1, <2>5 DEF Pair
    <3>1. q \in Seq(Tile) /\ Len(q) = Len(r) - 1 /\ e \in Tile
          /\ SeqWorth(r) = Worth(e) + SeqWorth(q)
      BY <2>3, <2>5
    <3>2. tt = Rest(q, 1) /\ q[1] = e /\ Len(q) > 0
      BY <3>0, RestOfRest
    <3>3. Merge(r) = <<e + 1>> \o Merge(tt) /\ MergeScore(r) = Shown(e + 1) + MergeScore(tt)
      BY <2>5, MergeStep
    <3>a. 2 \in 0..Len(r)
      BY <2>1, <3>0
    <3>4. tt \in Seq(Tile) /\ Len(tt) = Len(r) - 2
      BY <3>a, RestIs
    <3> HIDE DEF q, tt, e
    <3>5. SeqWorth(q) = Worth(e) + SeqWorth(tt)
      <4>1. q = <<e>> \o tt
        BY <3>1, <3>2, HeadAndRest
      <4> QED
        BY <3>1, <3>4, <4>1, SeqWorthCons
    <3>6. Merge(tt) \in Seq(Tile) /\ MergeScore(tt) \in Nat
      BY <3>4, MergeStep
    <3>7. Len(tt) <= k
      BY <2>1, <3>4
    <3>8. Len(Merge(tt)) <= Len(tt) /\ SeqWorth(Merge(tt)) = SeqWorth(tt) + MergeScore(tt)
      BY <1>2, <3>4, <3>7
    <3>b. e + 1 \in Tile /\ e \in Nat
      BY <3>1 DEF Tile
    <3>9. Len(<<e + 1>> \o Merge(tt)) = 1 + Len(Merge(tt)) /\ Len(Merge(tt)) \in Nat /\ Len(tt) \in Nat
      BY <3>4, <3>6, <3>b, ConsType
    <3>10. SeqWorth(<<e + 1>> \o Merge(tt)) = Worth(e + 1) + SeqWorth(Merge(tt))
      BY <3>6, <3>b, SeqWorthCons
    <3>11. Worth(e + 1) = Worth(e) + Worth(e) + Shown(e + 1)
      BY <3>1, WorthOfPair
    <3>12. Worth(e) \in Int /\ SeqWorth(tt) \in Int /\ Shown(e + 1) \in Nat
      BY <3>4, <3>b, WorthType, WorthsType, ShownDoubles DEF Tile
    <3>13. Len(Merge(r)) <= Len(r)
      BY <2>1, <3>3, <3>4, <3>8, <3>9
    <3>14. SeqWorth(Merge(r)) = SeqWorth(r) + MergeScore(r)
      BY <3>1, <3>3, <3>5, <3>6, <3>8, <3>10, <3>11, <3>12
    <3> QED
      BY <3>13, <3>14
  <2> QED
    BY <2>1, <2>2, <2>4, <2>5
<1> HIDE DEF P
<1>3. \A k \in Nat : k \in P
  BY <1>1, <1>2, Induction
<1>4. Len(s) \in Nat /\ Len(s) <= Len(s)
  OBVIOUS
<1> QED
  BY <1>3, <1>4 DEF P

LEMMA TotalZeros ==
  ASSUME NEW n \in Nat, NEW m \in 0..n, NEW f,
         \A i \in 0..(n - 1) : f[i] \in Int /\ (m <= i => f[i] = 0)
  PROVE  Total(f, n) = Total(f, m)
<1> DEFINE P == {k \in Nat : m + k <= n => Total(f, m + k) = Total(f, m)}
<1>0. m \in Nat
  OBVIOUS
<1>1. 0 \in P
  <2>1. m + 0 = m
    BY <1>0
  <2> QED
    BY <2>1
<1>2. ASSUME NEW k \in Nat, k \in P PROVE k + 1 \in P
  <2>1. SUFFICES ASSUME m + (k + 1) <= n PROVE Total(f, m + (k + 1)) = Total(f, m)
    OBVIOUS
  <2>2. Total(f, m + k) = Total(f, m)
    BY <1>0, <1>2, <2>1
  <2>3. m + k \in Nat /\ m + k \in 0..(n - 1) /\ m <= m + k /\ m + (k + 1) = m + k + 1
    BY <1>0, <2>1
  <2>4. \A i \in 0..(m + k) : f[i] \in Int
    BY <1>0, <2>3
  <2>5. Total(f, m + k) \in Int /\ Total(f, m + k + 1) = Total(f, m + k) + f[m + k]
    BY <2>3, <2>4, TotalOneMore
  <2>6. f[m + k] = 0
    BY <2>3
  <2>7. Total(f, m + k + 1) = Total(f, m + k)
    BY <2>5, <2>6
  <2> QED
    BY <2>2, <2>3, <2>7
<1> HIDE DEF P
<1>3. \A k \in Nat : k \in P
  BY <1>1, <1>2, Induction
<1>4. n - m \in Nat /\ m + (n - m) = n /\ n <= n
  BY <1>0
<1>5. n - m \in P
  BY <1>3, <1>4
<1> QED
  BY <1>4, <1>5 DEF P

LineWorth(row, n) == Total([i \in 0..(n - 1) |-> Worth(row[i])], n)

LEMMA TilesWorth ==
  ASSUME NEW n \in Nat, NEW row, \A i \in 0..(n - 1) : row[i] \in Nat
  PROVE  /\ Tiles(row, n) \in Seq(Tile) /\ Len(Tiles(row, n)) <= n
         /\ SeqWorth(Tiles(row, n)) = LineWorth(row, n)
<1> DEFINE w == [i \in 0..(n - 1) |-> Worth(row[i])]
<1>1. PICK f : /\ TilesFrom(f, row, n) /\ Tiles(row, n) = f[0]
               /\ f \in [0..n -> Seq(Tile)]
  BY TilesIs DEF Tile
<1> DEFINE P == {i \in 0..n : Len(f[i]) <= n - i /\ Total(w, n) = Total(w, i) + SeqWorth(f[i])}
<1>2. \A i \in 0..(n - 1) : w[i] \in Int /\ w[i] = Worth(row[i])
  BY WorthType
<1> HIDE DEF w
<1>3. \A i \in 0..n : f[i] = IF i = n THEN <<>> ELSE IF row[i] = 0 THEN f[i + 1]
                                               ELSE <<row[i]>> \o f[i + 1]
  BY <1>1 DEF TilesFrom
<1>4. ASSUME NEW i \in 0..n, \A j \in (i + 1)..n : j \in P PROVE i \in P
  <2>1. CASE i = n
    <3>0. f[i] = <<>>
      BY <1>3, <2>1
    <3>1. f[n] = <<>> /\ Len(<<>>) = 0 /\ n - n = 0 /\ 0 <= 0
      BY <2>1, <3>0
    <3>2. Total(w, n) \in Int
      BY <1>2, TotalType
    <3>3. Total(w, n) = Total(w, n) + 0
      BY <3>2
    <3> QED
      BY <2>1, <3>1, <3>3, SeqWorthNone
  <2>2. CASE i /= n
    <3>1. i \in Nat /\ i + 1 \in (i + 1)..n /\ i + 1 \in 0..n /\ i \in 0..(n - 1)
      BY <2>2
    <3>2. Len(f[i + 1]) <= n - (i + 1) /\ Total(w, n) = Total(w, i + 1) + SeqWorth(f[i + 1])
      BY <1>4, <3>1
    <3>3. f[i + 1] \in Seq(Tile)
      BY <1>1, <3>1
    <3>a. \A j \in 0..i : w[j] \in Int
      BY <1>2, <3>1
    <3>4. Total(w, i) \in Int /\ Total(w, i + 1) = Total(w, i) + w[i]
      BY <3>1, <3>a, TotalOneMore
    <3>5. w[i] = Worth(row[i]) /\ w[i] \in Int /\ row[i] \in Nat
      BY <1>2, <3>1
    <3>6. SeqWorth(f[i + 1]) \in Int /\ Len(f[i + 1]) \in Nat
      BY <3>3, WorthsType
    <3>7. CASE row[i] = 0
      <4>1. w[i] = 0
        BY <3>5, <3>7 DEF Worth
      <4>2. f[i] = f[i + 1]
        BY <1>3, <2>2, <3>7
      <4>3. Total(w, n) = Total(w, i) + SeqWorth(f[i])
        BY <3>2, <3>4, <3>6, <4>1, <4>2
      <4>4. Len(f[i]) <= n - i
        BY <3>1, <3>2, <3>6, <4>2
      <4> QED
        BY <4>3, <4>4
    <3>8. CASE row[i] /= 0
      <4>1. row[i] \in Tile
        BY <3>5, <3>8 DEF Tile
      <4>2. f[i] = <<row[i]>> \o f[i + 1]
        BY <1>3, <2>2, <3>8
      <4>3. SeqWorth(<<row[i]>> \o f[i + 1]) = Worth(row[i]) + SeqWorth(f[i + 1])
        BY <3>3, <4>1, SeqWorthCons
      <4>4. Len(<<row[i]>> \o f[i + 1]) = 1 + Len(f[i + 1])
        BY <3>3, <4>1, ConsType
      <4>5. Total(w, n) = Total(w, i) + SeqWorth(f[i])
        BY <3>2, <3>4, <3>5, <3>6, <4>2, <4>3
      <4>6. Len(f[i]) <= n - i
        BY <3>1, <3>2, <3>6, <4>2, <4>4
      <4> QED
        BY <4>5, <4>6
    <3> QED
      BY <3>7, <3>8
  <2> QED
    BY <2>1, <2>2
<1> HIDE DEF P
<1>5. 0 \in Nat /\ 0 \in 0..n /\ n - 0 = n
  OBVIOUS
<1>6. \A i \in 0..n : i \in P
  BY <1>4, <1>5, Downward
<1>7. Len(f[0]) <= n - 0 /\ Total(w, n) = Total(w, 0) + SeqWorth(f[0]) /\ f[0] \in Seq(Tile)
  BY <1>1, <1>5, <1>6 DEF P
<1>8. Total(w, 0) = 0 /\ SeqWorth(f[0]) \in Int
  BY <1>7, TotalNone, WorthsType
<1>9. Total(w, n) = SeqWorth(f[0])
  BY <1>7, <1>8
<1> QED
  BY <1>1, <1>5, <1>7, <1>9 DEF w, LineWorth

\* Sliding a line keeps what it is worth, up to the score.
LEMMA SlidWorth ==
  ASSUME NEW n \in Nat, NEW row, \A i \in 0..(n - 1) : row[i] \in Nat
  PROVE  /\ Slid(row, n) \in [0..(n - 1) -> Nat] /\ SlidScore(row, n) \in Nat
         /\ LineWorth(row, n) \in Int
         /\ LineWorth(Slid(row, n), n) = LineWorth(row, n) + SlidScore(row, n)
<1> DEFINE tiles == Tiles(row, n)
           m == Merge(tiles)
           l == Slid(row, n)
<1>1. tiles \in Seq(Tile) /\ Len(tiles) <= n /\ SeqWorth(tiles) = LineWorth(row, n)
  BY TilesWorth
<1>2. l = [i \in 0..(n - 1) |-> IF i < Len(m) THEN m[i + 1] ELSE 0]
      /\ SlidScore(row, n) = MergeScore(tiles)
  BY DEF Slid, SlidScore
<1> HIDE DEF tiles, l
<1>3. m \in Seq(Tile) /\ MergeScore(tiles) \in Nat
  BY <1>1, MergeStep
<1>4. Len(m) <= Len(tiles) /\ SeqWorth(m) = SeqWorth(tiles) + MergeScore(tiles)
  BY <1>1, MergeWorth
<1>5. Len(m) \in 0..n /\ SeqWorth(tiles) \in Int
  <2>1. Len(m) \in Nat /\ Len(tiles) \in Nat
    BY <1>1, <1>3
  <2> QED
    BY <1>1, <1>4, <2>1, WorthsType
<1> HIDE DEF m
<1>6. ASSUME NEW i \in 0..(n - 1)
      PROVE  /\ l[i] \in Nat
             /\ i < Len(m) => l[i] = m[i + 1]
             /\ Len(m) <= i => l[i] = 0
  <2>1. CASE i < Len(m)
    <3>1. i + 1 \in 1..Len(m)
      BY <1>5, <2>1
    <3>2. m[i + 1] \in Tile
      BY <1>3, <3>1
    <3> QED
      BY <1>2, <1>5, <2>1, <3>2 DEF Tile
  <2>2. CASE ~(i < Len(m))
    BY <1>2, <1>5, <2>2
  <2> QED
    BY <2>1, <2>2
<1>7. l \in [0..(n - 1) -> Nat]
  BY <1>2, <1>6
<1> DEFINE w == [i \in 0..(n - 1) |-> Worth(l[i])]
<1>8. \A i \in 0..(n - 1) : w[i] \in Int /\ (Len(m) <= i => w[i] = 0)
  BY <1>6, WorthType DEF Worth
<1>9. \A i \in 0..(Len(m) - 1) : Worths(m)[i] \in Int /\ w[i] = Worths(m)[i]
  <2> SUFFICES ASSUME NEW i \in 0..(Len(m) - 1) PROVE Worths(m)[i] \in Int /\ w[i] = Worths(m)[i]
    OBVIOUS
  <2>1. i \in 0..(n - 1) /\ i < Len(m)
    BY <1>5
  <2>2. l[i] = m[i + 1]
    BY <1>6, <2>1
  <2> QED
    BY <1>3, <2>1, <2>2, WorthsType DEF Worths
<1> HIDE DEF w
<1>10. Total(w, n) = Total(w, Len(m))
  BY <1>5, <1>8, TotalZeros
<1>11. Total(w, Len(m)) = Total(Worths(m), Len(m))
  <2>1. Len(m) \in Nat
    BY <1>5
  <2> QED
    BY <1>9, <2>1, TotalSame
<1>12. LineWorth(l, n) = SeqWorth(m)
  BY <1>10, <1>11 DEF w, LineWorth, SeqWorth
<1> QED
  BY <1>1, <1>2, <1>3, <1>4, <1>5, <1>7, <1>12 DEF l
-----------------------------------------------------------------------------
(* The board.                                                              *)

Boards == [Index -> [Index -> Nat]]

LEMMA SizeIs == SIZE \in Nat /\ Index = 0..(SIZE - 1)
  BY SizeAssumption DEF Index

LEMMA Mirror == \A col \in Index : SIZE - 1 - col \in Index /\ SIZE - 1 - (SIZE - 1 - col) = col
  BY SizeIs

LEMMA RotateBoardIs ==
  ASSUME NEW b \in Boards
  PROVE  /\ RotateBoard(b) \in Boards
         /\ \A col \in Index : RotateBoard(b)[col] = [y \in Index |-> b[y][SIZE - 1 - col]]
         /\ \A col, y \in Index : RotateBoard(b)[col][y] = b[y][SIZE - 1 - col]
<1>1. \A col \in Index : RotateBoard(b)[col] = [y \in Index |-> b[y][SIZE - 1 - col]]
  BY DEF RotateBoard
<1>2. \A col, y \in Index : RotateBoard(b)[col][y] = b[y][SIZE - 1 - col]
  BY <1>1
<1>3. \A col, y \in Index : b[y][SIZE - 1 - col] \in Nat
  BY Mirror DEF Boards
<1>4. RotateBoard(b) \in Boards
  BY <1>3 DEF RotateBoard, Boards
<1> QED
  BY <1>1, <1>2, <1>4

LEMMA HalfIs ==
  ASSUME NEW b \in Boards
  PROVE  /\ Half(b) \in Boards
         /\ \A col, y \in Index : Half(b)[col][y] = b[SIZE - 1 - col][SIZE - 1 - y]
<1> DEFINE r == RotateBoard(b)
<1>1. r \in Boards /\ \A col, y \in Index : r[col][y] = b[y][SIZE - 1 - col]
  BY RotateBoardIs
<1> HIDE DEF r
<1>2. /\ RotateBoard(r) \in Boards
      /\ \A col, y \in Index : RotateBoard(r)[col][y] = r[y][SIZE - 1 - col]
  BY <1>1, RotateBoardIs
<1>3. ASSUME NEW col \in Index, NEW y \in Index
      PROVE  RotateBoard(r)[col][y] = b[SIZE - 1 - col][SIZE - 1 - y]
  BY <1>1, <1>2, Mirror
<1> QED
  BY <1>2, <1>3 DEF Half, r

LEMMA UpIs ==
  ASSUME NEW b \in Boards
  PROVE  /\ Up(b) \in Boards /\ \A col \in Index : Up(b)[col] = Slid(b[col], SIZE)
         /\ \A col \in Index : SlidScore(b[col], SIZE) \in Nat
<1>1. ASSUME NEW col \in Index PROVE Slid(b[col], SIZE) \in [Index -> Nat] /\ SlidScore(b[col], SIZE) \in Nat
  <2>1. \A i \in 0..(SIZE - 1) : b[col][i] \in Nat
    BY SizeIs DEF Boards
  <2> DEFINE l == b[col]
  <2>2. \A i \in 0..(SIZE - 1) : l[i] \in Nat
    BY <2>1
  <2> HIDE DEF l
  <2>3. Slid(l, SIZE) \in [0..(SIZE - 1) -> Nat] /\ SlidScore(l, SIZE) \in Nat
    BY <2>2, SizeIs, SlidWorth
  <2> QED
    BY <2>3, SizeIs DEF l
<1>2. Up(b) = [col \in Index |-> Slid(b[col], SIZE)]
  BY DEF Up
<1> QED
  BY <1>1, <1>2 DEF Boards

LEMMA BoardWorthIs ==
  ASSUME NEW b \in Boards
  PROVE  /\ BoardWorth(b) = Total([col \in Index |-> LineWorth(b[col], SIZE)], SIZE)
         /\ \A col \in Index : LineWorth(b[col], SIZE) \in Int
         /\ BoardWorth(b) \in Int
<1>1. BoardWorth(b) = Total([col \in Index |-> LineWorth(b[col], SIZE)], SIZE)
  BY Zenon, SizeIs DEF BoardWorth, LineWorth
<1>2. ASSUME NEW col \in Index PROVE LineWorth(b[col], SIZE) \in Int
  <2> DEFINE l == b[col]
  <2>1. \A i \in 0..(SIZE - 1) : l[i] \in Nat
    BY SizeIs DEF Boards
  <2> HIDE DEF l
  <2>2. LineWorth(l, SIZE) \in Int
    BY <2>1, SizeIs, SlidWorth
  <2> QED
    BY <2>2 DEF l
<1> DEFINE f == [col \in Index |-> LineWorth(b[col], SIZE)]
<1>3. \A col \in 0..(SIZE - 1) : f[col] \in Int
  BY <1>2, SizeIs
<1> HIDE DEF f
<1>4. Total(f, SIZE) \in Int
  BY <1>3, SizeIs, TotalType
<1> QED
  BY <1>1, <1>2, <1>4 DEF f

\* A rotation keeps what the board is worth.
LEMMA RotateWorth ==
  ASSUME NEW b \in Boards
  PROVE  BoardWorth(RotateBoard(b)) = BoardWorth(b)
<1> DEFINE r == RotateBoard(b)
           n == SIZE
           a == [col \in Index |-> [y \in Index |-> Worth(b[col][y])]]
           c == [y \in Index |-> [col \in Index |-> Worth(b[col][y])]]
           d == [col \in Index |-> [y \in Index |-> Worth(r[col][y])]]
<1>1. n \in Nat /\ Index = 0..(n - 1)
  BY SizeIs
<1>2. r \in Boards /\ \A col, y \in Index : r[col][y] = b[y][SIZE - 1 - col]
  BY RotateBoardIs
<1> HIDE DEF r
<1>3. \A col, y \in Index : a[col][y] \in Int /\ c[y][col] = a[col][y]
  BY WorthType DEF Boards
<1>4. \A col, y \in Index : d[col][y] = c[SIZE - 1 - col][y] /\ c[SIZE - 1 - col][y] \in Int
  BY <1>2, <1>3, Mirror
<1>5. /\ BoardWorth(b) = Total([col \in Index |-> Total(a[col], n)], n)
      /\ BoardWorth(r) = Total([col \in Index |-> Total(d[col], n)], n)
  BY DEF BoardWorth
<1> HIDE DEF a, c, d
<1>6. Total([i \in 0..(n - 1) |-> Total(a[i], n)], n) = Total([j \in 0..(n - 1) |-> Total(c[j], n)], n)
  <2>1. Transposed(a, c, n, n)
    BY <1>1, <1>3 DEF Transposed
  <2> HIDE DEF n
  <2>2. SumOfSums(a, n, n) = SumOfSums(c, n, n)
    BY <2>1, TotalSwapped
  <2> QED
    BY <2>2 DEF SumOfSums
<1> DEFINE f == [j \in 0..(n - 1) |-> Total(c[j], n)]
           g == [i \in 0..(n - 1) |-> Total(d[i], n)]
<1>7. ASSUME NEW i \in 0..(n - 1) PROVE f[i] \in Int /\ g[i] = f[n - 1 - i]
  <2>1. n - 1 - i \in 0..(n - 1) /\ i \in Index /\ n - 1 - i \in Index
    BY <1>1
  <2>2. \A k \in 0..(n - 1) : c[i][k] \in Int
    BY <1>1, <1>3, <2>1
  <2>3. Total(c[i], n) \in Int
    BY <1>1, <2>2, TotalType
  <2>4. \A k \in 0..(n - 1) : c[n - 1 - i][k] \in Int /\ d[i][k] = c[n - 1 - i][k]
    BY <1>1, <1>4, <2>1
  <2> DEFINE p == c[n - 1 - i]
             q == d[i]
  <2>5. \A k \in 0..(n - 1) : p[k] \in Int /\ q[k] = p[k]
    BY <2>4
  <2>6. f[i] = Total(c[i], n) /\ f[n - 1 - i] = Total(p, n) /\ g[i] = Total(q, n)
    BY <2>1
  <2> HIDE DEF p, q, f, g, n
  <2>7. Total(q, n) = Total(p, n)
    BY <1>1, <2>5, TotalSame
  <2> QED
    BY <2>3, <2>6, <2>7
<1>8. BoardWorth(b) = Total(f, n) /\ BoardWorth(r) = Total(g, n)
  BY <1>1, <1>5, <1>6
<1> HIDE DEF f, g, n
<1>9. Total(g, n) = Total(f, n)
  BY <1>1, <1>7, TotalReversed
<1> QED
  BY <1>8, <1>9 DEF r

LEMMA HalfWorth ==
  ASSUME NEW b \in Boards PROVE BoardWorth(Half(b)) = BoardWorth(b)
  BY RotateBoardIs, RotateWorth DEF Half

\* What moveUp scores is what the board is worth more.
Scores(b) == Total([col \in Index |-> SlidScore(b[col], SIZE)], SIZE)

LEMMA UpWorth ==
  ASSUME NEW b \in Boards
  PROVE  BoardWorth(Up(b)) = BoardWorth(b) + Scores(b) /\ Scores(b) \in Nat
<1> DEFINE f == [col \in Index |-> LineWorth(b[col], SIZE)]
           g == [col \in Index |-> SlidScore(b[col], SIZE)]
           h == [col \in Index |-> LineWorth(Up(b)[col], SIZE)]
           n == SIZE
<1>1. n \in Nat /\ Index = 0..(n - 1)
  BY SizeIs
<1>2. Up(b) \in Boards /\ \A col \in Index : Up(b)[col] = Slid(b[col], SIZE) /\ SlidScore(b[col], SIZE) \in Nat
  BY UpIs
<1>3. ASSUME NEW col \in Index
      PROVE  LineWorth(Slid(b[col], SIZE), SIZE) = LineWorth(b[col], SIZE) + SlidScore(b[col], SIZE)
  <2> DEFINE l == b[col]
  <2>1. \A i \in 0..(n - 1) : l[i] \in Nat
    BY <1>1 DEF Boards
  <2> HIDE DEF l
  <2>2. LineWorth(Slid(l, SIZE), SIZE) = LineWorth(l, SIZE) + SlidScore(l, SIZE)
    BY <1>1, <2>1, SlidWorth
  <2> QED
    BY <2>2 DEF l
<1>4. ASSUME NEW col \in 0..(n - 1) PROVE f[col] \in Int /\ g[col] \in Nat /\ h[col] = f[col] + g[col]
  <2>1. col \in Index
    BY <1>1
  <2>2. f[col] = LineWorth(b[col], SIZE) /\ g[col] = SlidScore(b[col], SIZE) /\ h[col] = LineWorth(Up(b)[col], SIZE)
    BY <2>1
  <2>3. LineWorth(b[col], SIZE) \in Int
    BY <2>1, BoardWorthIs
  <2>4. Up(b)[col] = Slid(b[col], SIZE) /\ SlidScore(b[col], SIZE) \in Nat
    BY <1>2, <2>1
  <2> HIDE DEF f, g, h, n
  <2>5. h[col] = f[col] + g[col]
    BY <1>3, <2>1, <2>2, <2>4
  <2> QED
    BY <2>2, <2>3, <2>4, <2>5
<1>5. BoardWorth(b) = Total(f, n) /\ BoardWorth(Up(b)) = Total(h, n) /\ Scores(b) = Total(g, n)
  BY <1>2, BoardWorthIs DEF Scores
<1> HIDE DEF f, g, h, n
<1>6. \A col \in 0..(n - 1) : f[col] \in Int /\ g[col] \in Int /\ h[col] = f[col] + g[col]
  BY <1>4
<1>7. Total(h, n) = Total(f, n) + Total(g, n)
  BY <1>1, <1>6, TotalPlus
<1>8. Total(g, n) \in Nat
  BY <1>1, <1>4, TotalNat
<1> QED
  BY <1>5, <1>7, <1>8

\* A move scores what the board becomes worth more.
LEMMA MoveWorth ==
  ASSUME NEW b \in Boards, NEW dir \in {"up", "left", "down", "right"}
  PROVE  /\ Move(b, dir) \in Boards /\ Gain(b, dir) \in Nat
         /\ BoardWorth(Move(b, dir)) = BoardWorth(b) + Gain(b, dir)
<1> DEFINE tt == Turned(b, dir)
<1>1. tt \in Boards /\ BoardWorth(tt) = BoardWorth(b)
  BY RotateBoardIs, HalfIs, RotateWorth, HalfWorth DEF Turned
<1>2. Gain(b, dir) = Scores(tt)
  BY DEF Gain, Scores
<1>3. Move(b, dir) = CASE dir = "up" -> Up(tt) [] dir = "left" -> RotateBoard(Half(Up(tt)))
                       [] dir = "down" -> Half(Up(tt)) [] dir = "right" -> RotateBoard(Up(tt))
  BY DEF Move, Turned, Left, Right, Down
<1> HIDE DEF tt
<1>4. Up(tt) \in Boards /\ BoardWorth(Up(tt)) = BoardWorth(tt) + Scores(tt) /\ Scores(tt) \in Nat
  BY <1>1, UpIs, UpWorth
<1>5. /\ Half(Up(tt)) \in Boards /\ BoardWorth(Half(Up(tt))) = BoardWorth(Up(tt))
      /\ RotateBoard(Up(tt)) \in Boards /\ BoardWorth(RotateBoard(Up(tt))) = BoardWorth(Up(tt))
  BY <1>4, HalfIs, HalfWorth, RotateBoardIs, RotateWorth
<1>6. /\ RotateBoard(Half(Up(tt))) \in Boards
      /\ BoardWorth(RotateBoard(Half(Up(tt)))) = BoardWorth(Up(tt))
  BY <1>5, RotateBoardIs, RotateWorth
<1> QED
  BY <1>1, <1>2, <1>3, <1>4, <1>5, <1>6
-----------------------------------------------------------------------------
(* New tiles.                                                              *)

LEMMA WorthOfNew == Worth(0) = 0 /\ Worth(1) = 0 /\ Worth(2) = 4
<1>1. Shown(0) = 1 /\ Shown(0 + 1) = 2 * Shown(0) /\ Shown(1 + 1) = 2 * Shown(1)
  <2>1. 0 \in Nat /\ 1 \in Nat
    OBVIOUS
  <2> QED
    BY <2>1, ShownDoubles
<1>2. 0 + 1 = 1 /\ 1 + 1 = 2
  OBVIOUS
<1>3. Shown(1) = 2 /\ Shown(2) = 4
  BY <1>1, <1>2
<1> QED
  BY <1>3 DEF Worth

\* A 4 is worth 4 more than the score says, a 2 nothing.
LEMMA PutWorth ==
  ASSUME NEW b \in Boards, NEW c \in Empty(b), NEW e \in {1, 2}
  PROVE  /\ Put(b, c, e) \in Boards
         /\ BoardWorth(Put(b, c, e)) = BoardWorth(b) + 4 * (e - 1)
<1> DEFINE n == SIZE
           p == Put(b, c, e)
<1>1. n \in Nat /\ Index = 0..(n - 1)
  BY SizeIs
<1>2. PICK cx \in Index, cy \in Index : cx = c[1] /\ cy = c[2] /\ b[cx][cy] = 0
  BY DEF Empty, Cells
<1>3. /\ p \in Boards
      /\ p[cx][cy] = e
      /\ \A y \in Index : y /= cy => p[cx][y] = b[cx][y]
      /\ \A col \in Index : col /= cx => p[col] = b[col]
  BY <1>2 DEF Put, Boards
<1> HIDE DEF p
<1> DEFINE f == [y \in Index |-> Worth(b[cx][y])]
           g == [y \in Index |-> Worth(p[cx][y])]
<1>4. /\ cy \in 0..(n - 1) /\ g[cy] = Worth(e) /\ f[cy] = 0
      /\ \A y \in 0..(n - 1) : f[y] \in Int /\ (y /= cy => g[y] = f[y])
  <2>1. \A y \in Index : b[cx][y] \in Nat
    BY DEF Boards
  <2> QED
    BY <1>1, <1>2, <1>3, <2>1, WorthType, WorthOfNew
<1>5. Worth(e) \in Int /\ Worth(e) = 4 * (e - 1)
  BY WorthOfNew
<1> HIDE DEF f, g, n
<1>e. g[cy] \in Int
  BY <1>4, <1>5
<1>f. cy \in 0..(n - 1) /\ \A y \in 0..(n - 1) : f[y] \in Int /\ (y /= cy => g[y] = f[y])
  BY <1>4
<1>6. Total(g, n) = Total(f, n) + g[cy] - f[cy]
  <2>1. OneDiffers(f, g, n, cy)
    BY <1>1, <1>e, <1>f DEF OneDiffers
  <2> QED
    BY <2>1, TotalButOne
<1>7. Total(f, n) \in Int
  BY <1>1, <1>4, TotalType
<1>8. Total(g, n) = Total(f, n) + 4 * (e - 1)
  BY <1>4, <1>5, <1>6, <1>7
<1> DEFINE F == [col \in Index |-> LineWorth(b[col], SIZE)]
           G == [col \in Index |-> LineWorth(p[col], SIZE)]
<1>9. F[cx] = Total(f, n) /\ G[cx] = Total(g, n)
  BY <1>1 DEF f, g, n, LineWorth
<1>10. /\ cx \in 0..(n - 1) /\ G[cx] \in Int
       /\ \A col \in 0..(n - 1) : F[col] \in Int /\ (col /= cx => G[col] = F[col])
  BY <1>1, <1>3, BoardWorthIs
<1>11. BoardWorth(b) = Total(F, n) /\ BoardWorth(p) = Total(G, n)
  BY <1>3, BoardWorthIs DEF n
<1> HIDE DEF F, G
<1>12. Total(G, n) = Total(F, n) + G[cx] - F[cx]
  <2>1. OneDiffers(F, G, n, cx)
    BY <1>1, <1>10 DEF OneDiffers
  <2> QED
    BY <2>1, TotalButOne
<1>13. Total(F, n) \in Int
  BY <1>1, <1>10, TotalType
<1>14. Total(G, n) = Total(F, n) + 4 * (e - 1)
  BY <1>7, <1>8, <1>9, <1>12, <1>13
<1> QED
  BY <1>3, <1>11, <1>14 DEF p

\* What addRandom puts on the board, and what it is worth for nothing.
Gift(b, new) ==
  /\ new.board \in Boards /\ new.four \in Nat
  /\ BoardWorth(new.board) = BoardWorth(b) + 4 * new.four

LEMMA AddRandomWorth ==
  ASSUME NEW b \in Boards, NEW new \in AddRandom(b)
  PROVE  Gift(b, new)
<1>1. BoardWorth(b) \in Int
  BY BoardWorthIs
<1>2. CASE Empty(b) = {}
  <2>1. new.board = b /\ new.four = 0
    BY <1>2 DEF AddRandom
  <2> QED
    BY <1>1, <2>1 DEF Gift
<1>3. CASE Empty(b) /= {}
  <2>1. PICK c \in Empty(b), e \in {1, 2} : new = [board |-> Put(b, c, e), four |-> e - 1]
    BY <1>3 DEF AddRandom
  <2>2. new.board = Put(b, c, e) /\ new.four = e - 1
    BY <2>1
  <2>3. new.board \in Boards /\ BoardWorth(new.board) = BoardWorth(b) + 4 * (e - 1)
    BY <2>2, PutWorth
  <2> QED
    BY <2>2, <2>3 DEF Gift
<1> QED
  BY <1>2, <1>3

LEMMA BlankWorth == Blank \in Boards /\ BoardWorth(Blank) = 0
<1> DEFINE n == SIZE
           f == [y \in Index |-> Worth(0)]
           F == [col \in Index |-> Total([y \in Index |-> Worth(Blank[col][y])], SIZE)]
<1>1. Blank \in Boards /\ \A col, y \in Index : Blank[col][y] = 0
  BY DEF Blank, Boards
<1>2. n \in Nat /\ Index = 0..(n - 1) /\ 0 \in 0..n
  BY SizeIs
<1>3. \A col \in Index : [y \in Index |-> Worth(Blank[col][y])] = f
  BY <1>1
<1>4. \A y \in 0..(n - 1) : f[y] \in Int /\ (0 <= y => f[y] = 0)
  BY <1>2, WorthOfNew
<1> HIDE DEF f, n
<1>5. Total(f, n) = Total(f, 0)
  BY <1>2, <1>4, TotalZeros
<1>6. Total(f, n) = 0
  BY <1>5, TotalNone
<1>7. \A col \in 0..(n - 1) : F[col] = 0
  BY <1>2, <1>3, <1>6 DEF n
<1>8. BoardWorth(Blank) = Total(F, n)
  BY DEF BoardWorth, n
<1> HIDE DEF F
<1>9. Total(F, n) = Total(F, 0)
  BY <1>2, <1>7, TotalZeros
<1> QED
  BY <1>1, <1>8, <1>9, TotalNone

LEMMA InitBoardsWorth ==
  ASSUME NEW start \in InitBoards
  PROVE  Gift(Blank, start)
<1>0. PICK one \in AddRandom(Blank) :
        start \in {[board |-> two.board, four |-> one.four + two.four] : two \in AddRandom(one.board)}
  BY Zenon DEF InitBoards
<1>1. PICK two \in AddRandom(one.board) :
        start = [board |-> two.board, four |-> one.four + two.four]
  BY <1>0
<1>2. Gift(Blank, one)
  BY AddRandomWorth, BlankWorth
<1>3. Gift(one.board, two)
  BY <1>2, AddRandomWorth DEF Gift
<1>4. start.board = two.board /\ start.four = one.four + two.four
  BY <1>1
<1>5. BoardWorth(one.board) \in Int /\ BoardWorth(Blank) = 0
  BY <1>2, BoardWorthIs, BlankWorth DEF Gift
<1> QED
  BY <1>2, <1>3, <1>4, <1>5 DEF Gift
-----------------------------------------------------------------------------
(* The score.                                                              *)

\* The score is only what it is worth together with the types: the lemmas
\* above hold for boards of natural numbers.
Counted == board \in Boards /\ score \in Nat /\ fours \in Nat /\ ScoreIsWorth

LEMMA InitCounted == Init => Counted
<1> SUFFICES ASSUME Init PROVE Counted
  OBVIOUS
<1>1. PICK start \in InitBoards : board = start.board /\ fours = start.four
  BY DEF Init
<1>2. score = 0
  BY DEF Init
<1>3. Gift(Blank, start) /\ BoardWorth(Blank) = 0
  BY InitBoardsWorth, BlankWorth
<1> QED
  BY <1>1, <1>2, <1>3 DEF Counted, ScoreIsWorth, Gift

LEMMA NextCounted == Counted /\ [Next]_vars => Counted'
<1> SUFFICES ASSUME Counted, [Next]_vars PROVE Counted'
  OBVIOUS
<1>0. /\ board \in Boards /\ score \in Nat /\ fours \in Nat
      /\ BoardWorth(board) = score + 4 * fours
  BY DEF Counted, ScoreIsWorth
<1>1. ASSUME NEW dir \in {"up", "left", "down", "right"}, MoveTiles(dir) PROVE Counted'
  <2>1. board' = Move(board, dir) /\ score' = score + Gain(board, dir) /\ fours' = fours
    BY <1>1 DEF MoveTiles
  <2>2. /\ board' \in Boards /\ Gain(board, dir) \in Nat
        /\ BoardWorth(board') = BoardWorth(board) + Gain(board, dir)
    BY <1>0, <2>1, MoveWorth
  <2>3. PICK gain \in Nat : gain = Gain(board, dir)
    BY <2>2
  <2>4. score' \in Nat /\ score' + 4 * fours' = BoardWorth(board')
    BY <1>0, <2>1, <2>2, <2>3
  <2> QED
    BY <1>0, <2>1, <2>2, <2>4 DEF Counted, ScoreIsWorth
<1>2. CASE NewTile
  <2>1. PICK new \in AddRandom(board) : board' = new.board /\ fours' = fours + new.four
    BY <1>2 DEF NewTile
  <2>2. score' = score
    BY <1>2 DEF NewTile
  <2>3. /\ board' \in Boards /\ new.four \in Nat
        /\ BoardWorth(board') = BoardWorth(board) + 4 * new.four
    BY <1>0, <2>1, AddRandomWorth DEF Gift
  <2>4. PICK four \in Nat : four = new.four
    BY <2>3
  <2>5. score' + 4 * fours' = BoardWorth(board') /\ fours' \in Nat
    BY <1>0, <2>1, <2>2, <2>3, <2>4
  <2> QED
    BY <1>0, <2>2, <2>3, <2>5 DEF Counted, ScoreIsWorth
<1>3. CASE Restart
  <2>1. CASE InitBoard
    <3>1. PICK start \in InitBoards : board' = start.board /\ fours' = start.four
      BY <2>1 DEF InitBoard
    <3>2. score' = 0
      BY <2>1 DEF InitBoard
    <3>3. Gift(Blank, start) /\ BoardWorth(Blank) = 0
      BY InitBoardsWorth, BlankWorth
    <3> QED
      BY <3>1, <3>2, <3>3 DEF Counted, ScoreIsWorth, Gift
  <2>2. CASE UNCHANGED <<board, score, fours>>
    BY <2>2 DEF Counted, ScoreIsWorth
  <2> QED
    BY <1>3, <2>1, <2>2 DEF Restart
<1>4. CASE UNCHANGED <<board, score, fours>>
  BY <1>4 DEF Counted, ScoreIsWorth
<1>5. ASSUME \/ OtherKey \/ AskRestart \/ TellLouder \/ TellQuieter \/ EndTurn \/ Quit
             \/ PlayerAnswers \/ PlayerStarts \/ PlayerPlays \/ PlayerLeaves
      PROVE  UNCHANGED <<board, score, fours>>
  BY Zenon, <1>5 DEF OtherKey, AskRestart, TellLouder, TellQuieter, EndTurn, Quit,
     PlayerAnswers, PlayerStarts, PlayerPlays, PlayerLeaves
<1>6. CASE UNCHANGED vars
  BY <1>4, <1>6 DEF vars
<1> QED
  BY Zenon, <1>1, <1>2, <1>3, <1>4, <1>5, <1>6 DEF Next

\* No rotation, merge or new tile loses or duplicates a tile: the score
\* accounts for the board after any game with any number of restarts, on a
\* board of any size (2048.c:115-273).
THEOREM ScoreIsWorthAlways == Spec => []ScoreIsWorth
<1>1. Counted => ScoreIsWorth
  BY DEF Counted
<1> QED
  BY <1>1, InitCounted, NextCounted, PTL DEF Spec
-----------------------------------------------------------------------------
(* The keys.                                                               *)

LEMMA SlidIs ==
  ASSUME NEW l PROVE Slid(l, SIZE) = [i \in Index |-> Slid(l, SIZE)[i]]
  BY Zenon DEF Slid, Index

LEMMA RotationsAgree ==
  ASSUME NEW b \in Boards, NEW i \in Index
  PROVE  /\ RotateBoard(b)[i] = Row(b, SIZE - 1 - i)
         /\ Half(b)[i] = Reversed(b[SIZE - 1 - i])
<1>1. RotateBoard(b)[i] = [y \in Index |-> b[y][SIZE - 1 - i]]
  BY RotateBoardIs
<1>2. /\ Half(b) \in Boards
      /\ \A y \in Index : Half(b)[i][y] = b[SIZE - 1 - i][SIZE - 1 - y]
  BY HalfIs
<1>3. Half(b)[i] = [y \in Index |-> Half(b)[i][y]]
  BY <1>2 DEF Boards
<1> QED
  BY <1>1, <1>2, <1>3 DEF Row, Reversed

LEMMA DirectionsOf ==
  ASSUME NEW b \in Boards, NEW i \in Index
  PROVE  /\ Column(Up(b), i) = Slid(Column(b, i), SIZE)
         /\ Reversed(Column(Down(b), i)) = Slid(Reversed(Column(b, i)), SIZE)
         /\ Row(Left(b), i) = Slid(Row(b, i), SIZE)
         /\ Reversed(Row(Right(b), i)) = Slid(Reversed(Row(b, i)), SIZE)
<1> DEFINE j == SIZE - 1 - i
<1>0. j \in Index /\ SIZE - 1 - j = i
  BY Mirror
<1> HIDE DEF j
<1>1. Column(Up(b), i) = Slid(Column(b, i), SIZE)
  BY UpIs DEF Column
<1>2. Reversed(Column(Down(b), i)) = Slid(Reversed(Column(b, i)), SIZE)
  <2>1. /\ Half(b) \in Boards /\ Up(Half(b)) \in Boards
        /\ Up(Half(b))[j] = Slid(Half(b)[j], SIZE)
    BY <1>0, HalfIs, UpIs
  <2>2. Half(b)[j] = Reversed(b[i])
    BY <1>0, RotationsAgree
  <2>3. \A y \in Index : Half(Up(Half(b)))[i][SIZE - 1 - y] = Up(Half(b))[j][y]
    BY <1>0, <2>1, HalfIs, Mirror DEF j
  <2>4. Reversed(Down(b)[i]) = [y \in Index |-> Slid(Reversed(b[i]), SIZE)[y]]
    BY <2>1, <2>2, <2>3 DEF Reversed, Down
  <2> QED
    BY <2>4, SlidIs DEF Column
<1>3. Row(Left(b), i) = Slid(Row(b, i), SIZE)
  <2> DEFINE r == RotateBoard(b)
  <2>1. /\ r \in Boards /\ Up(r) \in Boards /\ Half(Up(r)) \in Boards
        /\ Up(r)[j] = Slid(r[j], SIZE)
    BY <1>0, RotateBoardIs, HalfIs, UpIs
  <2>2. r[j] = Row(b, i)
    BY <1>0, RotationsAgree
  <2>3. ASSUME NEW col \in Index PROVE Left(b)[col][i] = Up(r)[j][col]
    <3> HIDE DEF r
    <3>1. SIZE - 1 - col \in Index /\ SIZE - 1 - (SIZE - 1 - col) = col
      BY Mirror
    <3>2. RotateBoard(Half(Up(r)))[col][i] = Half(Up(r))[i][SIZE - 1 - col]
      BY <2>1, RotateBoardIs
    <3>3. Half(Up(r))[i][SIZE - 1 - col] = Up(r)[j][col]
      BY <2>1, <3>1, HalfIs DEF j
    <3> QED
      BY <3>2, <3>3 DEF Left, r
  <2>4. Row(Left(b), i) = [col \in Index |-> Slid(Row(b, i), SIZE)[col]]
    BY <2>1, <2>2, <2>3 DEF Row
  <2> QED
    BY <2>4, SlidIs
<1>4. Reversed(Row(Right(b), i)) = Slid(Reversed(Row(b, i)), SIZE)
  <2> DEFINE h == Half(b)
             r == RotateBoard(h)
  <2>1. h \in Boards /\ \A col, y \in Index : h[col][y] = b[SIZE - 1 - col][SIZE - 1 - y]
    BY HalfIs
  <2> HIDE DEF h
  <2>2. r \in Boards /\ Up(r) \in Boards /\ Up(r)[i] = Slid(r[i], SIZE)
    BY <2>1, RotateBoardIs, UpIs
  <2>3. r[i] = [col \in Index |-> h[col][j]]
    BY <2>1, RotateBoardIs DEF j
  <2>4. \A col \in Index : h[col][j] = b[SIZE - 1 - col][i]
    BY <1>0, <2>1
  <2>5. r[i] = Reversed(Row(b, i))
    BY <2>3, <2>4, Mirror DEF Reversed, Row
  <2>6. ASSUME NEW col \in Index PROVE Right(b)[SIZE - 1 - col][i] = Up(r)[i][col]
    <3> HIDE DEF r
    <3>1. SIZE - 1 - col \in Index /\ SIZE - 1 - (SIZE - 1 - col) = col
      BY Mirror
    <3>2. RotateBoard(Up(r))[SIZE - 1 - col][i] = Up(r)[i][SIZE - 1 - (SIZE - 1 - col)]
      BY <2>2, <3>1, RotateBoardIs
    <3> QED
      BY <3>1, <3>2 DEF Right, r, h
  <2>7. Reversed(Row(Right(b), i)) = [col \in Index |-> Slid(Reversed(Row(b, i)), SIZE)[col]]
    <3>1. \A col \in Index : Reversed(Row(Right(b), i))[col] = Right(b)[SIZE - 1 - col][i]
      BY Mirror DEF Reversed, Row
    <3>2. Reversed(Row(Right(b), i)) = [col \in Index |-> Right(b)[SIZE - 1 - col][i]]
      BY Mirror DEF Reversed, Row
    <3> HIDE DEF r
    <3>3. \A col \in Index : Right(b)[SIZE - 1 - col][i] = Slid(Reversed(Row(b, i)), SIZE)[col]
      BY <2>2, <2>5, <2>6
    <3> QED
      BY <3>2, <3>3
  <2> QED
    BY <2>7, SlidIs
<1> QED
  BY <1>1, <1>2, <1>3, <1>4

\* Each key slides every line of the screen towards its side, although the
\* code only ever slides upwards and rotates the board around it
\* (2048.c:165-194), for a board of any size.
THEOREM DirectionsAgreeAlways == Spec => []DirectionsAgree
<1>1. Counted => DirectionsAgree
  BY DirectionsOf DEF Counted, DirectionsAgree
<1> QED
  BY <1>1, InitCounted, NextCounted, PTL DEF Spec
-----------------------------------------------------------------------------
(* The volume.                                                             *)

\* What every step keeps about the commands, besides the board.
Sounds ==
  /\ Counted
  /\ cmd \in 3..Loudest /\ volume \in 3..Loudest
  /\ \E top \in 3..Loudest : flags = 3..(top - 1)      \* they go from the top
  /\ pc = "wait" /\ cmd < Loudest => score > Threshold[cmd]
  /\ VolumeEarned

LEMMA ThresholdIs ==
  /\ Goal \in Nat /\ \A l \in 3..5 : Threshold[l] \in Nat /\ Threshold[l] <= Goal
  /\ \A l, k \in 3..5 : l <= k => Threshold[k] <= Threshold[l]
<1>1. /\ Threshold[3] \in Nat /\ Threshold[4] \in Nat /\ Threshold[5] \in Nat
      /\ Threshold[5] <= Threshold[4] /\ Threshold[4] <= Threshold[3] /\ Threshold[3] <= Goal
  BY GameAssumption
<1>2. \A l \in 3..5 : l = 3 \/ l = 4 \/ l = 5
  OBVIOUS
<1> QED
  BY <1>1, <1>2, GameAssumption

\* The level that is due first is the highest whose flag is still set.
LEMMA DueIs ==
  ASSUME Sounds, Due /= {}
  PROVE  /\ Max(Due) \in 3..5 /\ score > Threshold[Max(Due)]
         /\ flags = 3..Max(Due) /\ flags \ {Max(Due)} = 3..(Max(Due) - 1)
<1>1. PICK top \in 3..Loudest : flags = 3..(top - 1)
  BY DEF Sounds
<1>2. PICK l \in flags : score > Threshold[l]
  BY DEF Due
<1>3. top - 1 \in 3..5 /\ l \in 3..5 /\ l <= top - 1 /\ top - 1 \in flags
  BY <1>1, <1>2 DEF Loudest
<1>4. top - 1 \in Due
  <2>1. Threshold[l] \in Nat /\ Threshold[top - 1] \in Nat /\ Threshold[top - 1] <= Threshold[l]
    BY <1>3, ThresholdIs
  <2>2. score \in Nat
    BY DEF Sounds, Counted
  <2> QED
    BY <1>2, <1>3, <2>1, <2>2 DEF Due
<1>5. \A k \in Due : top - 1 >= k
  BY <1>1, <1>3 DEF Due
<1>6. Max(Due) \in Due /\ \A k \in Due : Max(Due) >= k
  BY Zenon, <1>4, <1>5 DEF Max
<1>7. Due \subseteq 3..5
  BY <1>1, <1>3 DEF Due
<1>8. Max(Due) = top - 1
  <2>1. PICK m \in 3..5 : m = Max(Due)
    BY <1>6, <1>7
  <2>2. m >= top - 1 /\ top - 1 >= m
    BY <1>4, <1>5, <1>6, <2>1
  <2> QED
    BY <1>3, <2>1, <2>2
<1> QED
  BY <1>1, <1>3, <1>6, <1>8 DEF Due

LEMMA InitSounds == Init => Sounds
<1> SUFFICES ASSUME Init PROVE Sounds
  OBVIOUS
<1>1. Counted
  BY InitCounted
<1>2. flags = 3..(Loudest - 1) /\ Loudest \in 3..Loudest
  BY DEF Init, Loudest
<1>3. pc = "input" /\ cmd = Loudest /\ volume = Loudest
  BY DEF Init
<1> QED
  BY <1>1, <1>2, <1>3 DEF Sounds, VolumeEarned, Loudest

LEMMA NextSounds == Sounds /\ [Next]_vars => Sounds'
<1> SUFFICES ASSUME Sounds, [Next]_vars PROVE Sounds'
  OBVIOUS
<1>1. Counted'
  BY NextCounted DEF Sounds
<1>2. /\ score \in Nat /\ cmd \in 3..Loudest /\ volume \in 3..Loudest
      /\ pc = "wait" /\ cmd < Loudest => score > Threshold[cmd]
      /\ player = "playing" /\ volume < Loudest =>
           score > Threshold[volume] \/ pc = "louder" \/ (pc = "wait" /\ cmd = Loudest)
  BY DEF Sounds, Counted, VolumeEarned
<1>3. \A l \in 3..Loudest : l < Loudest => Threshold[l] \in Nat
  BY ThresholdIs DEF Loudest
<1> DEFINE Stairs == \E top \in 3..Loudest : flags = 3..(top - 1)
           Volumes == /\ cmd \in 3..Loudest /\ volume \in 3..Loudest
                      /\ pc = "wait" /\ cmd < Loudest => score > Threshold[cmd]
                      /\ VolumeEarned
<1>4. Stairs
  BY DEF Sounds
<1>5. ASSUME flags' = flags, Volumes' PROVE Sounds'
  BY <1>1, <1>4, <1>5 DEF Sounds
<1>6. ASSUME flags' = {3, 4, 5} PROVE Stairs'
  <2>1. flags' = 3..(Loudest - 1) /\ Loudest \in 3..Loudest
    BY <1>6 DEF Loudest
  <2> QED
    BY <2>1
<1> USE DEF VolumeEarned
<1>a. ASSUME NEW dir \in {"up", "left", "down", "right"}, MoveTiles(dir) PROVE Sounds'
  <2>1. /\ pc = "input" /\ pc' = "moved" /\ flags' = flags
        /\ UNCHANGED <<cmd, player, volume>>
    BY <1>a DEF MoveTiles, sound
  <2>2. score' >= score /\ score' \in Nat
    <3>1. Gain(board, dir) \in Nat /\ score' = score + Gain(board, dir)
      BY <1>a, MoveWorth DEF Sounds, Counted, MoveTiles
    <3> QED
      BY <1>2, <3>1
  <2>3. Volumes'
    BY <1>2, <1>3, <2>1, <2>2
  <2> QED
    BY <1>5, <2>1, <2>3
<1>b. CASE OtherKey \/ AskRestart \/ Quit
  <2>1. /\ pc = "input" /\ pc' \in {"checks", "ask", "quit"} /\ flags' = flags
        /\ UNCHANGED <<score, cmd, player, volume>>
    BY <1>b DEF OtherKey, AskRestart, Quit, sound
  <2> QED
    BY <1>2, <1>5, <2>1
<1>c. CASE NewTile
  <2>1. pc = "moved" /\ pc' = "checks" /\ flags' = flags /\ UNCHANGED <<score, cmd, player, volume>>
    BY <1>c DEF NewTile, sound
  <2> QED
    BY <1>2, <1>5, <2>1
<1>d. CASE Restart
  <2>1. pc' = "louder" /\ flags' = {3, 4, 5} /\ UNCHANGED <<cmd, player, volume>>
    BY <1>d DEF Restart, sound
  <2>2. Stairs' /\ Volumes'
    BY <1>2, <1>6, <2>1
  <2> QED
    BY <1>1, <2>2 DEF Sounds
<1>e. CASE TellLouder
  <2>1. /\ flags' = flags /\ UNCHANGED <<score, player, volume>> /\ cmd' = Loudest
        /\ pc' = IF player = "none" THEN "checks" ELSE "wait"
    BY <1>e DEF TellLouder, Tell, After, sound
  <2>2. Loudest \in 3..Loudest /\ ~(Loudest < Loudest)
    BY DEF Loudest
  <2>3. Volumes'
    BY <1>2, <2>1, <2>2
  <2> QED
    BY <1>5, <2>1, <2>3
<1>f. CASE TellQuieter
  <2>1. /\ pc = "checks" /\ Due /= {} /\ UNCHANGED <<score, player, volume>>
        /\ cmd' = Max(Due) /\ flags' = flags \ {Max(Due)}
        /\ pc' = IF player = "none" THEN After(Max(Due)) ELSE "wait"
    BY <1>f DEF TellQuieter, Tell, sound
  <2>2. cmd' \in 3..5 /\ score > Threshold[cmd'] /\ flags' = 3..(cmd' - 1)
    BY <2>1, DueIs
  <2>3. Stairs'
    <3>1. cmd' \in 3..Loudest
      BY <2>2 DEF Loudest
    <3> QED
      BY <2>2, <3>1
  <2>4. cmd' \in 3..Loudest /\ pc' \in {"checks", "input", "wait"}
    BY <2>1, <2>2 DEF Loudest, After
  <2>5. Volumes'
    BY <1>2, <2>1, <2>2, <2>4
  <2> QED
    BY <1>1, <2>3, <2>5 DEF Sounds
<1>g. CASE EndTurn
  <2>1. pc = "checks" /\ pc' \in {"won", "input"} /\ flags' = flags /\ UNCHANGED <<score, cmd, player, volume>>
    BY <1>g DEF EndTurn, sound
  <2> QED
    BY <1>2, <1>5, <2>1
<1>h. CASE PlayerAnswers
  <2>1. /\ pc = "wait" /\ volume' = cmd /\ flags' = flags /\ UNCHANGED <<score, cmd>>
        /\ pc' \in {"checks", "input"}
    BY <1>h DEF PlayerAnswers, After
  <2> QED
    BY <1>2, <1>5, <2>1
<1>i. CASE PlayerStarts \/ PlayerPlays
  <2>1. volume' = Loudest /\ flags' = flags /\ UNCHANGED <<pc, score, cmd>>
    BY <1>i DEF PlayerStarts, PlayerPlays
  <2>2. Loudest \in 3..Loudest /\ ~(Loudest < Loudest)
    BY DEF Loudest
  <2> QED
    BY <1>2, <1>5, <2>1, <2>2
<1>j. CASE PlayerLeaves
  <2>1. /\ player' = "none" /\ flags' = flags /\ UNCHANGED <<score, cmd, volume>>
        /\ pc' = IF pc = "wait" THEN "died" ELSE pc
    BY <1>j DEF PlayerLeaves
  <2>2. pc' = "wait" => pc = "wait"
    BY <2>1
  <2> QED
    BY <1>2, <1>5, <2>1, <2>2
<1>k. CASE UNCHANGED vars
  BY <1>2, <1>5, <1>k DEF vars
<1> QED
  BY Zenon, <1>a, <1>b, <1>c, <1>d, <1>e, <1>f, <1>g, <1>h, <1>i, <1>j, <1>k DEF Next

\* A process that plays below full volume was turned down for a score the
\* game still has, or is about to be turned up again: restarting the game
\* gives the volume back, whether or not the process was replaced
\* (2048.c:404-428).
THEOREM VolumeEarnedAlways == Spec => []VolumeEarned
<1>1. Sounds => VolumeEarned
  BY DEF Sounds
<1> QED
  BY <1>1, InitSounds, NextSounds, PTL DEF Spec

\* The level of the process once it has heard what is under way.
Level == IF pc = "wait" THEN cmd ELSE IF pc = "louder" THEN Loudest ELSE volume

\* A process that was there all the time stands where the flags say, and
\* the game is won with no flag left.
Following ==
  /\ player = "playing" /\ flags = 3..(Level - 1)
  /\ pc = "won" => flags = {}
Heard == lasting = TRUE => Following

LEMMA InitHeard == Init => Heard
<1> SUFFICES ASSUME Init, lasting = TRUE PROVE Following
  BY DEF Heard
<1>1. player = "playing"
  BY Zenon DEF Init
<1>2. pc = "input" /\ volume = Loudest /\ flags = {3, 4, 5}
  BY DEF Init
<1> QED
  BY <1>1, <1>2 DEF Following, Level, Loudest

LEMMA NextHeard == Sounds /\ Heard /\ [Next]_vars => Heard'
<1> SUFFICES ASSUME Sounds, Heard, [Next]_vars, lasting' = TRUE PROVE Following'
  BY DEF Heard
<1>0. lasting = TRUE
  <2>1. CASE PlayerAnswers
    BY Zenon, <2>1 DEF PlayerAnswers
  <2>2. CASE PlayerLeaves
    BY Zenon, <2>2 DEF PlayerLeaves
  <2>3. ASSUME \/ \E dir \in {"up", "left", "down", "right"} : MoveTiles(dir)
               \/ OtherKey \/ NewTile \/ AskRestart \/ Restart \/ TellLouder \/ TellQuieter
               \/ EndTurn \/ Quit \/ PlayerStarts \/ PlayerPlays \/ UNCHANGED vars
        PROVE  lasting' = lasting
    BY Zenon, <2>3 DEF MoveTiles, OtherKey, NewTile, AskRestart, Restart, TellLouder, TellQuieter,
       EndTurn, Quit, PlayerStarts, PlayerPlays, sound, vars
  <2> QED
    BY Zenon, <2>1, <2>2, <2>3 DEF Next
<1>1. player = "playing" /\ flags = 3..(Level - 1) /\ (pc = "won" => flags = {})
  BY <1>0 DEF Heard, Following
<1>2. score \in Nat /\ cmd \in 3..Loudest /\ volume \in 3..Loudest
  BY DEF Sounds, Counted
<1> USE DEF Following, Level
<1>a. CASE \/ \E dir \in {"up", "left", "down", "right"} : MoveTiles(dir)
           \/ OtherKey \/ AskRestart \/ Quit \/ NewTile
  <2>1. /\ pc \in {"input", "moved"} /\ pc' \in {"moved", "checks", "ask", "quit"}
        /\ UNCHANGED <<flags, player, volume>>
    BY <1>a DEF MoveTiles, OtherKey, AskRestart, Quit, NewTile, sound
  <2> QED
    BY <1>1, <2>1
<1>b. CASE Restart
  BY <1>1, <1>b DEF Restart, sound, Loudest
<1>c. CASE TellLouder
  BY <1>1, <1>c DEF TellLouder, Tell, sound
<1>d. CASE TellQuieter
  <2>1. pc' = "wait" /\ player' = player /\ cmd' = Max(Due) /\ flags' = flags \ {Max(Due)} /\ Due /= {}
    BY <1>1, <1>d DEF TellQuieter, Tell, sound
  <2>2. flags' = 3..(Max(Due) - 1)
    BY <2>1, DueIs
  <2> QED
    BY <1>1, <2>1, <2>2
<1>e. CASE EndTurn
  <2>1. /\ pc = "checks" /\ Due = {} /\ pc' = (IF score > Goal THEN "won" ELSE "input")
        /\ UNCHANGED <<flags, player, volume>>
    BY <1>e DEF EndTurn, sound
  <2>2. score > Goal => flags = {}
    <3>1. SUFFICES ASSUME score > Goal, NEW l \in flags PROVE FALSE
      BY <2>1
    <3>2. l \in 3..5
      BY <1>1, <1>2, <2>1, <3>1 DEF Loudest
    <3>3. score > Threshold[l]
      BY <1>2, <3>1, <3>2, ThresholdIs
    <3> QED
      BY <2>1, <3>1, <3>3 DEF Due
  <2> QED
    BY <1>1, <2>1, <2>2
<1>f. CASE PlayerAnswers
  <2>1. /\ pc = "wait" /\ volume' = cmd /\ flags' = flags /\ pc' \in {"checks", "input"}
        /\ player' = IF player = "idle" THEN "none" ELSE player
    BY <1>f DEF PlayerAnswers, After
  <2> QED
    BY <1>1, <2>1
<1>g. CASE PlayerStarts \/ PlayerPlays
  BY <1>1, <1>g DEF PlayerStarts, PlayerPlays
<1>h. CASE PlayerLeaves
  BY Zenon, <1>h DEF PlayerLeaves
<1>i. CASE UNCHANGED vars
  BY <1>1, <1>i DEF vars
<1> QED
  BY Zenon, <1>a, <1>b, <1>c, <1>d, <1>e, <1>f, <1>g, <1>h, <1>i DEF Next

\* A sleeper who wins with one process playing all the time has heard it
\* turned down to level 3, also after restarts and after moves that jump
\* over a threshold (2048.c:415-436).
THEOREM WonIsQuietAlways == Spec => []WonIsQuiet
<1>1. Sounds /\ Heard => WonIsQuiet
  <2> SUFFICES ASSUME Sounds, Heard, pc = "won", lasting PROVE volume = 3
    BY DEF WonIsQuiet
  <2>1. lasting = TRUE => Following
    BY DEF Heard
  <2>2. Following
    BY Zenon, <2>1
  <2>3. volume \in 3..Loudest /\ 3..(volume - 1) = {}
    BY <2>2 DEF Sounds, Following, Level
  <2> QED
    BY <2>3 DEF Loudest
<1> QED
  BY <1>1, InitSounds, NextSounds, InitHeard, NextHeard, PTL DEF Spec
-----------------------------------------------------------------------------
(* The rule, from the front.                                               *)

LEMMA ConsIs ==
  ASSUME NEW a \in Tile, NEW s \in Seq(Tile)
  PROVE  /\ <<a>> \o s \in Seq(Tile) /\ Len(<<a>> \o s) = Len(s) + 1 /\ Len(s) \in Nat
         /\ (<<a>> \o s)[1] = a
         /\ \A i \in 1..Len(s) : (<<a>> \o s)[i + 1] = s[i]
         /\ Rest(<<a>> \o s, 1) = s
<1> DEFINE p == <<a>> \o s
<1>1. /\ p \in Seq(Tile) /\ Len(p) = Len(s) + 1 /\ Len(s) \in Nat
      /\ p[1] = a /\ \A i \in 1..Len(s) : p[i + 1] = s[i]
  BY ConsType
<1> HIDE DEF p
<1>2. 1 \in 0..Len(p)
  BY <1>1
<1>3. /\ Rest(p, 1) \in Seq(Tile) /\ Len(Rest(p, 1)) = Len(p) - 1
      /\ \A i \in 1..(Len(p) - 1) : Rest(p, 1)[i] = p[i + 1]
  BY <1>1, <1>2, RestIs
<1>4. Rest(p, 1) = s
  BY <1>1, <1>3, SameSeq
<1> QED
  BY <1>1, <1>4 DEF p

\* The first tile stays if there is none behind it, or a different one, and
\* merges with an equal one.
LEMMA MergeCons ==
  ASSUME NEW a \in Tile, NEW s \in Seq(Tile)
  PROVE  /\ Len(s) = 0 \/ s[1] /= a =>
              /\ Merge(<<a>> \o s) = <<a>> \o Merge(s)
              /\ MergeScore(<<a>> \o s) = MergeScore(s)
         /\ Merge(<<a>> \o (<<a>> \o s)) = <<a + 1>> \o Merge(s)
         /\ MergeScore(<<a>> \o (<<a>> \o s)) = Shown(a + 1) + MergeScore(s)
<1> DEFINE p == <<a>> \o s
           q == <<a>> \o p
<1>1. /\ p \in Seq(Tile) /\ Len(p) = Len(s) + 1 /\ Len(s) \in Nat
      /\ p[1] = a /\ Rest(p, 1) = s /\ \A i \in 1..Len(s) : p[i + 1] = s[i]
  BY ConsIs
<1>2. ASSUME Len(s) = 0 \/ s[1] /= a
      PROVE  Merge(p) = <<a>> \o Merge(s) /\ MergeScore(p) = MergeScore(s)
  <2> HIDE DEF p
  <2>1. ~Pair(p, 1)
    <3>1. Len(s) > 0 => p[1 + 1] = s[1]
      BY <1>1
    <3> QED
      BY <1>1, <1>2, <3>1 DEF Pair
  <2>2. Len(p) > 0
    BY <1>1
  <2> QED
    BY <1>1, <2>1, <2>2, MergeStep
<1> HIDE DEF p
<1>3. /\ q \in Seq(Tile) /\ Len(q) = Len(p) + 1 /\ q[1] = a
      /\ \A i \in 1..Len(p) : q[i + 1] = p[i]
  BY <1>1, ConsIs
<1> HIDE DEF q
<1>4. Pair(q, 1) /\ Len(q) > 0 /\ 2 \in 0..Len(q)
  <2>1. q[1 + 1] = p[1]
    BY <1>1, <1>3
  <2> QED
    BY <1>1, <1>3, <2>1 DEF Pair
<1>5. Rest(q, 2) = s
  <2>1. /\ Rest(q, 2) \in Seq(Tile) /\ Len(Rest(q, 2)) = Len(q) - 2
        /\ \A i \in 1..(Len(q) - 2) : Rest(q, 2)[i] = q[i + 2]
    BY <1>3, <1>4, RestIs
  <2>2. ASSUME NEW i \in 1..Len(s) PROVE q[i + 2] = s[i]
    <3>1. i + 1 \in 1..Len(p) /\ i + 1 + 1 = i + 2
      BY <1>1
    <3> QED
      BY <1>1, <1>3, <3>1
  <2> QED
    BY <1>1, <1>3, <2>1, <2>2, SameSeq
<1>6. Merge(q) = <<a + 1>> \o Merge(s) /\ MergeScore(q) = Shown(a + 1) + MergeScore(s)
  BY <1>3, <1>4, <1>5, MergeStep
<1> QED
  BY <1>2, <1>6 DEF p, q

\* The tiles of a line from each of its cells on.
IsAhead(f, l, n) ==
  /\ TilesFrom(f, l, n) /\ Tiles(l, n) = f[0]
  /\ f \in [0..n -> Seq(Tile)]
Ahead(l, n) == CHOOSE f : IsAhead(f, l, n)

LEMMA AheadIs ==
  ASSUME NEW n \in Nat, NEW l, \A i \in 0..(n - 1) : l[i] \in Nat
  PROVE  /\ Tiles(l, n) = Ahead(l, n)[0] /\ Ahead(l, n)[n] = <<>>
         /\ \A i \in 0..n : Ahead(l, n)[i] \in Seq(Tile)
         /\ \A i \in 0..(n - 1) : Ahead(l, n)[i] = IF l[i] = 0 THEN Ahead(l, n)[i + 1]
                                                 ELSE <<l[i]>> \o Ahead(l, n)[i + 1]
<1> DEFINE f == Ahead(l, n)
<1>1. \E g : IsAhead(g, l, n)
  <2>1. PICK g : TilesFrom(g, l, n) /\ Tiles(l, n) = g[0] /\ g \in [0..n -> Seq(Tile)]
    BY TilesIs DEF Tile
  <2> QED
    BY <2>1 DEF IsAhead
<1>2. IsAhead(f, l, n)
  BY Zenon, <1>1 DEF Ahead
<1> HIDE DEF f
<1>3. \A i \in 0..n : f[i] = IF i = n THEN <<>> ELSE IF l[i] = 0 THEN f[i + 1] ELSE <<l[i]>> \o f[i + 1]
  BY <1>2 DEF IsAhead, TilesFrom
<1>4. f[n] = <<>>
  <2>1. n \in 0..n
    OBVIOUS
  <2> QED
    BY Zenon, <1>3, <2>1
<1>5. ASSUME NEW i \in 0..(n - 1)
      PROVE  f[i] = IF l[i] = 0 THEN f[i + 1] ELSE <<l[i]>> \o f[i + 1]
  <2>1. i \in 0..n /\ i /= n
    OBVIOUS
  <2> QED
    BY Zenon, <1>3, <2>1
<1>6. Tiles(l, n) = f[0] /\ \A i \in 0..n : f[i] \in Seq(Tile)
  BY <1>2 DEF IsAhead
<1> QED
  BY <1>4, <1>5, <1>6 DEF f

\* The result is the first k cells, and what is still to come.
Splits(whole, k, a, more) ==
  /\ Len(whole) = k + Len(more)
  /\ \A i \in 1..k : whole[i] = a[i - 1]
  /\ \A i \in 1..Len(more) : whole[k + i] = more[i]

LEMMA SplitsNext ==
  ASSUME NEW w \in Seq(Tile), NEW k \in Nat, NEW a, NEW b, NEW e \in Tile, NEW s \in Seq(Tile),
         Splits(w, k, a, <<e>> \o s), \A i \in 0..(k - 1) : b[i] = a[i], b[k] = e
  PROVE  Splits(w, k + 1, b, s)
<1> DEFINE p == <<e>> \o s
<1>1. /\ Len(p) = Len(s) + 1 /\ Len(s) \in Nat
      /\ p[1] = e /\ \A i \in 1..Len(s) : p[i + 1] = s[i]
  BY ConsIs
<1> HIDE DEF p
<1>2. /\ Len(w) = k + Len(p)
      /\ \A i \in 1..k : w[i] = a[i - 1]
      /\ \A i \in 1..Len(p) : w[k + i] = p[i]
  BY DEF Splits, p
<1>3. ASSUME NEW i \in 1..(k + 1) PROVE w[i] = b[i - 1]
  <2>1. CASE i = k + 1
    BY <1>1, <1>2, <2>1
  <2>2. CASE i /= k + 1
    BY <1>2, <2>2
  <2> QED
    BY <2>1, <2>2
<1>4. ASSUME NEW i \in 1..Len(s) PROVE w[k + 1 + i] = s[i]
  <2>1. i + 1 \in 1..Len(p) /\ k + (i + 1) = k + 1 + i
    BY <1>1
  <2>2. w[k + (i + 1)] = p[i + 1]
    BY <1>2, <2>1
  <2> QED
    BY <1>1, <2>1, <2>2
<1>5. Len(w) = k + 1 + Len(s)
  BY <1>1, <1>2
<1> QED
  BY <1>3, <1>4, <1>5 DEF Splits

LEMMA SplitsSame ==
  ASSUME NEW w, NEW k \in Nat, NEW a, NEW b, NEW s,
         Splits(w, k, a, s), \A i \in 0..(k - 1) : b[i] = a[i]
  PROVE  Splits(w, k, b, s)
  BY DEF Splits
-----------------------------------------------------------------------------
(* slideArray, loop by loop, on a line of any length. *)

Shaped ==
  /\ loop \in {"for", "find", "place"}
  /\ line \in [0..(SIZE - 1) -> Nat] /\ array \in [0..(SIZE - 1) -> Nat]
  /\ x \in 0..SIZE /\ t \in 0..(SIZE - 1) /\ stop \in 0..SIZE /\ gained \in Nat

\* The line is packed into m tiles as far as it was visited.  The last one
\* may still merge, if it is behind the stop position.
Packed(m) ==
  /\ m <= x /\ stop <= m /\ (stop > 0 => stop < x)
  /\ \A i \in 0..(m - 1) : array[i] /= 0
  /\ \A i \in m..(x - 1) : array[i] = 0
  /\ \A i \in x..(SIZE - 1) : array[i] = line[i]

\* The search passes what is empty, and its target is the cell behind the
\* last tile, or that tile.
Aiming(m) ==
  /\ loop /= "for" => 1 <= x /\ x < SIZE /\ array[x] /= 0
  /\ loop = "find" => t <= x - 1 /\ m - 1 <= t /\ (m = stop => m <= t)
  /\ loop = "place" => \/ t = m /\ (m = stop \/ array[m - 1] /= array[x])
                       \/ t = m - 1 /\ stop < m /\ array[m - 1] = array[x]

\* What the rule makes of the line is what is settled, and what it makes of
\* the last tile, if that may still merge, and the tiles ahead.
Settled(m) == IF m = stop THEN m ELSE m - 1
Coming(m) == IF m = stop THEN Ahead(line, SIZE)[x] ELSE <<array[m - 1]>> \o Ahead(line, SIZE)[x]
Computing(m) ==
  /\ Splits(Merge(Tiles(line, SIZE)), Settled(m), array, Merge(Coming(m)))
  /\ SlidScore(line, SIZE) = gained + MergeScore(Coming(m))

Sliding == Shaped /\ \E m \in Nat : Packed(m) /\ Aiming(m) /\ Computing(m)

LEMMA AheadOfLine ==
  ASSUME Shaped
  PROVE  /\ Tiles(line, SIZE) = Ahead(line, SIZE)[0] /\ Ahead(line, SIZE)[SIZE] = <<>>
         /\ \A i \in 0..SIZE : Ahead(line, SIZE)[i] \in Seq(Tile)
         /\ \A i \in 0..(SIZE - 1) :
              Ahead(line, SIZE)[i] = IF line[i] = 0 THEN Ahead(line, SIZE)[i + 1]
                                       ELSE <<line[i]>> \o Ahead(line, SIZE)[i + 1]
<1>1. SIZE \in Nat /\ \A i \in 0..(SIZE - 1) : line[i] \in Nat
  BY SizeAssumption DEF Shaped
<1> QED
  BY <1>1, AheadIs

LEMMA InitSliding == SlideInit => Sliding
<1> SUFFICES ASSUME SlideInit PROVE Sliding
  OBVIOUS
<1>1. Shaped
  BY SizeAssumption DEF SlideInit, Index, Shaped
<1>2. loop = "for" /\ x = 0 /\ stop = 0 /\ gained = 0 /\ array = line
  BY DEF SlideInit
<1>3. Packed(0) /\ Aiming(0)
  BY <1>2 DEF Packed, Aiming
<1> DEFINE s == Tiles(line, SIZE)
<1>4. s = Ahead(line, SIZE)[0] /\ s \in Seq(Tile)
  <2>1. 0 \in 0..SIZE
    BY SizeAssumption
  <2> QED
    BY <1>1, <2>1, AheadOfLine
<1>5. Coming(0) = s /\ Settled(0) = 0 /\ SlidScore(line, SIZE) = MergeScore(s)
  BY <1>2, <1>4 DEF Coming, Settled, SlidScore
<1> HIDE DEF s
<1>6. Merge(s) \in Seq(Tile) /\ MergeScore(s) \in Nat
  BY <1>4, MergeStep
<1>7. Splits(Merge(s), 0, array, Merge(s))
  BY <1>6 DEF Splits
<1>8. Computing(0)
  BY <1>2, <1>5, <1>6, <1>7 DEF Computing, s
<1> QED
  BY <1>1, <1>3, <1>8 DEF Sliding

\* A tile e comes behind the last one and does not merge with it.
LEMMA Advance ==
  ASSUME Shaped, Shaped', NEW m \in Nat, Packed(m), Computing(m),
         NEW e \in Tile, x < SIZE, line[x] = e, m = stop \/ array[m - 1] /= e,
         \A i \in 0..(m - 1) : array'[i] = array[i], array'[m] = e,
         x' = x + 1, UNCHANGED <<stop, gained, line>>
  PROVE  Computing(m + 1)'
<1> DEFINE w == Merge(Tiles(line, SIZE))
           s == Ahead(line, SIZE)[x + 1]
<1>1. /\ x \in 0..(SIZE - 1) /\ x \in 0..SIZE /\ x + 1 \in 0..SIZE /\ 0 \in 0..SIZE
      /\ stop \in Nat /\ stop <= m /\ e /= 0 /\ SIZE \in Nat
  BY SizeAssumption DEF Shaped, Packed, Tile
<1>2. s \in Seq(Tile) /\ w \in Seq(Tile) /\ Ahead(line, SIZE)[x] = <<e>> \o s
  BY <1>1, AheadOfLine, MergeStep
<1>3. Settled(m + 1)' = m /\ Coming(m + 1)' = <<e>> \o s
  <2>1. m + 1 /= stop' /\ m + 1 - 1 = m
    BY <1>1
  <2> QED
    BY <2>1 DEF Settled, Coming
<1> HIDE DEF s, w
<1>4. /\ <<e>> \o s \in Seq(Tile) /\ (<<e>> \o s)[1] = e
      /\ Merge(<<e>> \o s) \in Seq(Tile) /\ MergeScore(<<e>> \o s) \in Nat
  BY <1>2, ConsIs, MergeStep
<1>5. Splits(w, m, array', Merge(<<e>> \o s)) /\ SlidScore(line, SIZE) = gained + MergeScore(<<e>> \o s)
  <2>1. CASE m = stop
    <3>1. Splits(w, m, array, Merge(<<e>> \o s)) /\ SlidScore(line, SIZE) = gained + MergeScore(<<e>> \o s)
      BY <1>2, <2>1 DEF Computing, Settled, Coming, w
    <3> QED
      BY <3>1, SplitsSame
  <2>2. CASE m /= stop
    <3> DEFINE a == array[m - 1]
               k == m - 1
    <3>1. k \in Nat /\ k + 1 = m /\ k \in 0..(SIZE - 1) /\ a \in Tile /\ a /= e
      BY <1>1, <2>2 DEF Packed, Shaped, Tile
    <3>2. /\ Splits(w, k, array, Merge(<<a>> \o (<<e>> \o s)))
          /\ SlidScore(line, SIZE) = gained + MergeScore(<<a>> \o (<<e>> \o s))
      BY <1>2, <2>2 DEF Computing, Settled, Coming, w
    <3>3. \A i \in 0..(k - 1) : array'[i] = array[i]
      BY <3>1
    <3>4. array'[k] = a
      BY <3>1
    <3> HIDE DEF a, k
    <3>5. /\ Merge(<<a>> \o (<<e>> \o s)) = <<a>> \o Merge(<<e>> \o s)
          /\ MergeScore(<<a>> \o (<<e>> \o s)) = MergeScore(<<e>> \o s)
      BY <1>4, <3>1, MergeCons
    <3>6. Splits(w, k + 1, array', Merge(<<e>> \o s))
      BY <1>2, <1>4, <3>1, <3>2, <3>3, <3>4, <3>5, SplitsNext
    <3> QED
      BY <3>1, <3>2, <3>5, <3>6
  <2> QED
    BY <2>1, <2>2
<1> QED
  BY <1>3, <1>5 DEF Computing, w

\* A tile merges with the last one, which is settled with that.
LEMMA Absorb ==
  ASSUME Shaped, NEW m \in Nat, Packed(m), Computing(m),
         NEW e \in Tile, x < SIZE, line[x] = e, stop < m, array[m - 1] = e,
         \A i \in 0..(m - 2) : array'[i] = array[i], array'[m - 1] = e + 1,
         x' = x + 1, stop' = m, gained' = gained + Shown(e + 1), UNCHANGED line
  PROVE  Computing(m)'
<1> DEFINE w == Merge(Tiles(line, SIZE))
           s == Ahead(line, SIZE)[x + 1]
           k == m - 1
<1>1. /\ x \in 0..(SIZE - 1) /\ x \in 0..SIZE /\ x + 1 \in 0..SIZE /\ 0 \in 0..SIZE
      /\ k \in Nat /\ k + 1 = m /\ e /= 0 /\ e + 1 \in Tile /\ e + 1 \in Nat /\ m /= stop /\ m - 2 = k - 1
  BY SizeAssumption DEF Shaped, Packed, Tile
<1>2. s \in Seq(Tile) /\ w \in Seq(Tile) /\ Ahead(line, SIZE)[x] = <<e>> \o s
  BY <1>1, AheadOfLine, MergeStep
<1>3. Settled(m)' = m /\ Coming(m)' = s
  BY DEF Settled, Coming
<1>4. /\ Splits(w, k, array, Merge(<<e>> \o (<<e>> \o s)))
      /\ SlidScore(line, SIZE) = gained + MergeScore(<<e>> \o (<<e>> \o s))
  BY <1>1, <1>2 DEF Computing, Settled, Coming
<1>5. (\A i \in 0..(k - 1) : array'[i] = array[i]) /\ array'[k] = e + 1
  BY <1>1
<1> HIDE DEF s, w, k
<1>6. /\ Merge(<<e>> \o (<<e>> \o s)) = <<e + 1>> \o Merge(s)
      /\ MergeScore(<<e>> \o (<<e>> \o s)) = Shown(e + 1) + MergeScore(s)
      /\ Merge(s) \in Seq(Tile) /\ MergeScore(s) \in Nat /\ Shown(e + 1) \in Nat
  BY <1>1, <1>2, MergeCons, MergeStep, ShownDoubles
<1>7. Splits(w, m, array', Merge(s))
  BY <1>1, <1>2, <1>4, <1>5, <1>6, SplitsNext
<1>8. SlidScore(line, SIZE) = gained' + MergeScore(s)
  <2>1. gained \in Nat
    BY DEF Shaped
  <2> QED
    BY <1>4, <1>6, <2>1
<1> QED
  BY <1>3, <1>7, <1>8 DEF Computing, w

LEMMA NextShaped == Sliding /\ [SlideNext]_slideVars => Shaped'
<1> SUFFICES ASSUME Sliding, [SlideNext]_slideVars PROVE Shaped'
  OBVIOUS
<1> USE SizeAssumption
<1>0. Shaped
  BY DEF Sliding
<1>1. PICK m \in Nat : Packed(m) /\ Aiming(m)
  BY DEF Sliding
<1>2. CASE SkipCell
  BY <1>0, <1>2 DEF SkipCell, Shaped
<1>3. CASE StartSearch
  BY <1>0, <1>3 DEF StartSearch, Shaped
<1>4. CASE Search
  <2>1. /\ loop = "find" /\ t <= x - 1 /\ m - 1 <= t /\ (m = stop => m <= t)
        /\ 1 <= x /\ x < SIZE /\ t \in Nat /\ stop \in Nat
        /\ (t >= m => array[t] = 0) /\ (array[t] = 0 /\ t /= stop => t >= m)
    BY <1>0, <1>1, <1>4 DEF Search, Aiming, Packed, Shaped
  <2>2. t' \in 0..(SIZE - 1) /\ loop' \in {"find", "place"}
    <3>1. CASE array[t] /= 0
      BY <1>0, <1>4, <2>1, <3>1 DEF Search, Shaped
    <3>2. CASE array[t] = 0 /\ t = stop
      BY <1>0, <1>4, <2>1, <3>2 DEF Search, Shaped
    <3>3. CASE array[t] = 0 /\ t /= stop
      <4>1. t - 1 \in Nat
        BY <1>1, <2>1, <3>3 DEF Packed
      <4> QED
        BY <1>0, <1>4, <2>1, <3>3, <4>1 DEF Search, Shaped
    <3> QED
      BY <3>1, <3>2, <3>3
  <2>3. UNCHANGED <<array, x, stop, gained, line>>
    BY <1>4 DEF Search
  <2> QED
    BY <1>0, <2>2, <2>3 DEF Shaped
<1>5. CASE Place
  <2>1. /\ loop' = "for" /\ x' = x + 1 /\ t' = t /\ line' = line /\ x \in 1..(SIZE - 1)
        /\ t \in 0..(SIZE - 1) /\ array[t] \in Nat /\ array[x] \in Nat
    BY <1>0, <1>1, <1>5 DEF Place, Aiming, Shaped
  <2>m. ASSUME NEW v \in Nat PROVE Moved(v) \in [0..(SIZE - 1) -> Nat]
    BY <1>0 DEF Moved, Shaped
  <2>2. CASE UNCHANGED <<array, stop, gained>>
    BY <1>0, <2>1, <2>2 DEF Shaped
  <2>3. CASE array' = Moved(array[x]) /\ UNCHANGED <<stop, gained>>
    <3>1. array' \in [0..(SIZE - 1) -> Nat]
      BY <2>1, <2>3, <2>m
    <3> QED
      BY <1>0, <2>1, <2>3, <3>1 DEF Shaped
  <2>4. CASE array' = Moved(array[t] + 1) /\ gained' = gained + Shown(array[t] + 1) /\ stop' = t + 1
    <3>1. array[t] + 1 \in Nat
      BY <2>1
    <3>2. Shown(array[t] + 1) \in Nat
      BY <3>1, ShownDoubles
    <3>3. gained' \in Nat
      BY <1>0, <2>4, <3>2 DEF Shaped
    <3>4. array' \in [0..(SIZE - 1) -> Nat]
      BY <2>4, <2>m, <3>1
    <3>5. stop' \in 0..SIZE
      BY <2>1, <2>4
    <3> QED
      BY <1>0, <2>1, <3>3, <3>4, <3>5 DEF Shaped
  <2> QED
    BY <1>5, <2>2, <2>3, <2>4 DEF Place
<1>6. CASE UNCHANGED slideVars
  BY <1>0, <1>6 DEF slideVars, Shaped
<1> QED
  BY <1>2, <1>3, <1>4, <1>5, <1>6 DEF SlideNext

LEMMA SameComputing ==
  ASSUME NEW m \in Nat, Computing(m), UNCHANGED <<array, stop, gained, line>>,
         Ahead(line, SIZE)[x'] = Ahead(line, SIZE)[x]
  PROVE  Computing(m)'
<1>1. Coming(m)' = Coming(m) /\ Settled(m)' = Settled(m)
  BY DEF Coming, Settled
<1> QED
  BY <1>1 DEF Computing

LEMMA NextSliding == Sliding /\ [SlideNext]_slideVars => Sliding'
<1> SUFFICES ASSUME Sliding, [SlideNext]_slideVars PROVE Sliding'
  OBVIOUS
<1>0. Shaped /\ Shaped'
  BY NextShaped DEF Sliding
<1>1. PICK m \in Nat : Packed(m) /\ Aiming(m) /\ Computing(m)
  BY DEF Sliding
<1>g. ASSUME NEW k \in Nat, Packed(k)', Aiming(k)', Computing(k)' PROVE Sliding'
  BY <1>0, <1>g DEF Sliding
<1>v. /\ SIZE \in Nat /\ x \in Nat /\ t \in Nat /\ stop \in Nat /\ x <= SIZE
      /\ \A i \in 0..(SIZE - 1) : array[i] \in Nat
  BY <1>0, SizeAssumption DEF Shaped
<1>2. CASE SkipCell
  <2>1. /\ loop = "for" /\ x < SIZE /\ (array[x] = 0 \/ x = 0) /\ x' = x + 1
        /\ UNCHANGED <<loop, array, t, stop, gained, line>>
    BY <1>2 DEF SkipCell
  <2>2. x \in 0..(SIZE - 1) /\ array[x] = line[x]
    BY <1>1, <1>v, <2>1 DEF Packed
  <2>3. CASE array[x] = 0
    <3>1. Ahead(line, SIZE)[x'] = Ahead(line, SIZE)[x]
      BY <1>0, <2>1, <2>2, <2>3, AheadOfLine
    <3>2. Computing(m)'
      BY <1>1, <2>1, <3>1, SameComputing
    <3>3. Packed(m)' /\ Aiming(m)'
      BY <1>1, <1>v, <2>1, <2>3 DEF Packed, Aiming
    <3> QED
      BY <1>g, <3>2, <3>3
  <2>4. CASE array[x] /= 0
    <3>1. x = 0 /\ m = 0 /\ stop = 0
      BY <1>1, <1>v, <2>1, <2>4 DEF Packed
    <3> DEFINE e == array[x]
    <3>2. e \in Tile /\ line[x] = e /\ m = stop /\ array'[m] = e
      BY <1>v, <2>1, <2>2, <2>4, <3>1 DEF Tile
    <3>3. (\A i \in 0..(m - 1) : array'[i] = array[i]) /\ UNCHANGED <<stop, gained, line>>
      BY <2>1
    <3> HIDE DEF e
    <3>4. Computing(m + 1)'
      BY <1>0, <1>1, <2>1, <3>2, <3>3, Advance
    <3>5. Packed(m + 1)' /\ Aiming(m + 1)' /\ m + 1 \in Nat
      BY <1>1, <1>v, <2>1, <2>4, <3>1 DEF Packed, Aiming
    <3> QED
      BY <1>g, <3>4, <3>5
  <2> QED
    BY <2>3, <2>4
<1>3. CASE StartSearch
  <2>1. /\ x < SIZE /\ array[x] /= 0 /\ x /= 0 /\ t' = x - 1 /\ loop' = "find"
        /\ UNCHANGED <<array, x, stop, gained, line>>
    BY <1>3 DEF StartSearch
  <2>2. Computing(m)'
    BY <1>1, <2>1, SameComputing
  <2>3. Packed(m)' /\ Aiming(m)'
    BY <1>1, <1>v, <2>1 DEF Packed, Aiming
  <2> QED
    BY <1>g, <2>2, <2>3
<1>4. CASE Search
  <2>1. loop = "find" /\ UNCHANGED <<array, x, stop, gained, line>>
    BY <1>4 DEF Search
  <2>2. Computing(m)' /\ Packed(m)'
    BY <1>1, <2>1, SameComputing DEF Packed
  <2>3. /\ t <= x - 1 /\ m - 1 <= t /\ (m = stop => m <= t)
        /\ 1 <= x /\ x < SIZE /\ array[x] /= 0
        /\ (t >= m => array[t] = 0) /\ (m - 1 >= 0 => array[m - 1] /= 0) /\ stop <= m /\ m <= x
    BY <1>1, <1>v, <2>1 DEF Aiming, Packed
  <2>4. CASE array[t] /= 0
    <3>1. t = m - 1 /\ stop < m /\ loop' = "place"
      BY <1>1, <1>4, <1>v, <2>3, <2>4 DEF Search
    <3>2. t' = IF array[t] = array[x] THEN t ELSE t + 1
      BY <1>4, <2>4 DEF Search
    <3>3. Aiming(m)'
      BY <1>1, <1>v, <2>1, <2>3, <3>1, <3>2 DEF Aiming
    <3> QED
      BY <1>g, <2>2, <3>3
  <2>5. CASE array[t] = 0 /\ t = stop
    <3>1. t = m /\ t' = t /\ loop' = "place"
      BY <1>1, <1>4, <1>v, <2>3, <2>5 DEF Search
    <3>2. Aiming(m)'
      BY <1>1, <1>v, <2>1, <2>3, <2>5, <3>1 DEF Aiming
    <3> QED
      BY <1>g, <2>2, <3>2
  <2>6. CASE array[t] = 0 /\ t /= stop
    <3>1. t >= m /\ t' = t - 1 /\ loop' = "find"
      BY <1>1, <1>4, <1>v, <2>1, <2>3, <2>6 DEF Search
    <3>2. Aiming(m)'
      BY <1>1, <1>v, <2>1, <2>3, <2>6, <3>1 DEF Aiming
    <3> QED
      BY <1>g, <2>2, <3>2
  <2> QED
    BY <2>4, <2>5, <2>6
<1>5. CASE Place
  <2>1. /\ loop = "place" /\ loop' = "for" /\ x' = x + 1 /\ UNCHANGED <<t, line>>
    BY <1>5 DEF Place
  <2>2. /\ \/ t = m /\ (m = stop \/ array[m - 1] /= array[x])
           \/ t = m - 1 /\ stop < m /\ array[m - 1] = array[x]
        /\ 1 <= x /\ x < SIZE /\ array[x] /= 0 /\ x \in 0..(SIZE - 1)
        /\ stop <= m /\ m <= x /\ array[x] = line[x] /\ (m < x => array[m] = 0)
        /\ (m - 1 >= 0 => array[m - 1] /= 0)
    BY <1>1, <1>v, <2>1 DEF Aiming, Packed
  <2> DEFINE e == array[x]
  <2>3. e \in Tile /\ line[x] = e
    BY <1>v, <2>2 DEF Tile
  <2>4. ASSUME t = m, UNCHANGED <<stop, gained>>,
               \A i \in 0..(SIZE - 1) :
                 array'[i] = IF i = m THEN e ELSE IF i = x THEN 0 ELSE array[i]
        PROVE  Sliding'
    <3>1. (\A i \in 0..(m - 1) : array'[i] = array[i]) /\ array'[m] = e
      BY <1>1, <1>v, <2>2, <2>4
    <3>2. m = stop \/ array[m - 1] /= e
      BY <1>v, <2>2, <2>4
    <3> HIDE DEF e
    <3>3. Computing(m + 1)'
      BY <1>0, <1>1, <2>1, <2>2, <2>3, <2>4, <3>1, <3>2, Advance
    <3>4. Packed(m + 1)'
      <4>1. stop' <= m + 1 /\ (stop' > 0 => stop' < x') /\ m + 1 <= x' /\ e /= 0
        BY <1>1, <1>v, <2>1, <2>2, <2>3, <2>4 DEF Packed, Tile
      <4>2. \A i \in 0..m : array'[i] /= 0
        BY <1>1, <1>v, <2>2, <3>1, <4>1 DEF Packed
      <4>3. \A i \in (m + 1)..x : array'[i] = 0
        BY <1>1, <1>v, <2>2, <2>4 DEF Packed
      <4>4. \A i \in (x + 1)..(SIZE - 1) : array'[i] = line'[i]
        BY <1>1, <1>v, <2>1, <2>2, <2>4 DEF Packed
      <4> QED
        BY <1>1, <1>v, <2>1, <4>1, <4>2, <4>3, <4>4 DEF Packed
    <3>5. Aiming(m + 1)' /\ m + 1 \in Nat
      BY <2>1 DEF Aiming
    <3> QED
      BY <1>g, <3>3, <3>4, <3>5
  <2>5. ASSUME t = x, UNCHANGED <<array, stop, gained>> PROVE Sliding'
    <3>1. t = m /\ m = x
      BY <1>1, <1>v, <2>2, <2>5
    <3> QED
      BY <2>4, <2>5, <3>1
  <2>6. ASSUME t /= x, array[t] = 0, array' = Moved(array[x]), UNCHANGED <<stop, gained>>
        PROVE  Sliding'
    <3>1. t = m
      BY <1>1, <1>v, <2>2, <2>6
    <3>2. \A i \in 0..(SIZE - 1) : array'[i] = IF i = m THEN e ELSE IF i = x THEN 0 ELSE array[i]
      BY <1>0, <2>6, <3>1 DEF Moved, Shaped
    <3> QED
      BY <2>4, <2>6, <3>1, <3>2
  <2>7. ASSUME t /= x, array[t] = array[x], array[t] /= 0, array' = Moved(array[t] + 1),
               gained' = gained + Shown(array[t] + 1), stop' = t + 1
        PROVE  Sliding'
    <3>1. t = m - 1 /\ stop < m /\ array[m - 1] = e /\ m - 1 >= 0
      BY <1>1, <1>v, <2>2, <2>7
    <3>2. \A i \in 0..(SIZE - 1) : array'[i] = IF i = x THEN 0 ELSE IF i = m - 1 THEN e + 1 ELSE array[i]
      BY <1>0, <1>v, <2>2, <2>7, <3>1 DEF Moved, Shaped
    <3>3. (\A i \in 0..(m - 2) : array'[i] = array[i]) /\ array'[m - 1] = e + 1
      BY <1>1, <1>v, <2>2, <3>1, <3>2
    <3>4. stop' = m /\ gained' = gained + Shown(e + 1)
      BY <1>1, <2>7, <3>1
    <3> HIDE DEF e
    <3>5. Computing(m)'
      BY <1>0, <1>1, <2>1, <2>2, <2>3, <3>1, <3>3, <3>4, Absorb
    <3>6. Packed(m)'
      <4>1. stop' <= m /\ stop' < x' /\ m <= x' /\ e + 1 /= 0
        BY <1>1, <1>v, <2>1, <2>2, <2>3, <3>4 DEF Tile
      <4>2. \A i \in 0..(m - 1) : array'[i] /= 0
        BY <1>1, <1>v, <2>2, <3>1, <3>3, <4>1 DEF Packed
      <4>3. \A i \in m..x : array'[i] = 0
        BY <1>1, <1>v, <2>2, <3>2 DEF Packed
      <4>4. \A i \in (x + 1)..(SIZE - 1) : array'[i] = line'[i]
        BY <1>1, <1>v, <2>1, <2>2, <3>2 DEF Packed
      <4> QED
        BY <1>1, <1>v, <2>1, <4>1, <4>2, <4>3, <4>4 DEF Packed
    <3>7. Aiming(m)'
      BY <2>1 DEF Aiming
    <3> QED
      BY <1>g, <3>5, <3>6, <3>7
  <2> HIDE DEF e
  <2> QED
    BY <1>5, <2>5, <2>6, <2>7 DEF Place
<1>6. CASE UNCHANGED slideVars
  <2>1. UNCHANGED <<loop, array, x, t, stop, gained, line>>
    BY <1>6 DEF slideVars
  <2>2. Computing(m)'
    BY <1>1, <2>1, SameComputing
  <2>3. Packed(m)' /\ Aiming(m)'
    BY <1>1, <2>1 DEF Packed, Aiming
  <2> QED
    BY <1>g, <2>2, <2>3
<1> QED
  BY <1>2, <1>3, <1>4, <1>5, <1>6 DEF SlideNext

\* The search for a target never leaves the line, and its target is a cell
\* that is empty, holds an equal tile, or is x itself (2048.c:91-113), for
\* every length and every line: the cell before the stop position holds the
\* tile that was merged last, and the stop position is 0 as long as there
\* is none.
THEOREM TargetInArrayAlways == SlideSpec => []TargetInArray
<1>1. Sliding => TargetInArray
  <2> SUFFICES ASSUME Sliding PROVE TargetInArray
    OBVIOUS
  <2>1. PICK m \in Nat : Packed(m) /\ Aiming(m)
    BY DEF Sliding
  <2>2. Shaped
    BY DEF Sliding
  <2>3. loop = "find" => t \in 0..(x - 1)
    BY <2>1, <2>2 DEF Aiming, Shaped
  <2>4. loop = "place" => t \in 0..x /\ (array[t] = 0 \/ array[t] = array[x])
    BY <2>1, <2>2 DEF Aiming, Packed, Shaped
  <2> QED
    BY <2>3, <2>4 DEF TargetInArray
<1> QED
  BY <1>1, InitSliding, NextSliding, PTL DEF SlideSpec

Flag == success \in BOOLEAN

LEMMA InitFlag == SlideInit => Flag
  BY DEF SlideInit, Flag
LEMMA NextFlag == Flag /\ [SlideNext]_slideVars => Flag'
  BY Zenon DEF Flag, SlideNext, slideVars, SkipCell, StartSearch, Search, Place

\* Every variable of slideArray keeps its type.
THEOREM SlideTypeOKAlways == SlideSpec => []SlideTypeOK
<1>1. Sliding /\ Flag => SlideTypeOK
  BY Zenon DEF Sliding, Flag, Shaped, SlideTypeOK, Index
<1> QED
  BY <1>1, InitSliding, NextSliding, InitFlag, NextFlag, PTL DEF SlideSpec

\* A tile that moved or merged has made some cell larger than it was, and
\* that cell stays larger.
Grown == \E i \in 0..(x - 1) : array[i] > line[i]
Reported ==
  /\ success = TRUE => Grown
  /\ success = FALSE => array = line

LEMMA InitReported == SlideInit => Reported
<1> SUFFICES ASSUME SlideInit PROVE Reported
  OBVIOUS
<1>1. success = FALSE
  BY DEF SlideInit
<1>2. array = line
  BY DEF SlideInit
<1> QED
  BY Zenon, <1>1, <1>2 DEF Reported

LEMMA NextReported ==
  Sliding /\ Flag /\ Reported /\ [SlideNext]_slideVars => Reported'
<1> SUFFICES ASSUME Sliding, Flag, Reported, [SlideNext]_slideVars
             PROVE  Reported'
  OBVIOUS
<1>0. /\ SIZE \in Nat /\ x \in Nat /\ x <= SIZE /\ t \in 0..(SIZE - 1)
      /\ array \in [0..(SIZE - 1) -> Nat] /\ line \in [0..(SIZE - 1) -> Nat]
  BY SizeAssumption DEF Sliding, Shaped
<1>s. ASSUME UNCHANGED <<array, success, line>>, x' = x \/ x' = x + 1
      PROVE  Reported'
  <2>1. Grown => Grown'
    BY <1>0, <1>s DEF Grown
  <2>2. success' = success /\ (array = line => array' = line')
    BY <1>s
  <2> QED
    BY Zenon, <2>1, <2>2 DEF Reported
<1>1. CASE SkipCell \/ StartSearch \/ Search \/ UNCHANGED slideVars
  <2>1. UNCHANGED <<array, success, line>>
    BY Zenon, <1>1 DEF SkipCell, StartSearch, Search, slideVars
  <2>2. x' = x \/ x' = x + 1
    BY Zenon, <1>1 DEF SkipCell, StartSearch, Search, slideVars
  <2> QED
    BY <1>s, <2>1, <2>2
<1>2. CASE Place
  <2>1. loop = "place" /\ x' = x + 1 /\ line' = line
    BY <1>2 DEF Place
  <2>2. t \in 0..x /\ x \in 1..(SIZE - 1) /\ array[x] > 0
    <3>1. PICK m \in Nat : Packed(m) /\ Aiming(m)
      BY DEF Sliding
    <3>2. x < SIZE /\ 1 <= x /\ array[x] /= 0 /\ m <= x /\ (t = m \/ t = m - 1)
      BY <2>1, <3>1 DEF Aiming, Packed
    <3> QED
      BY <1>0, <3>2
  <2>3. CASE UNCHANGED <<array, success>>
    BY <1>s, <2>1, <2>3
  <2>4. ASSUME NEW v \in Nat, v > array[t], t /= x, array' = Moved(v)
        PROVE  Grown'
    <3>0. /\ t \in 0..(x - 1) /\ x \in 0..(SIZE - 1)
          /\ \A i \in 0..(x - 1) : i \in 0..(SIZE - 1) /\ i /= x /\ array[i] \in Nat
      BY <1>0, <2>2, <2>4
    <3>a. array' = [array EXCEPT ![t] = v, ![x] = 0]
      BY <2>4 DEF Moved
    <3>b. \A i \in 0..(x - 1) : array'[i] = IF i = t THEN v ELSE array[i]
      BY <1>0, <3>0, <3>a
    <3>1. /\ t \in 0..(x - 1) /\ array'[t] > array[t]
          /\ \A i \in 0..(x - 1) : array'[i] >= array[i]
      BY <2>4, <3>0, <3>b
    <3>2. CASE success = TRUE
      <4>1. Grown
        BY Zenon, <3>2 DEF Reported
      <4>2. PICK i \in 0..(x - 1) : array[i] > line[i]
        BY <4>1 DEF Grown
      <4>3. i \in 0..(x' - 1) /\ array[i] \in Nat /\ line[i] \in Nat /\ array'[i] >= array[i]
        BY <1>0, <2>1, <2>2, <3>1
      <4>4. array'[i] > line'[i]
        <5>1. Moved(v) \in [0..(SIZE - 1) -> Nat]
          BY <1>0, <2>4 DEF Moved
        <5>2. i \in 0..(SIZE - 1)
          BY <1>0, <2>2, <4>2
        <5>3. array'[i] \in Nat
          BY <2>4, <5>1, <5>2
        <5> QED
          BY <2>1, <4>2, <4>3, <5>3
      <4> QED
        BY <4>3, <4>4 DEF Grown
    <3>3. CASE success = FALSE
      <4>1. array = line
        BY Zenon, <3>3 DEF Reported
      <4>2. t \in 0..(x' - 1) /\ array'[t] > line'[t]
        BY <1>0, <2>1, <2>2, <3>1, <4>1
      <4> QED
        BY <4>2 DEF Grown
    <3> QED
      BY Zenon, <3>2, <3>3 DEF Flag
  <2>5. CASE /\ t /= x /\ success' = TRUE
             /\ \/ array[t] = 0 /\ array' = Moved(array[x])
                \/ array[t] = array[x] /\ array' = Moved(array[t] + 1)
    <3>1. Grown'
      BY <1>0, <2>2, <2>4, <2>5
    <3>2. success' = TRUE
      BY <2>5
    <3> QED
      BY Zenon, <3>1, <3>2 DEF Reported
  <2> QED
    BY Zenon, <1>2, <2>3, <2>5 DEF Place
<1> QED
  BY Zenon, <1>1, <1>2 DEF SlideNext

LEMMA SlidingDone ==
  ASSUME Sliding, loop = "for", x = SIZE
  PROVE  array = Slid(line, SIZE) /\ gained = SlidScore(line, SIZE)
<1> DEFINE w == Merge(Tiles(line, SIZE))
<1>0. /\ SIZE \in Nat /\ array \in [0..(SIZE - 1) -> Nat] /\ gained \in Nat
      /\ stop \in Nat
  BY SizeAssumption DEF Sliding, Shaped
<1>1. PICK m \in Nat : Packed(m) /\ Computing(m)
  BY DEF Sliding
<1>2. Ahead(line, SIZE)[x] = <<>> /\ w \in Seq(Tile)
  <2>1. 0 \in 0..SIZE
    BY <1>0
  <2> QED
    BY <2>1, AheadOfLine, MergeStep DEF Sliding
<1>3. <<>> \in Seq(Tile) /\ Len(<<>>) = 0
  OBVIOUS
<1>4. Merge(<<>>) = <<>> /\ MergeScore(<<>>) = 0
  BY <1>3, MergeStep
<1> HIDE DEF w
<1>5. Len(w) = m /\ (\A i \in 0..(m - 1) : w[i + 1] = array[i]) /\ SlidScore(line, SIZE) = gained
  <2>1. CASE m = stop
    <3>1. Splits(w, m, array, <<>>) /\ SlidScore(line, SIZE) = gained + 0
      BY <1>1, <1>2, <1>4, <2>1 DEF Computing, Settled, Coming, w
    <3> QED
      BY <1>0, <3>1 DEF Splits
  <2>2. CASE m /= stop
    <3> DEFINE a == array[m - 1]
               k == m - 1
    <3>1. a \in Tile /\ k \in Nat /\ k + 1 = m
      BY <1>0, <1>1, <2>2 DEF Packed, Tile
    <3>2. /\ Splits(w, k, array, Merge(<<a>> \o <<>>))
          /\ SlidScore(line, SIZE) = gained + MergeScore(<<a>> \o <<>>)
      BY <1>1, <1>2, <2>2 DEF Computing, Settled, Coming, w
    <3>3. array[k] = a
      OBVIOUS
    <3> HIDE DEF a, k
    <3>4. Merge(<<a>> \o <<>>) = <<a>> \o <<>> /\ MergeScore(<<a>> \o <<>>) = 0
      BY <1>3, <1>4, <3>1, MergeCons
    <3>5. Splits(w, k + 1, array, <<>>)
      BY <1>2, <1>3, <3>1, <3>2, <3>3, <3>4, SplitsNext
    <3>6. SlidScore(line, SIZE) = gained
      BY <1>0, <3>2, <3>4
    <3>7. Len(w) = k + 1 /\ \A i \in 1..(k + 1) : w[i] = array[i - 1]
      BY <1>3, <3>1, <3>5 DEF Splits
    <3>8. \A i \in 0..(m - 1) : w[i + 1] = array[i]
      BY <3>1, <3>7
    <3> QED
      BY <3>1, <3>6, <3>7, <3>8
  <2> QED
    BY <2>1, <2>2
<1>6. ASSUME NEW i \in 0..(SIZE - 1) PROVE array[i] = IF i < Len(w) THEN w[i + 1] ELSE 0
  BY <1>0, <1>1, <1>5 DEF Packed
<1>7. array = [i \in 0..(SIZE - 1) |-> IF i < Len(w) THEN w[i + 1] ELSE 0]
  BY <1>0, <1>6
<1> QED
  BY <1>5, <1>7 DEF Slid, w

\* slideArray computes the rule of the game, scores what was merged, and
\* reports whether anything moved (2048.c:115-141), for every length and
\* every line.
THEOREM ComputesRuleAlways == SlideSpec => []ComputesRule
<1>1. Sliding /\ Flag /\ Reported => ComputesRule
  <2> SUFFICES ASSUME Sliding, Flag, Reported, loop = "for", x = SIZE
               PROVE  /\ array = Slid(line, SIZE)
                      /\ gained = SlidScore(line, SIZE)
                      /\ success = (array /= line)
    BY DEF ComputesRule
  <2>1. array = Slid(line, SIZE) /\ gained = SlidScore(line, SIZE)
    BY SlidingDone
  <2>2. Grown => array /= line
    BY DEF Grown, Sliding, Shaped
  <2>3. success = (array /= line)
    BY Zenon, <2>2 DEF Flag, Reported
  <2> QED
    BY <2>1, <2>3
<1> QED
  BY <1>1, InitSliding, NextSliding, InitFlag, NextFlag, InitReported, NextReported, PTL DEF SlideSpec
=============================================================================
