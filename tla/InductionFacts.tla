--------------------------- MODULE InductionFacts ---------------------------
(***************************************************************************)
(* Induction over the natural numbers for a set instead of a predicate,    *)
(* and with it the two forms of recursion the models use: a function       *)
(* defined from k - 1 to k, and FoldLeft, which SequencesExt defines by    *)
(* recursion over sets of indices.                                         *)
(***************************************************************************)
EXTENDS SequencesExt, WellFoundedInduction, TLAPS

\* A set of numbers with 0 and, with n, n + 1, has them all: a smallest number
\* that it does not have would have a predecessor.
LEMMA SetInduction ==
  ASSUME NEW S, 0 \in S, \A n \in Nat : n \in S => n + 1 \in S
  PROVE  Nat \subseteq S
<1> DEFINE T == Nat \ S
           R == OpToRel(<, Nat)
<1> SUFFICES ASSUME T # {} PROVE FALSE
  OBVIOUS
<1>1. T \subseteq Nat
  OBVIOUS
<1>2. IsWellFoundedOn(R, Nat)
  BY NatLessThanWellFounded
<1>3. \A m, n \in Nat : m < n => <<m, n>> \in R
  BY DEF OpToRel
<1> HIDE DEF R, T
<1>4. PICK x \in T : \A y \in T : <<y, x>> \notin R
  BY <1>1, <1>2, WFMin
<1>5. x \in Nat /\ x # 0
  BY DEF T
<1>6. x - 1 \in Nat /\ x - 1 < x /\ (x - 1) + 1 = x
  BY <1>5
<1>7. x - 1 \in T
  BY <1>4, <1>6 DEF T
<1> QED
  BY <1>3, <1>4, <1>5, <1>6, <1>7

\* Max is the greatest element of a non-empty set of indices.
LEMMA MaxOfSubset ==
  ASSUME NEW n \in Nat, NEW s \in SUBSET (1..n), s # {}
  PROVE  Max(s) \in s /\ \A y \in s : y <= Max(s)
<1> DEFINE Top(x, t) == x \in t /\ \A y \in t : x >= y
           P == {k \in Nat : \A t \in SUBSET (1..k) : t # {} => \E x : Top(x, t)}
<1>1. 0 \in P
  OBVIOUS
<1>2. ASSUME NEW k \in Nat, k \in P PROVE k + 1 \in P
  <2> SUFFICES ASSUME NEW t \in SUBSET (1..(k + 1)), t # {} PROVE \E x : Top(x, t)
    OBVIOUS
  <2>1. CASE k + 1 \in t
    <3>1. Top(k + 1, t)
      BY <2>1
    <3> QED
      BY <3>1
  <2>2. CASE k + 1 \notin t
    <3>1. t \in SUBSET (1..k)
      BY <2>2
    <3> QED
      BY <1>2, <3>1
  <2> QED
    BY <2>1, <2>2
<1> HIDE DEF P
<1>3. Nat \subseteq P
  BY <1>1, <1>2, SetInduction
<1>4. \E x : Top(x, s)
  BY <1>3 DEF P
<1>5. Max(s) = CHOOSE x : Top(x, s)
  BY DEF Max
<1> HIDE DEF Top
<1>6. Top(Max(s), s)
  BY <1>4, <1>5
<1> QED
  BY <1>6 DEF Top

\* The last index of a prefix, and the prefix without it.
LEMMA LastOfPrefix ==
  ASSUME NEW n \in Nat, n # 0
  PROVE  1..n # {} /\ Max(1..n) = n /\ (1..n) \ {n} = 1..(n - 1)
<1>1. 1..n \in SUBSET (1..n) /\ n \in 1..n
  OBVIOUS
<1>2. Max(1..n) \in 1..n /\ n <= Max(1..n)
  BY <1>1, MaxOfSubset
<1>3. Max(1..n) = n
  BY <1>2
<1> QED
  BY <1>1, <1>3

\* g is the recursion of FoldLeft: the value at a set of indices is made from
\* the value at the set without its greatest one.
FoldsOver(g, a, op, N) ==
  \A s \in SUBSET (1..N) : g[s] = IF s = {} THEN a ELSE op[<<g[s \ {Max(s)}], Max(s)>>]

LEMMA SubsetRecursion ==
  ASSUME NEW A, NEW a \in A, NEW N \in Nat, NEW op \in [A \X (1..N) -> A]
  PROVE  \E g \in [SUBSET (1..N) -> A] : FoldsOver(g, a, op, N)
<1> DEFINE Rec(g, n) == \A s \in SUBSET (1..n) :
             g[s] = IF s = {} THEN a ELSE op[<<g[s \ {Max(s)}], Max(s)>>]
           Has(n) == \E g \in [SUBSET (1..n) -> A] : Rec(g, n)
           P == {n \in Nat : n <= N => Has(n)}
<1>1. Has(0)
  <2> DEFINE g == [s \in SUBSET (1..0) |-> a]
  <2>1. g \in [SUBSET (1..0) -> A] /\ Rec(g, 0)
    OBVIOUS
  <2> QED
    BY <2>1
<1>2. ASSUME NEW n \in Nat, n + 1 <= N, Has(n) PROVE Has(n + 1)
  <2>1. PICK g \in [SUBSET (1..n) -> A] : Rec(g, n)
    BY <1>2
  <2> DEFINE m == n + 1
             G == [s \in SUBSET (1..m) |-> IF m \in s THEN op[<<g[s \ {m}], m>>] ELSE g[s]]
  <2>2. /\ m \in 1..N /\ m \in Nat
        /\ \A s \in SUBSET (1..m) : s \ {m} \in SUBSET (1..n)
        /\ \A s \in SUBSET (1..m) : m \notin s => s \in SUBSET (1..n)
        /\ \A s \in SUBSET (1..n) : m \notin s /\ s \in SUBSET (1..m)
    BY <1>2
  <2>3. \A s \in SUBSET (1..m) : m \in s => Max(s) = m
    <3> SUFFICES ASSUME NEW s \in SUBSET (1..m), m \in s PROVE Max(s) = m
      OBVIOUS
    <3>1. Max(s) \in s /\ m <= Max(s)
      BY <2>2, MaxOfSubset
    <3>2. Max(s) \in 1..m
      BY <3>1
    <3> HIDE DEF m
    <3> QED
      BY <2>2, <3>1, <3>2
  <2> HIDE DEF m
  <2>4. \A b \in A : op[<<b, m>>] \in A
    BY <2>2
  <2>5. G \in [SUBSET (1..m) -> A]
    BY <2>2, <2>4
  <2>6. ASSUME NEW s \in SUBSET (1..m)
        PROVE  G[s] = IF s = {} THEN a ELSE op[<<G[s \ {Max(s)}], Max(s)>>]
    <3>1. CASE m \in s
      BY <2>2, <2>3, <3>1
    <3>2. CASE m \notin s
      <4>1. s \in SUBSET (1..n) /\ G[s] = g[s]
        BY <2>2, <3>2
      <4>2. s \ {Max(s)} \in SUBSET (1..n)
        BY <4>1
      <4>3. G[s \ {Max(s)}] = g[s \ {Max(s)}]
        BY <2>2, <4>2
      <4> QED
        BY <2>1, <4>1, <4>3
    <3> QED
      BY <3>1, <3>2
  <2> HIDE DEF G
  <2> QED
    BY <2>5, <2>6 DEF m
<1> HIDE DEF Has
<1>3. 0 \in P /\ \A n \in Nat : n \in P => n + 1 \in P
  BY <1>1, <1>2
<1>4. Nat \subseteq P
  <2> HIDE DEF P
  <2> QED
    BY <1>3, SetInduction
<1>5. Has(N)
  BY <1>4
<1> QED
  BY <1>5 DEF Has, FoldsOver

\* h is defined from each number to the next.
Iterates(h, a, op, N) == h[0] = a /\ \A k \in 1..N : h[k] = op[<<h[k - 1], k>>]

LEMMA PrefixRecursion ==
  ASSUME NEW A, NEW a \in A, NEW N \in Nat, NEW op \in [A \X (1..N) -> A]
  PROVE  \E h \in [0..N -> A] : Iterates(h, a, op, N)
<1>1. PICK g \in [SUBSET (1..N) -> A] : FoldsOver(g, a, op, N)
  BY SubsetRecursion
<1> DEFINE h == [k \in 0..N |-> g[1..k]]
<1>2. \A k \in 0..N : 1..k \in SUBSET (1..N)
  OBVIOUS
<1>3. h \in [0..N -> A]
  BY <1>2
<1>4. h[0] = a
  <2> DEFINE none == 1..0
  <2>1. none = {} /\ h[0] = g[none]
    OBVIOUS
  <2> HIDE DEF none, h
  <2> QED
    BY <1>1, <2>1 DEF FoldsOver
<1>5. ASSUME NEW k \in 1..N PROVE h[k] = op[<<h[k - 1], k>>]
  <2>1. k \in Nat /\ k # 0 /\ k \in 0..N /\ k - 1 \in 0..N
    OBVIOUS
  <2>2. 1..k # {} /\ Max(1..k) = k /\ (1..k) \ {k} = 1..(k - 1)
    BY <2>1, LastOfPrefix
  <2>3. g[1..k] = op[<<g[1..(k - 1)], k>>]
    BY <1>1, <1>2, <2>1, <2>2 DEF FoldsOver
  <2> QED
    BY <2>1, <2>3
<1> HIDE DEF h
<1> QED
  BY <1>3, <1>4, <1>5 DEF Iterates

\* iter is the function that FoldLeft chooses, op one turn of the fold as far as
\* its values are in A.
Folding(iter, A, a, op, N) ==
  /\ a \in A /\ N \in Nat /\ op \in [A \X (1..N) -> A]
  /\ iter[{}] = a
  /\ \A t \in SUBSET (1..N) : t # {} /\ iter[t \ {Max(t)}] \in A =>
       iter[t] = op[<<iter[t \ {Max(t)}], Max(t)>>]

\* x is reached from a by op, one index after the other.
Reaches(x, A, a, op, N) == \E h \in [0..N -> A] : Iterates(h, a, op, N) /\ h[N] = x

\* What FoldLeft's recursion computes on the prefixes.
LEMMA FoldPrefixes ==
  ASSUME NEW A, NEW a, NEW N, NEW op, NEW iter, Folding(iter, A, a, op, N)
  PROVE  Reaches(iter[1..N], A, a, op, N)
<1>0. a \in A /\ N \in Nat /\ op \in [A \X (1..N) -> A]
  BY DEF Folding
<1> DEFINE h == [k \in 0..N |-> iter[1..k]]
           P == {k \in Nat : k <= N => iter[1..k] \in A}
<1>1. iter[1..0] = a
  <2> DEFINE none == 1..0
  <2>1. none = {}
    OBVIOUS
  <2> HIDE DEF none
  <2>2. iter[none] = a
    BY <2>1 DEF Folding
  <2> QED
    BY <2>2 DEF none
<1>2. ASSUME NEW k \in 1..N, iter[1..(k - 1)] \in A
      PROVE  iter[1..k] = op[<<iter[1..(k - 1)], k>>]
  <2>1. k \in Nat /\ k # 0
    BY <1>0
  <2>2. 1..k # {} /\ Max(1..k) = k /\ (1..k) \ {k} = 1..(k - 1)
    BY <2>1, LastOfPrefix
  <2>3. 1..k \in SUBSET (1..N)
    BY <1>0
  <2> QED
    BY <1>2, <2>2, <2>3 DEF Folding
<1>3. 0 \in P
  BY <1>0, <1>1
<1>4. ASSUME NEW k \in Nat, k \in P PROVE k + 1 \in P
  <2> SUFFICES ASSUME k + 1 <= N PROVE iter[1..(k + 1)] \in A
    OBVIOUS
  <2>1. k + 1 \in 1..N /\ (k + 1) - 1 = k /\ iter[1..k] \in A
    BY <1>0, <1>4
  <2>2. PICK m \in 1..N : m = k + 1 /\ m - 1 = k
    BY <2>1
  <2>3. iter[1..m] = op[<<iter[1..k], m>>]
    BY <1>2, <2>1, <2>2
  <2>4. op[<<iter[1..k], m>>] \in A
    BY <1>0, <2>1
  <2> QED
    BY <2>2, <2>3, <2>4
<1> HIDE DEF P
<1>5. Nat \subseteq P
  BY <1>3, <1>4, SetInduction
<1>6. \A k \in 0..N : iter[1..k] \in A
  BY <1>0, <1>5 DEF P
<1>7. h \in [0..N -> A] /\ h[N] = iter[1..N] /\ h[0] = a
  BY <1>0, <1>1, <1>6
<1>8. ASSUME NEW k \in 1..N PROVE h[k] = op[<<h[k - 1], k>>]
  <2>1. k \in 0..N /\ k - 1 \in 0..N
    BY <1>0
  <2> QED
    BY <1>2, <1>6, <2>1
<1> HIDE DEF h
<1> QED
  BY <1>7, <1>8 DEF Iterates, Reaches

\* Good holds of the first value and is kept from each to the next, ...
Keeping(Good, A, a, op, N) ==
  /\ a \in A /\ N \in Nat /\ <<0, a>> \in Good
  /\ \A k \in 1..N, x \in A : <<k - 1, x>> \in Good => <<k, op[<<x, k>>]>> \in Good

\* ... so it holds of the last.
LEMMA ReachesKeep ==
  ASSUME NEW A, NEW a, NEW N, NEW op, NEW x, NEW Good,
         Keeping(Good, A, a, op, N), Reaches(x, A, a, op, N)
  PROVE  x \in A /\ <<N, x>> \in Good
<1>1. PICK h \in [0..N -> A] : Iterates(h, a, op, N) /\ h[N] = x
  BY DEF Reaches
<1>2. N \in Nat
  BY DEF Keeping
<1> DEFINE P == {k \in Nat : k <= N => <<k, h[k]>> \in Good}
<1>3. 0 \in P
  BY <1>1 DEF Iterates, Keeping
<1>4. ASSUME NEW k \in Nat, k \in P PROVE k + 1 \in P
  <2> SUFFICES ASSUME k + 1 <= N PROVE <<k + 1, h[k + 1]>> \in Good
    BY <1>2
  <2>1. PICK m \in 1..N : m = k + 1 /\ m - 1 = k
    BY <1>2
  <2>2. <<m - 1, h[m - 1]>> \in Good /\ h[m - 1] \in A
    BY <1>1, <1>2, <1>4, <2>1
  <2>3. h[m] = op[<<h[m - 1], m>>]
    BY <1>1 DEF Iterates
  <2> QED
    BY <2>1, <2>2, <2>3 DEF Keeping
<1> HIDE DEF P
<1>5. Nat \subseteq P
  BY <1>3, <1>4, SetInduction
<1> QED
  BY <1>1, <1>2, <1>5 DEF P

\* more is op with one more index.
Prolongs(more, A, a, op, N) ==
  /\ a \in A /\ N \in Nat /\ op \in [A \X (1..N) -> A] /\ more \in [A \X (1..(N + 1)) -> A]
  /\ \A k \in 1..N, z \in A : more[<<z, k>>] = op[<<z, k>>]

\* The values before the new index stay, and its value follows the last.
LEMMA ReachesStep ==
  ASSUME NEW A, NEW a, NEW N, NEW x, NEW y, NEW op, NEW more, Prolongs(more, A, a, op, N),
         Reaches(x, A, a, op, N), Reaches(y, A, a, more, N + 1)
  PROVE  x \in A /\ y = more[<<x, N + 1>>]
<1>0. /\ a \in A /\ N \in Nat /\ op \in [A \X (1..N) -> A] /\ more \in [A \X (1..(N + 1)) -> A]
      /\ \A k \in 1..N, z \in A : more[<<z, k>>] = op[<<z, k>>]
  BY DEF Prolongs
<1>1. PICK h \in [0..N -> A] : Iterates(h, a, op, N) /\ h[N] = x
  BY DEF Reaches
<1>2. PICK g \in [0..(N + 1) -> A] : Iterates(g, a, more, N + 1) /\ g[N + 1] = y
  BY DEF Reaches
<1> DEFINE P == {k \in Nat : k <= N => g[k] = h[k]}
<1>3. 0 \in P
  BY <1>0, <1>1, <1>2 DEF Iterates
<1>4. ASSUME NEW k \in Nat, k \in P PROVE k + 1 \in P
  <2> SUFFICES ASSUME k + 1 <= N PROVE g[k + 1] = h[k + 1]
    BY <1>0
  <2>1. PICK m \in 1..N : m = k + 1 /\ m - 1 = k
    BY <1>0
  <2>2. m \in 1..(N + 1) /\ m - 1 \in 0..N
    BY <1>0, <2>1
  <2>3. h[m - 1] \in A /\ h[m] = op[<<h[m - 1], m>>]
    BY <1>1, <2>2 DEF Iterates
  <2>4. g[m] = more[<<g[m - 1], m>>]
    BY <1>2, <2>2 DEF Iterates
  <2>5. g[m - 1] = h[m - 1]
    BY <1>0, <1>4, <2>1
  <2> QED
    BY <1>0, <2>1, <2>3, <2>4, <2>5
<1> HIDE DEF P
<1>5. N \in P
  BY <1>0, <1>3, <1>4, SetInduction
<1>6. g[N] = x /\ x \in A
  BY <1>0, <1>1, <1>5 DEF P
<1>7. N + 1 \in 1..(N + 1) /\ (N + 1) - 1 = N
  BY <1>0
<1>8. g[N + 1] = more[<<g[N], N + 1>>]
  BY <1>2, <1>7 DEF Iterates
<1> QED
  BY <1>2, <1>6, <1>8
=============================================================================
