----------------------------- MODULE ListTheorems -----------------------------
(***************************************************************************)
(* What the list operations do, for every list: the facts the proofs about *)
(* the agents' analyses rest on.                                           *)
(*                                                                         *)
(* Induction is stated over sets of numbers, not over predicates: a set    *)
(* that holds 0 and the successor of each of its numbers below N holds     *)
(* all of 0..N.                                                            *)
(***************************************************************************)
EXTENDS PythonLists, FiniteSetTheorems, FunctionTheorems, SequenceTheorems, TLAPS

-----------------------------------------------------------------------------
\* Induction and recursion

\* A set of numbers that is not empty has a least one.
LEMMA LeastNatural ==
    ASSUME NEW T \in SUBSET Nat, T # {}
    PROVE  \E m \in T : \A k \in T : m <= k
  <1>1. PICK m \in T : \A k \in T : <<k, m>> \notin OpToRel(<, Nat)
    BY NatLessThanWellFounded, WFMin, Zenon
  <1>2. \A k \in T : ~(k < m)
    BY <1>1 DEF OpToRel
  <1> QED BY <1>2

\* Induction: a set with 0 and the successor of each of its numbers below N.
LEMMA UpTo ==
    ASSUME NEW N \in Nat, NEW T, 0 \in T, \A n \in 0..(N - 1) : n \in T => n + 1 \in T
    PROVE  0..N \subseteq T
  <1> DEFINE U == (0..N) \ T
  <1> SUFFICES ASSUME U # {} PROVE FALSE
    OBVIOUS
  <1> U \in SUBSET Nat
    OBVIOUS
  <1>1. PICK m \in U : \A k \in U : m <= k
    <2> HIDE DEF U
    <2> QED BY LeastNatural
  <1>2. m - 1 \in 0..(N - 1)
    BY <1>1
  <1>3. m - 1 \in T
    BY <1>1, <1>2
  <1>4. m - 1 + 1 \in T
    BY <1>2, <1>3
  <1> QED BY <1>1, <1>4

\* f starts at c and goes on by steps, as far as n.
Unfolds(f, n, c, step) == f[0] = c /\ \A k \in 1..n : f[k] = step[<<f[k - 1], k>>]

\* A recursive definition over 0..N has a solution.
LEMMA Recursion ==
    ASSUME NEW N \in Nat, NEW S, NEW c \in S, NEW step \in [S \X (1..N) -> S]
    PROVE  \E f \in [0..N -> S] : Unfolds(f, N, c, step)
  <1> DEFINE T == {m \in 0..N : \E f \in [0..m -> S] : Unfolds(f, m, c, step)}
  <1>1. 0 \in T
    <2>1. [n \in 0..0 |-> c] \in [0..0 -> S] /\ Unfolds([n \in 0..0 |-> c], 0, c, step)
      BY DEF Unfolds
    <2>2. \E f \in [0..0 -> S] : Unfolds(f, 0, c, step)
      BY <2>1
    <2>3. 0 \in 0..N
      OBVIOUS
    <2> QED BY <2>2, <2>3
  <1>2. ASSUME NEW m \in 0..(N - 1), m \in T PROVE m + 1 \in T
    <2>1. PICK f \in [0..m -> S] : Unfolds(f, m, c, step)
      BY <1>2
    <2> DEFINE g == [n \in 0..(m + 1) |-> IF n = m + 1 THEN step[<<f[m], m + 1>>] ELSE f[n]]
    <2>2. f[m] \in S /\ m + 1 \in 1..N
      BY <2>1
    <2>3. step[<<f[m], m + 1>>] \in S
      BY <2>2
    <2>4. g \in [0..(m + 1) -> S]
      BY <2>1, <2>3
    <2>5. g[0] = c
      BY <2>1 DEF Unfolds
    <2>6. ASSUME NEW n \in 1..(m + 1) PROVE g[n] = step[<<g[n - 1], n>>]
      <3>1. CASE n = m + 1
        <4>1. n - 1 = m /\ n - 1 # m + 1 /\ n - 1 \in 0..(m + 1)
          BY <3>1
        <4>2. g[n - 1] = f[m] /\ g[n] = step[<<f[m], m + 1>>]
          BY <3>1, <4>1
        <4> QED BY <3>1, <4>2
      <3>2. CASE n # m + 1
        <4>1. n \in 1..m /\ n - 1 \in 0..m /\ n # m + 1 /\ n - 1 # m + 1
          BY <3>2
        <4> QED BY <4>1, <2>1 DEF Unfolds
      <3> QED BY <3>1, <3>2
    <2>7. Unfolds(g, m + 1, c, step)
      BY <2>5, <2>6 DEF Unfolds
    <2> HIDE DEF g
    <2>8. m + 1 \in 0..N
      OBVIOUS
    <2> QED BY <2>4, <2>7, <2>8
  <1> HIDE DEF T
  <1>3. 0..N \subseteq T
    BY <1>1, <1>2, UpTo
  <1>4. N \in T
    BY <1>3
  <1> QED BY <1>4 DEF T

-----------------------------------------------------------------------------
\* Those(), which is how lists are filtered

\* f[n] is what Those(s, T) has taken from the first n elements.
Filtering(f, s, T) ==
    /\ f[0] = <<>>
    /\ \A n \in 1..Len(s) : f[n] = IF s[n] \in T THEN Append(f[n - 1], s[n]) ELSE f[n - 1]
    /\ Those(s, T) = f[Len(s)]

\* The filter's loop, as a function of the rounds done.
LEMMA ThoseUnfolds ==
    ASSUME NEW S, NEW s \in Seq(S), NEW T
    PROVE  \E f \in [0..Len(s) -> Seq(S)] : Filtering(f, s, T)
  <1> DEFINE N == Len(s)
             step == [p \in Seq(S) \X (1..N) |->
                         IF s[p[2]] \in T THEN Append(p[1], s[p[2]]) ELSE p[1]]
             Def(f) == [n \in 0..N |->
                          IF n = 0 THEN <<>>
                          ELSE IF s[n] \in T THEN Append(f[n - 1], s[n]) ELSE f[n - 1]]
  <1>1. step \in [Seq(S) \X (1..N) -> Seq(S)] /\ <<>> \in Seq(S) /\ N \in Nat
    OBVIOUS
  <1>2. PICK f \in [0..N -> Seq(S)] : Unfolds(f, N, <<>>, step)
    <2> HIDE DEF step, N
    <2> QED BY <1>1, Recursion
  <1>3. \A n \in 1..N : f[n - 1] \in Seq(S)
    BY <1>2
  <1>4. \A n \in 1..N : f[n] = IF s[n] \in T THEN Append(f[n - 1], s[n]) ELSE f[n - 1]
    BY <1>2, <1>3 DEF Unfolds
  <1>5. f = Def(f)
    <2>1. \A n \in 0..N : f[n] = Def(f)[n]
      <3> TAKE n \in 0..N
      <3>1. CASE n = 0
        BY <3>1, <1>2 DEF Unfolds
      <3>2. CASE n # 0
        <4>1. n \in 1..N
          BY <3>2
        <4>2. f[n] = IF s[n] \in T THEN Append(f[n - 1], s[n]) ELSE f[n - 1]
          BY <4>1, <1>4
        <4> QED BY <4>2, <3>2
      <3> QED BY <3>1, <3>2
    <2>2. f = [n \in 0..N |-> f[n]]
      BY <1>2
    <2>3. Def(f) = [n \in 0..N |-> Def(f)[n]]
      OBVIOUS
    <2> HIDE DEF Def, N
    <2> QED BY <2>1, <2>2, <2>3
  <1> DEFINE those == CHOOSE g : g = Def(g)
  <1>6. those = Def(those)
    <2> HIDE DEF Def
    <2> QED BY <1>5
  <1>7. Those(s, T) = those[N]
    BY DEF Those
  <1>8. those[0] = <<>> /\ \A n \in 1..N :
          those[n] = IF s[n] \in T THEN Append(those[n - 1], s[n]) ELSE those[n - 1]
    <2> DEFINE d == Def(those)
    <2>1. d[0] = <<>> /\ \A n \in 1..N :
            d[n] = IF s[n] \in T THEN Append(those[n - 1], s[n]) ELSE those[n - 1]
      <3> HIDE DEF those
      <3> QED OBVIOUS
    <2> HIDE DEF those, d
    <2> QED BY <2>1, <1>6 DEF d
  <1> HIDE DEF those, Def, step
  <1>9. \A n \in 0..N : those[n] = f[n]
    <2> DEFINE U == {n \in 0..N : those[n] = f[n]}
    <2>1. 0 \in U
      BY <1>8, <1>2 DEF Unfolds
    <2>2. ASSUME NEW n \in 0..(N - 1), n \in U PROVE n + 1 \in U
      <3>1. n + 1 \in 1..N /\ n + 1 \in 0..N /\ (n + 1) - 1 = n
        OBVIOUS
      <3> QED BY <2>2, <3>1, <1>8, <1>4
    <2> HIDE DEF U
    <2>3. 0..N \subseteq U
      BY <2>1, <2>2, <1>1, UpTo
    <2> QED BY <2>3 DEF U
  <1>10. Those(s, T) = f[N]
    BY <1>1, <1>7, <1>9
  <1> QED BY <1>2, <1>4, <1>10 DEF Unfolds, Filtering

\* q are the places of s, in their order, that r is made of: those of the elements in T.
Picks(q, r, s, T, n) ==
    /\ q \in [1..Len(r) -> 1..n]
    /\ \A i, j \in 1..Len(r) : i < j => q[i] < q[j]
    /\ \A i \in 1..Len(r) : r[i] = s[q[i]] /\ s[q[i]] \in T
    /\ \A k \in 1..n : s[k] \in T => \E i \in 1..Len(r) : q[i] = k

\* One round of the filter's loop picks one place more, or none.
LEMMA PickOneMore ==
    ASSUME NEW S, NEW s \in Seq(S), NEW r \in Seq(S), NEW T, NEW n \in 0..(Len(s) - 1),
           NEW q, Picks(q, r, s, T, n)
    PROVE  LET t == IF s[n + 1] \in T THEN Append(r, s[n + 1]) ELSE r
           IN  t \in Seq(S) /\ \E p : Picks(p, t, s, T, n + 1)
  <1>1. s[n + 1] \in S /\ n + 1 \in 1..Len(s) /\ n \in Nat
    OBVIOUS
  <1>2. CASE s[n + 1] \in T
    <2> DEFINE t == Append(r, s[n + 1])
               p == [i \in 1..Len(t) |-> IF i = Len(t) THEN n + 1 ELSE q[i]]
    <2>1. t \in Seq(S) /\ Len(t) = Len(r) + 1 /\ Len(r) \in Nat
      BY <1>1
    <2>2. t[Len(t)] = s[n + 1] /\ \A i \in 1..Len(r) : t[i] = r[i]
      BY <1>1
    <2> HIDE DEF t
    <2>3. \A i \in 1..Len(t) : i # Len(t) => i \in 1..Len(r)
      BY <2>1
    <2>4. p \in [1..Len(t) -> 1..(n + 1)]
      BY <2>3, <1>1 DEF Picks
    <2>5. \A i, j \in 1..Len(t) : i < j => p[i] < p[j]
      BY <2>1, <2>3, <1>1, SMTT(30) DEF Picks
    <2>6. \A i \in 1..Len(t) : t[i] = s[p[i]] /\ s[p[i]] \in T
      BY <2>2, <2>3, <1>2 DEF Picks
    <2>7. ASSUME NEW k \in 1..(n + 1), s[k] \in T PROVE \E i \in 1..Len(t) : p[i] = k
      <3>1. CASE k = n + 1
        <4>1. Len(t) \in 1..Len(t)
          BY <2>1
        <4> QED BY <4>1, <3>1
      <3>2. CASE k # n + 1
        <4>1. k \in 1..n
          BY <3>2, <1>1
        <4>2. PICK i \in 1..Len(r) : q[i] = k
          BY <4>1, <2>7 DEF Picks
        <4>3. i \in 1..Len(t) /\ i # Len(t)
          BY <2>1
        <4> QED BY <4>2, <4>3
      <3> QED BY <3>1, <3>2
    <2>8. Picks(p, t, s, T, n + 1)
      BY <2>4, <2>5, <2>6, <2>7 DEF Picks
    <2> QED BY <2>1, <2>8, <1>2 DEF t
  <1>3. CASE s[n + 1] \notin T
    <2>1. 1..n \subseteq 1..(n + 1) /\ \A k \in 1..(n + 1) : k # n + 1 => k \in 1..n
      OBVIOUS
    <2>2. Picks(q, r, s, T, n + 1)
      BY <2>1, <1>3 DEF Picks
    <2> QED BY <2>2, <1>3
  <1> QED BY <1>2, <1>3

\* Those() picks the places of the elements in T, in their order.
THEOREM ThosePick ==
    ASSUME NEW S, NEW s \in Seq(S), NEW T
    PROVE  Those(s, T) \in Seq(S) /\ \E q : Picks(q, Those(s, T), s, T, Len(s))
  <1>1. PICK f \in [0..Len(s) -> Seq(S)] : Filtering(f, s, T)
    BY ThoseUnfolds
  <1> DEFINE U == {n \in 0..Len(s) : f[n] \in Seq(S) /\ \E q : Picks(q, f[n], s, T, n)}
  <1>2. 0 \in U
    <2>1. Picks([i \in {} |-> i], <<>>, s, T, 0)
      BY DEF Picks
    <2> QED BY <2>1, <1>1 DEF Filtering
  <1>3. ASSUME NEW n \in 0..(Len(s) - 1), n \in U PROVE n + 1 \in U
    <2>1. n + 1 \in 1..Len(s) /\ n + 1 \in 0..Len(s) /\ (n + 1) - 1 = n
      OBVIOUS
    <2>2. f[n + 1] = IF s[n + 1] \in T THEN Append(f[n], s[n + 1]) ELSE f[n]
      BY <1>1, <2>1 DEF Filtering
    <2>3. PICK q : Picks(q, f[n], s, T, n)
      BY <1>3
    <2>4. f[n + 1] \in Seq(S) /\ \E p : Picks(p, f[n + 1], s, T, n + 1)
      BY <2>2, <2>3, <1>3, PickOneMore
    <2> QED BY <2>1, <2>4
  <1> HIDE DEF U
  <1>4. Len(s) \in Nat
    OBVIOUS
  <1>5. 0..Len(s) \subseteq U
    BY <1>2, <1>3, <1>4, UpTo
  <1>6. Len(s) \in U
    BY <1>4, <1>5
  <1> QED BY <1>1, <1>6 DEF U, Filtering

-----------------------------------------------------------------------------
\* Lists that read another list at some of its places, in some order of them

Below == {p \in Nat \X Nat : p[1] < p[2]}

OneWay(R) == \A i, j : <<i, j>> \in R => <<j, i>> \notin R

\* x is the places K in the order R.
Enumerates(x, K, R) ==
    /\ x \in Seq(K)
    /\ \A k \in K : \E i \in 1..Len(x) : x[i] = k
    /\ \A i, j \in 1..Len(x) : i < j => <<x[i], x[j]>> \in R

\* r is s read at the places x.
ReadAt(r, s, x) == r = [i \in 1..Len(x) |-> s[x[i]]]

Reads(r, s, K, R) == \E x : Enumerates(x, K, R) /\ ReadAt(r, s, x)

LEMMA BelowIsOneWay == OneWay(Below)
  BY DEF OneWay, Below

\* Of two enumerations of the same places neither goes on after the other.
LEMMA NoLonger ==
    ASSUME NEW K, NEW R, OneWay(R), NEW x, NEW y, Enumerates(x, K, R), Enumerates(y, K, R),
           \A i \in 1..Len(x) : i \in 1..Len(y) => x[i] = y[i]
    PROVE  Len(x) <= Len(y)
  <1>1. x \in Seq(K) /\ y \in Seq(K) /\ Len(x) \in Nat /\ Len(y) \in Nat
    BY DEF Enumerates
  <1> DEFINE e == Len(y) + 1
  <1> SUFFICES ASSUME Len(y) < Len(x) PROVE FALSE
    BY <1>1
  <1>2. e \in 1..Len(x) /\ x[e] \in K
    BY <1>1
  <1>3. PICK i \in 1..Len(y) : y[i] = x[e]
    BY <1>2 DEF Enumerates
  <1>4. i \in 1..Len(x) /\ x[i] = x[e] /\ i < e
    BY <1>1, <1>3
  <1>5. <<x[i], x[e]>> \in R
    BY <1>2, <1>4 DEF Enumerates
  <1> QED BY <1>4, <1>5 DEF OneWay

\* The places in an order can be listed in one way only.
LEMMA SameEnumeration ==
    ASSUME NEW K, NEW R, OneWay(R), NEW x, NEW y, Enumerates(x, K, R), Enumerates(y, K, R)
    PROVE  x = y
  <1>1. x \in Seq(K) /\ y \in Seq(K) /\ Len(x) \in Nat /\ Len(y) \in Nat
    BY DEF Enumerates
  <1> DEFINE U == {i \in 1..Len(x) : i \in 1..Len(y) /\ x[i] # y[i]}
  <1>2. U = {}
    <2> SUFFICES ASSUME U # {} PROVE FALSE
      OBVIOUS
    <2>1. U \in SUBSET Nat
      OBVIOUS
    <2>2. PICK m \in U : \A k \in U : m <= k
      <3> HIDE DEF U
      <3> QED BY <2>1, LeastNatural
    <2>3. m \in 1..Len(x) /\ m \in 1..Len(y) /\ x[m] # y[m] /\ x[m] \in K /\ y[m] \in K
      BY <1>1, <2>2
    <2>4. \A i \in 1..Len(x) : i < m => x[i] = y[i]
      BY <1>1, <2>2, <2>3
    <2>5. PICK i \in 1..Len(y) : y[i] = x[m]
      BY <2>3 DEF Enumerates
    <2>6. PICK j \in 1..Len(x) : x[j] = y[m]
      BY <2>3 DEF Enumerates
    <2>7. m < i
      <3>1. CASE i < m
        <4>1. i \in 1..Len(x) /\ x[i] = x[m]
          BY <3>1, <2>3, <2>4, <2>5, <1>1
        <4>2. <<x[i], x[m]>> \in R
          BY <3>1, <4>1, <2>3 DEF Enumerates
        <4> QED BY <4>1, <4>2 DEF OneWay
      <3> QED BY <3>1, <2>3, <2>5, <1>1
    <2>8. m < j
      <3>1. CASE j < m
        <4>1. j \in 1..Len(y) /\ y[j] = y[m]
          BY <3>1, <2>3, <2>4, <2>6, <1>1
        <4>2. <<y[j], y[m]>> \in R
          BY <3>1, <4>1, <2>3 DEF Enumerates
        <4> QED BY <4>1, <4>2 DEF OneWay
      <3> QED BY <3>1, <2>3, <2>6, <1>1
    <2>9. <<y[m], y[i]>> \in R
      BY <2>3, <2>5, <2>7 DEF Enumerates
    <2>10. <<x[m], x[j]>> \in R
      BY <2>3, <2>6, <2>8 DEF Enumerates
    <2> QED BY <2>5, <2>6, <2>9, <2>10 DEF OneWay
  <1>3. \A i \in 1..Len(x) : i \in 1..Len(y) => x[i] = y[i]
    BY <1>2
  <1>4. Len(x) <= Len(y)
    BY <1>3, NoLonger
  <1>5. \A i \in 1..Len(y) : i \in 1..Len(x) => y[i] = x[i]
    BY <1>3
  <1>6. Len(y) <= Len(x)
    BY <1>5, NoLonger
  <1> QED BY <1>1, <1>3, <1>4, <1>6, SeqEqual

\* So there is one list that reads s at the places K in the order R,
THEOREM SameReading ==
    ASSUME NEW s, NEW K, NEW R, OneWay(R), NEW r, NEW t, Reads(r, s, K, R), Reads(t, s, K, R)
    PROVE  r = t
  <1>1. PICK x : Enumerates(x, K, R) /\ ReadAt(r, s, x)
    BY DEF Reads
  <1>2. PICK y : Enumerates(y, K, R) /\ ReadAt(t, s, y)
    BY DEF Reads
  <1>3. x = y
    BY <1>1, <1>2, SameEnumeration
  <1> QED BY <1>1, <1>2, <1>3 DEF ReadAt

\* of as many elements as there are places, and with the elements found there.
LEMMA EnumerationCounts ==
    ASSUME NEW K, NEW R, OneWay(R), NEW x, Enumerates(x, K, R)
    PROVE  /\ IsFiniteSet(K)
           /\ Cardinality(K) = Len(x)
           /\ \A i, j \in 1..Len(x) : x[i] = x[j] => i = j
  <1>1. x \in Seq(K) /\ Len(x) \in Nat
    BY DEF Enumerates
  <1>2. \A i, j \in 1..Len(x) : x[i] = x[j] => i = j
    <2> SUFFICES ASSUME NEW i \in 1..Len(x), NEW j \in 1..Len(x), x[i] = x[j], i < j PROVE FALSE
      BY <1>1
    <2>1. <<x[i], x[j]>> \in R
      BY DEF Enumerates
    <2> QED BY <2>1 DEF OneWay
  <1>3. x \in [1..Len(x) -> K]
    BY <1>1
  <1>4. x \in Injection(1..Len(x), K)
    BY <1>2, <1>3 DEF Injection, IsInjective
  <1>5. x \in Surjection(1..Len(x), K)
    BY <1>3 DEF Surjection, Enumerates
  <1>6. ExistsBijection(1..Len(x), K)
    BY <1>4, <1>5 DEF Bijection, ExistsBijection
  <1>7. IsFiniteSet(1..Len(x)) /\ Cardinality(1..Len(x)) = Len(x)
    BY <1>1, FS_Interval, SMTT(30)
  <1> QED BY <1>2, <1>6, <1>7, FS_Bijection

\* r has the elements that s has at the places K.
Shows(r, s, K) == \A y : y \in ToSet(r) <=> \E k \in K : y = s[k]

\* A reading is a list of the elements it reads, as long as there are places.
THEOREM ReadingShape ==
    ASSUME NEW S, NEW s \in Seq(S), NEW K \in SUBSET (1..Len(s)), NEW R, OneWay(R),
           NEW r, Reads(r, s, K, R)
    PROVE  /\ r \in Seq(S)
           /\ IsFiniteSet(K) /\ Len(r) = Cardinality(K)
           /\ Shows(r, s, K)
  <1>1. PICK x : Enumerates(x, K, R) /\ ReadAt(r, s, x)
    BY DEF Reads
  <1>2. x \in Seq(K) /\ Len(x) \in Nat
    BY <1>1 DEF Enumerates
  <1>3. r \in [1..Len(x) -> S]
    <2>1. \A i \in 1..Len(x) : x[i] \in K
      BY <1>2
    <2>2. \A k \in 1..Len(s) : s[k] \in S
      OBVIOUS
    <2>3. \A k \in K : k \in 1..Len(s)
      OBVIOUS
    <2> QED BY <2>1, <2>2, <2>3, <1>1 DEF ReadAt
  <1>4. r \in Seq(S) /\ Len(r) = Len(x)
    BY <1>2, <1>3
  <1>5. IsFiniteSet(K) /\ Cardinality(K) = Len(x)
    BY <1>1, EnumerationCounts
  <1>6. Shows(r, s, K)
    <2>1. \A y \in ToSet(r) : \E k \in K : y = s[k]
      <3> TAKE y \in ToSet(r)
      <3>1. PICK i \in 1..Len(x) : y = r[i]
        BY <1>3 DEF ToSet
      <3>2. r[i] = s[x[i]] /\ x[i] \in K
        BY <1>1, <1>2 DEF ReadAt
      <3> QED BY <3>1, <3>2
    <2>2. ASSUME NEW k \in K PROVE s[k] \in ToSet(r)
      <3>1. PICK i \in 1..Len(x) : x[i] = k
        BY <1>1 DEF Enumerates
      <3>2. i \in DOMAIN r /\ r[i] = s[k]
        BY <3>1, <1>1 DEF ReadAt
      <3> QED BY <3>2 DEF ToSet
    <2> QED BY <2>1, <2>2 DEF Shows
  <1> QED BY <1>4, <1>5, <1>6

-----------------------------------------------------------------------------
\* A filter of a list, and of a reading

\* Where s has an element in T
At(s, T) == {k \in 1..Len(s) : s[k] \in T}

\* A filter reads the places of the elements it keeps, in their order.
THEOREM ThoseRead ==
    ASSUME NEW S, NEW s \in Seq(S), NEW T
    PROVE  Reads(Those(s, T), s, At(s, T), Below)
  <1> DEFINE r == Those(s, T)
             K == At(s, T)
  <1>1. r \in Seq(S)
    BY ThosePick
  <1>2. PICK q : Picks(q, r, s, T, Len(s))
    BY ThosePick
  <1> HIDE DEF r
  <1>3. q \in [1..Len(r) -> K] /\ Len(r) \in Nat
    BY <1>1, <1>2 DEF Picks, At
  <1>4. q \in Seq(K) /\ Len(q) = Len(r)
    BY <1>3
  <1>5. \A k \in K : \E i \in 1..Len(q) : q[i] = k
    BY <1>2, <1>4 DEF Picks, At
  <1>6. \A i, j \in 1..Len(q) : i < j => <<q[i], q[j]>> \in Below
    <2> TAKE i, j \in 1..Len(q)
    <2>1. q[i] \in Nat /\ q[j] \in Nat
      BY <1>3, <1>4 DEF At
    <2>2. i < j => q[i] < q[j]
      BY <1>2, <1>4 DEF Picks
    <2> QED BY <2>1, <2>2 DEF Below
  <1>7. Enumerates(q, K, Below)
    BY <1>4, <1>5, <1>6 DEF Enumerates
  <1>8. ReadAt(r, s, q)
    <2>1. \A i \in 1..Len(q) : r[i] = s[q[i]]
      BY <1>2, <1>4 DEF Picks
    <2>2. r = [i \in 1..Len(q) |-> r[i]]
      BY <1>1, <1>4
    <2> QED BY <2>1, <2>2 DEF ReadAt
  <1> QED BY <1>7, <1>8 DEF Reads, r

\* x carries the order Q of L over to P.
Carries(x, L, Q, P) == \A i, j \in L : <<i, j>> \in Q => <<x[i], x[j]>> \in P

\* A reading of a reading reads the places of the places.
LEMMA ReadingOfReading ==
    ASSUME NEW S, NEW s \in Seq(S), NEW K \in SUBSET (1..Len(s)), NEW R,
           NEW x, Enumerates(x, K, R),
           NEW r, ReadAt(r, s, x), Len(r) = Len(x), NEW L \in SUBSET (1..Len(x)), NEW Q, NEW t,
           Reads(t, r, L, Q), NEW P, Carries(x, L, Q, P), NEW M, M = {x[i] : i \in L}
    PROVE  Reads(t, s, M, P)
  <1>1. PICK y : Enumerates(y, L, Q) /\ ReadAt(t, r, y)
    BY DEF Reads
  <1> DEFINE z == [i \in 1..Len(y) |-> x[y[i]]]
  <1>2. x \in Seq(K) /\ Len(x) \in Nat /\ y \in Seq(L) /\ Len(y) \in Nat
    BY <1>1 DEF Enumerates
  <1>3. \A i \in 1..Len(y) : y[i] \in L
    BY <1>2
  <1>4. z \in [1..Len(y) -> M]
    BY <1>3
  <1>5. z \in Seq(M) /\ Len(z) = Len(y)
    BY <1>2, <1>4
  <1>6. \A k \in M : \E i \in 1..Len(z) : z[i] = k
    <2> TAKE k \in M
    <2>1. PICK i \in L : x[i] = k
      OBVIOUS
    <2>2. PICK j \in 1..Len(y) : y[j] = i
      BY <1>1 DEF Enumerates
    <2> QED BY <2>1, <2>2, <1>5
  <1>7. \A i, j \in 1..Len(z) : i < j => <<z[i], z[j]>> \in P
    <2> SUFFICES ASSUME NEW i \in 1..Len(y), NEW j \in 1..Len(y), i < j
                 PROVE  <<x[y[i]], x[y[j]]>> \in P
      BY <1>5
    <2>1. <<y[i], y[j]>> \in Q
      BY <1>1 DEF Enumerates
    <2> QED BY <2>1, <1>3 DEF Carries
  <1>8. Enumerates(z, M, P)
    BY <1>5, <1>6, <1>7 DEF Enumerates
  <1>9. ReadAt(t, s, z)
    <2>1. \A i \in 1..Len(y) : r[y[i]] = s[x[y[i]]]
      BY <1>3 DEF ReadAt
    <2> QED BY <2>1, <1>1, <1>5 DEF ReadAt
  <1> QED BY <1>8, <1>9 DEF Reads

\* The places K where s has an element in T
Among(K, s, T) == {k \in K : s[k] \in T}

\* A filter of a reading reads fewer places, in the same order.
THEOREM ThoseOfReading ==
    ASSUME NEW S, NEW s \in Seq(S), NEW K \in SUBSET (1..Len(s)), NEW R, OneWay(R),
           NEW r, Reads(r, s, K, R), NEW T
    PROVE  Reads(Those(r, T), s, Among(K, s, T), R)
  <1>1. PICK x : Enumerates(x, K, R) /\ ReadAt(r, s, x)
    BY DEF Reads
  <1>2. x \in Seq(K) /\ Len(x) \in Nat
    BY <1>1 DEF Enumerates
  <1>3. r \in Seq(S) /\ Len(r) = Cardinality(K)
    BY ReadingShape
  <1>4. Len(r) = Len(x)
    BY <1>1, <1>3, EnumerationCounts
  <1> DEFINE L == At(r, T)
  <1>5. L \in SUBSET (1..Len(x))
    BY <1>4 DEF At
  <1>6. Reads(Those(r, T), r, L, Below)
    BY <1>3, ThoseRead
  <1>7. Carries(x, L, Below, R)
    BY <1>1, <1>5 DEF Below, Enumerates, Carries
  <1>8. Reads(Those(r, T), s, {x[i] : i \in L}, R)
    <2> HIDE DEF L
    <2> QED BY <1>1, <1>4, <1>5, <1>6, <1>7, ReadingOfReading
  <1>9. {x[i] : i \in L} = Among(K, s, T)
    <2>1. \A i \in 1..Len(x) : x[i] \in K /\ r[i] = s[x[i]]
      BY <1>1, <1>2 DEF ReadAt
    <2>2. \A k \in K : \E i \in 1..Len(x) : x[i] = k
      BY <1>1 DEF Enumerates
    <2> QED BY <2>1, <2>2, <1>4 DEF At, Among
  <1> QED BY <1>8, <1>9

-----------------------------------------------------------------------------
\* Sorting a list, and a reading

TotalOn(R, D) ==
    /\ OneWay(R)
    /\ \A i, j \in D : i # j => <<i, j>> \in R \/ <<j, i>> \in R
    /\ \A i, j, k \in D : <<i, j>> \in R /\ <<j, k>> \in R => <<i, k>> \in R

\* x are the places D, each put where its rank in R says.
Places(x, D, R) == x = [n \in 1..Cardinality(D) |-> Placed(D, R, n)]

\* Placing each place behind those before it puts them all in order.
LEMMA PlacingEnumerates ==
    ASSUME NEW D, IsFiniteSet(D), NEW R, TotalOn(R, D), NEW x, Places(x, D, R)
    PROVE  Enumerates(x, D, R)
  <1> DEFINE N == Cardinality(D)
             before(i) == {j \in D : <<j, i>> \in R}
             rank == [i \in D |-> Cardinality(before(i))]
  <1>1. N \in Nat
    BY FS_CardinalityType
  <1>2. ASSUME NEW i \in D
        PROVE  IsFiniteSet(before(i)) /\ Cardinality(before(i)) \in 0..(N - 1)
    <2>1. before(i) \in SUBSET (D \ {i})
      BY DEF TotalOn, OneWay
    <2>2. IsFiniteSet(D \ {i}) /\ Cardinality(D \ {i}) = N - 1
      BY FS_RemoveElement
    <2> HIDE DEF before, N
    <2>3. IsFiniteSet(before(i)) /\ Cardinality(before(i)) <= N - 1
      BY <2>1, <2>2, FS_Subset
    <2> QED BY <2>3, <1>1, FS_CardinalityType
  <1>3. ASSUME NEW i \in D, NEW j \in D, <<i, j>> \in R PROVE rank[i] < rank[j]
    <2>1. before(i) \in SUBSET before(j)
      BY <1>3 DEF TotalOn
    <2>2. i \in before(j) /\ i \notin before(i)
      BY <1>3 DEF TotalOn, OneWay
    <2> HIDE DEF before, N
    <2>3. IsFiniteSet(before(j)) /\ Cardinality(before(i)) \in Nat /\ Cardinality(before(j)) \in Nat
      BY <1>2, <1>1
    <2>4. Cardinality(before(i)) <= Cardinality(before(j))
          /\ Cardinality(before(j)) # Cardinality(before(i))
      BY <2>1, <2>2, <2>3, FS_Subset
    <2> QED BY <2>3, <2>4
  <1>4. rank \in [D -> 0..(N - 1)]
    BY <1>2
  <1>5. \A i \in D : rank[i] \in Nat
    BY <1>4
  <1> HIDE DEF rank, N
  <1>6. \A i, j \in D : rank[i] = rank[j] => i = j
    <2> SUFFICES ASSUME NEW i \in D, NEW j \in D, rank[i] = rank[j], i # j PROVE FALSE
      OBVIOUS
    <2>1. ~(rank[i] < rank[j]) /\ ~(rank[j] < rank[i])
      BY <1>5
    <2> QED BY <2>1, <1>3 DEF TotalOn
  <1>7. rank \in Injection(D, 0..(N - 1))
    BY <1>4, <1>6 DEF Injection, IsInjective
  <1>8. IsFiniteSet(0..(N - 1)) /\ Cardinality(0..(N - 1)) = N
    BY <1>1, FS_Interval
  <1>9. rank \in Surjection(D, 0..(N - 1))
    BY <1>7, <1>8, FS_Injection DEF N
  <1>10. \A n \in 1..N : x[n] \in D /\ rank[x[n]] = n - 1
    <2> TAKE n \in 1..N
    <2>1. n - 1 \in 0..(N - 1)
      BY <1>1
    <2>2. \E i \in D : rank[i] = n - 1
      BY <2>1, <1>9 DEF Surjection
    <2>3. \E i \in D : Cardinality({j \in D : <<j, i>> \in R}) = n - 1
      BY <2>2 DEF rank
    <2>4. Placed(D, R, n) \in D
          /\ Cardinality({j \in D : <<j, Placed(D, R, n)>> \in R}) = n - 1
      BY <2>3 DEF Placed
    <2>5. x[n] = Placed(D, R, n)
      BY DEF N, Places
    <2> QED BY <2>4, <2>5 DEF rank
  <1>11. x \in Seq(D) /\ Len(x) = N
    <2>1. x \in [1..N -> D]
      BY <1>10 DEF N, Places
    <2> QED BY <2>1, <1>1
  <1>12. \A k \in D : \E n \in 1..Len(x) : x[n] = k
    <2> TAKE k \in D
    <2>1. rank[k] + 1 \in 1..N
      BY <1>4, <1>1
    <2>2. x[rank[k] + 1] \in D /\ rank[x[rank[k] + 1]] = (rank[k] + 1) - 1
      BY <2>1, <1>10
    <2>3. rank[x[rank[k] + 1]] = rank[k]
      BY <2>2, <1>5
    <2>4. x[rank[k] + 1] = k
      BY <2>2, <2>3, <1>6
    <2> QED BY <2>1, <2>4, <1>11
  <1>13. ASSUME NEW m \in 1..Len(x), NEW n \in 1..Len(x), m < n PROVE <<x[m], x[n]>> \in R
    <2>1. m \in 1..N /\ n \in 1..N /\ m \in Nat /\ n \in Nat
      BY <1>11, <1>1
    <2>2. x[m] \in D /\ x[n] \in D /\ rank[x[m]] = m - 1 /\ rank[x[n]] = n - 1
      BY <2>1, <1>10
    <2>3. rank[x[m]] < rank[x[n]]
      BY <2>1, <2>2, <1>13
    <2>4. x[m] # x[n] /\ <<x[n], x[m]>> \notin R
      BY <2>2, <2>3, <1>3, <1>5
    <2> QED BY <2>2, <2>4 DEF TotalOn
  <1> QED BY <1>11, <1>12, <1>13 DEF Enumerates

\* O puts S into an order of ranks: what is not before something is not before what comes
\* before that either.
Ranks(O, S) ==
    \A a, b, c \in S :
        /\ <<a, b>> \in O => <<b, a>> \notin O
        /\ <<a, c>> \in O => <<a, b>> \in O \/ <<b, c>> \in O

\* The order of places that sorting s by O gives, of places in the order R before
Refined(s, O, R) ==
    {p \in (DOMAIN s) \X (DOMAIN s) :
        \/ <<s[p[1]], s[p[2]]>> \in O
        \/ <<s[p[2]], s[p[1]]>> \notin O /\ p \in R}

\* A stable sort refines the order of the places by that of the elements.
LEMMA PrecedenceRefines ==
    ASSUME NEW S, NEW s \in Seq(S), NEW O
    PROVE  Precedence(s, O) = Refined(s, O, Below)
  BY DEF Precedence, Refined, Below

\* Refining an order of places keeps it one,
LEMMA RefinedIsOneWay ==
    ASSUME NEW S, NEW s \in Seq(S), NEW O, Ranks(O, S), NEW R, OneWay(R)
    PROVE  OneWay(Refined(s, O, R))
  <1> SUFFICES ASSUME NEW i, NEW j, <<i, j>> \in Refined(s, O, R)
               PROVE  <<j, i>> \notin Refined(s, O, R)
    BY DEF OneWay
  <1>1. i \in DOMAIN s /\ j \in DOMAIN s
    BY DEF Refined
  <1>2. s[i] \in S /\ s[j] \in S
    BY <1>1
  <1> QED BY <1>2 DEF Refined, Ranks, OneWay

\* and keeps any two places in order.
LEMMA RefinedIsTotal ==
    ASSUME NEW S, NEW s \in Seq(S), NEW O, Ranks(O, S), NEW R, TotalOn(R, DOMAIN s)
    PROVE  TotalOn(Refined(s, O, R), DOMAIN s)
  <1> DEFINE Q == Refined(s, O, R)
             D == DOMAIN s
  <1>1. \A i \in D : s[i] \in S
    OBVIOUS
  <1>2. OneWay(Q)
    BY RefinedIsOneWay DEF TotalOn
  <1>3. \A i, j \in D :
          <<i, j>> \in Q <=>
            \/ <<s[i], s[j]>> \in O
            \/ <<s[j], s[i]>> \notin O /\ <<i, j>> \in R
    BY DEF Refined
  <1> HIDE DEF Q
  <1>4. \A i, j \in D : i # j => <<i, j>> \in Q \/ <<j, i>> \in Q
    BY <1>3 DEF TotalOn
  <1>5. ASSUME NEW i \in D, NEW j \in D, NEW k \in D, <<i, j>> \in Q, <<j, k>> \in Q
        PROVE  <<i, k>> \in Q
    <2> DEFINE a == s[i]
               b == s[j]
               c == s[k]
    <2>1. a \in S /\ b \in S /\ c \in S
      BY <1>1
    <2>2. <<c, b>> \notin O /\ <<b, a>> \notin O
      BY <2>1, <1>3, <1>5 DEF Ranks
    <2>3. <<c, a>> \notin O
      BY <2>1, <2>2 DEF Ranks
    <2>4. CASE <<a, b>> \in O
      <3>1. <<a, c>> \in O
        BY <2>1, <2>2, <2>4 DEF Ranks
      <3> QED BY <3>1, <1>3
    <2>5. CASE <<b, c>> \in O
      <3>1. <<a, c>> \in O
        BY <2>1, <2>2, <2>5 DEF Ranks
      <3> QED BY <3>1, <1>3
    <2>6. CASE <<a, b>> \notin O /\ <<b, c>> \notin O
      <3>1. <<i, j>> \in R /\ <<j, k>> \in R
        BY <2>6, <1>3, <1>5
      <3>2. <<i, k>> \in R
        BY <3>1 DEF TotalOn
      <3> QED BY <3>2, <2>3, <1>3
    <2> QED BY <2>4, <2>5, <2>6
  <1> QED BY <1>2, <1>4, <1>5 DEF TotalOn, Q

LEMMA BelowIsTotal ==
    ASSUME NEW S, NEW s \in Seq(S)
    PROVE  TotalOn(Below, DOMAIN s)
  <1>1. \A i \in DOMAIN s : i \in Nat
    OBVIOUS
  <1> QED BY <1>1, BelowIsOneWay DEF TotalOn, Below

\* Ordered() reads every place of a list, by rank, and as they were where it ties.
THEOREM OrderedReads ==
    ASSUME NEW S, NEW s \in Seq(S), NEW O, Ranks(O, S)
    PROVE  Reads(Ordered(s, O), s, DOMAIN s, Precedence(s, O))
  <1> DEFINE R == Precedence(s, O)
             D == DOMAIN s
             x == [n \in 1..Cardinality(D) |-> Placed(D, R, n)]
  <1>1. TotalOn(R, D)
    BY PrecedenceRefines, RefinedIsTotal, BelowIsTotal
  <1>2. Len(s) \in Nat /\ D = 1..Len(s)
    OBVIOUS
  <1>3. IsFiniteSet(D) /\ Cardinality(D) = Len(s)
    BY <1>2, FS_Interval
  <1>4. Enumerates(x, D, R)
    <2> HIDE DEF R, D, x
    <2>1. Places(x, D, R)
      BY DEF x, Places
    <2> QED BY <2>1, <1>1, <1>3, PlacingEnumerates
  <1>5. Len(x) = Len(s)
    BY <1>4, <1>1, <1>3, EnumerationCounts DEF TotalOn
  <1>6. Ordered(s, O) = [n \in 1..Len(s) |-> s[x[n]]]
    BY <1>2, <1>3 DEF Ordered
  <1>7. ReadAt(Ordered(s, O), s, x)
    BY <1>5, <1>6 DEF ReadAt
  <1> QED BY <1>4, <1>7 DEF Reads

\* A stable sort of a reading reads the same places, in the refined order.
THEOREM OrderedOfReading ==
    ASSUME NEW S, NEW s \in Seq(S), NEW K \in SUBSET (1..Len(s)), NEW R, OneWay(R),
           NEW r, Reads(r, s, K, R), NEW O, Ranks(O, S)
    PROVE  Reads(Ordered(r, O), s, K, Refined(s, O, R))
  <1>1. PICK x : Enumerates(x, K, R) /\ ReadAt(r, s, x)
    BY DEF Reads
  <1>2. x \in Seq(K) /\ Len(x) \in Nat
    BY <1>1 DEF Enumerates
  <1>3. r \in Seq(S) /\ Len(r) = Cardinality(K)
    BY ReadingShape
  <1>4. Len(r) = Len(x) /\ DOMAIN r = 1..Len(x)
    <2>1. Cardinality(K) = Len(x)
      BY <1>1, EnumerationCounts
    <2> QED BY <2>1, <1>3
  <1>5. Reads(Ordered(r, O), r, DOMAIN r, Precedence(r, O))
    BY <1>3, OrderedReads
  <1>6. Carries(x, DOMAIN r, Precedence(r, O), Refined(s, O, R))
    <2> SUFFICES ASSUME NEW i \in DOMAIN r, NEW j \in DOMAIN r, <<i, j>> \in Precedence(r, O)
                 PROVE  <<x[i], x[j]>> \in Refined(s, O, R)
      BY DEF Carries
    <2>1. r[i] = s[x[i]] /\ r[j] = s[x[j]]
      BY <1>1, <1>4 DEF ReadAt
    <2>2. x[i] \in K /\ x[j] \in K
      BY <1>2, <1>4
    <2>3. x[i] \in DOMAIN s /\ x[j] \in DOMAIN s
      <3>1. \A k \in K : k \in DOMAIN s
        OBVIOUS
      <3> QED BY <2>2, <3>1
    <2>4. i < j => <<x[i], x[j]>> \in R
      BY <1>1, <1>4 DEF Enumerates
    <2> QED BY <2>1, <2>3, <2>4 DEF Precedence, Refined
  <1>7. K = {x[i] : i \in DOMAIN r}
    <2>1. \A i \in 1..Len(x) : x[i] \in K
      BY <1>2
    <2>2. \A k \in K : \E i \in 1..Len(x) : x[i] = k
      BY <1>1 DEF Enumerates
    <2> QED BY <2>1, <2>2, <1>4
  <1>8. DOMAIN r \in SUBSET (1..Len(x))
    BY <1>4
  <1> QED BY <1>1, <1>4, <1>5, <1>6, <1>7, <1>8, ReadingOfReading

\* k comes before all others of K, or after them.
Starts(k, K, R) == \A j \in K : j = k \/ <<k, j>> \in R

Ends(k, K, R) == \A j \in K : j = k \/ <<j, k>> \in R

\* The first element of a reading is read at the place that comes before all others.
LEMMA ReadingFirst ==
    ASSUME NEW S, NEW s \in Seq(S), NEW K \in SUBSET (1..Len(s)), NEW R, OneWay(R),
           NEW r, Reads(r, s, K, R), r # <<>>
    PROVE  \E k \in K : r[1] = s[k] /\ Starts(k, K, R)
  <1>1. PICK x : Enumerates(x, K, R) /\ ReadAt(r, s, x)
    BY DEF Reads
  <1>2. x \in Seq(K) /\ Len(x) \in Nat
    BY <1>1 DEF Enumerates
  <1>3. r \in Seq(S) /\ Len(r) = Len(x)
    <2>1. Cardinality(K) = Len(x)
      BY <1>1, EnumerationCounts
    <2> QED BY <2>1, ReadingShape
  <1>4. 1 \in 1..Len(x) /\ x[1] \in K
    BY <1>2, <1>3
  <1>5. r[1] = s[x[1]]
    BY <1>1, <1>4 DEF ReadAt
  <1>6. ASSUME NEW j \in K PROVE j = x[1] \/ <<x[1], j>> \in R
    <2>1. PICK i \in 1..Len(x) : x[i] = j
      BY <1>1 DEF Enumerates
    <2>2. 1 < i => <<x[1], x[i]>> \in R
      BY <1>1, <1>4 DEF Enumerates
    <2> QED BY <1>2, <2>1, <2>2
  <1> QED BY <1>4, <1>5, <1>6 DEF Starts

\* So with the last one.
LEMMA ReadingLast ==
    ASSUME NEW S, NEW s \in Seq(S), NEW K \in SUBSET (1..Len(s)), NEW R, OneWay(R),
           NEW r, Reads(r, s, K, R), r # <<>>
    PROVE  \E k \in K : Last(r) = s[k] /\ Ends(k, K, R)
  <1>1. PICK x : Enumerates(x, K, R) /\ ReadAt(r, s, x)
    BY DEF Reads
  <1>2. x \in Seq(K) /\ Len(x) \in Nat
    BY <1>1 DEF Enumerates
  <1>3. r \in Seq(S) /\ Len(r) = Len(x)
    <2>1. Cardinality(K) = Len(x)
      BY <1>1, EnumerationCounts
    <2> QED BY <2>1, ReadingShape
  <1> DEFINE m == Len(x)
  <1>4. m \in 1..Len(x) /\ x[m] \in K
    BY <1>2, <1>3
  <1>5. Last(r) = s[x[m]]
    BY <1>1, <1>3, <1>4 DEF ReadAt, Last
  <1>6. ASSUME NEW j \in K PROVE j = x[m] \/ <<j, x[m]>> \in R
    <2>1. PICK i \in 1..Len(x) : x[i] = j
      BY <1>1 DEF Enumerates
    <2>2. i < m => <<x[i], x[m]>> \in R
      BY <1>1, <1>4 DEF Enumerates
    <2> QED BY <1>2, <2>1, <2>2
  <1> QED BY <1>4, <1>5, <1>6 DEF Ends

\* A reading of no places is empty, and no other is.
LEMMA NothingRead ==
    ASSUME NEW S, NEW s \in Seq(S), NEW K \in SUBSET (1..Len(s)), NEW R, OneWay(R),
           NEW r, Reads(r, s, K, R)
    PROVE  r = <<>> <=> K = {}
  <1>1. r \in Seq(S) /\ IsFiniteSet(K) /\ Len(r) = Cardinality(K)
    BY ReadingShape
  <1>2. Cardinality(K) = 0 <=> K = {}
    BY <1>1, FS_EmptySet
  <1> QED BY <1>1, <1>2

LEMMA PrecedenceIsOneWay ==
    ASSUME NEW S, NEW s \in Seq(S), NEW O, Ranks(O, S)
    PROVE  OneWay(Precedence(s, O))
  BY PrecedenceRefines, RefinedIsOneWay, BelowIsOneWay

\* A list is a list of its own elements.
LEMMA SequencesOfElements ==
    ASSUME NEW S, NEW s \in Seq(S)
    PROVE  s \in Seq(ToSet(s)) /\ ToSet(s) \subseteq S
  BY DEF ToSet

-----------------------------------------------------------------------------
\* Lists, counts and last places

LEMMA PlacesCount ==
    ASSUME NEW n \in Nat
    PROVE  IsFiniteSet(1..n) /\ Cardinality(1..n) = n
  BY FS_Interval

\* S are the values of f at 1..n.
Values(S, f, n) == S = {f[i] : i \in 1..n}

\* n different values are n values.
LEMMA DistinctCount ==
    ASSUME NEW n \in Nat, NEW f, NEW S, Values(S, f, n),
           \A i, j \in 1..n : f[i] = f[j] => i = j
    PROVE  IsFiniteSet(S) /\ Cardinality(S) = n
  <1> DEFINE g == [i \in 1..n |-> f[i]]
  <1>1. g \in Injection(1..n, S)
    BY DEF Injection, IsInjective, Values
  <1>2. g \in Surjection(1..n, S)
    BY DEF Surjection, Values
  <1>3. ExistsBijection(1..n, S)
    BY <1>1, <1>2 DEF Bijection, ExistsBijection
  <1> QED BY <1>3, PlacesCount, FS_Bijection

LEMMA FunctionIsList ==
    ASSUME NEW n \in Nat, NEW f, f = [i \in 1..n |-> f[i]]
    PROVE  f \in Seq(ToSet(f)) /\ Len(f) = n /\ DOMAIN f = 1..n
  <1>1. DOMAIN f = 1..n
    OBVIOUS
  <1>2. f \in [1..n -> ToSet(f)]
    <2>1. \A i \in 1..n : f[i] \in ToSet(f)
      BY <1>1 DEF ToSet
    <2> QED BY <2>1
  <1> QED BY <1>1, <1>2

\* A filter is as long as there are elements it keeps.
LEMMA CountThose ==
    ASSUME NEW s, s \in Seq(ToSet(s)), NEW T
    PROVE  /\ Len(Those(s, T)) = Cardinality(At(s, T))
           /\ At(s, T) \in SUBSET (1..Len(s)) /\ IsFiniteSet(At(s, T))
           /\ Cardinality(At(s, T)) \in Nat
  <1>1. Reads(Those(s, T), s, At(s, T), Below)
    BY ThoseRead
  <1>2. At(s, T) \in SUBSET (1..Len(s))
    BY DEF At
  <1>3. IsFiniteSet(At(s, T)) /\ Len(Those(s, T)) = Cardinality(At(s, T))
    BY <1>1, <1>2, BelowIsOneWay, ReadingShape
  <1> QED BY <1>2, <1>3, FS_CardinalityType

\* s[:n] is what it seems to be,
LEMMA TakeShape ==
    ASSUME NEW S, NEW s \in Seq(S), NEW n \in Nat
    PROVE  /\ Take(s, n) \in Seq(S)
           /\ Len(Take(s, n)) = IF n < Len(s) THEN n ELSE Len(s)
           /\ \A i \in 1..Len(Take(s, n)) : Take(s, n)[i] = s[i]
  BY DEF Take

\* and all of s when s is not longer.
LEMMA TakeWhole ==
    ASSUME NEW S, NEW s \in Seq(S), NEW n \in Nat, Len(s) <= n
    PROVE  Take(s, n) = s
  BY DEF Take

\* An order matters only where it orders the elements of the list.
LEMMA OrderOnElements ==
    ASSUME NEW s, NEW O, NEW P,
           \A a, b \in ToSet(s) : <<a, b>> \in O <=> <<a, b>> \in P
    PROVE  Ordered(s, O) = Ordered(s, P)
  <1>1. \A i \in DOMAIN s : s[i] \in ToSet(s)
    BY DEF ToSet
  <1>2. Precedence(s, O) = Precedence(s, P)
    BY <1>1 DEF Precedence
  <1> QED BY <1>2 DEF Ordered

\* Two lists that read the same places read them in the same order.
LEMMA SamePlaces ==
    ASSUME NEW K, NEW R, OneWay(R), NEW r, NEW s, Reads(r, s, K, R), NEW t, NEW u,
           Reads(t, u, K, R)
    PROVE  \E x : Enumerates(x, K, R) /\ ReadAt(r, s, x) /\ ReadAt(t, u, x)
  <1>1. PICK x : Enumerates(x, K, R) /\ ReadAt(r, s, x)
    BY DEF Reads
  <1>2. PICK y : Enumerates(y, K, R) /\ ReadAt(t, u, y)
    BY DEF Reads
  <1>3. x = y
    BY <1>1, <1>2, SameEnumeration
  <1> QED BY <1>1, <1>2, <1>3

-----------------------------------------------------------------------------
\* Total(), which is how lists are summed

\* f[n] is the sum of the first n elements.
Summing(f, s) ==
    /\ f[0] = 0
    /\ \A n \in 1..Len(s) : f[n] = f[n - 1] + s[n]
    /\ Total(s) = f[Len(s)]

\* The loop of the sum, as a function of the rounds done.
LEMMA TotalUnfolds ==
    ASSUME NEW s \in Seq(Int)
    PROVE  \E f \in [0..Len(s) -> Int] : Summing(f, s)
  <1> DEFINE N == Len(s)
             step == [p \in Int \X (1..N) |-> p[1] + s[p[2]]]
             Def(f) == [n \in 0..N |-> IF n = 0 THEN 0 ELSE f[n - 1] + s[n]]
  <1>1. step \in [Int \X (1..N) -> Int] /\ 0 \in Int /\ N \in Nat
    OBVIOUS
  <1>2. PICK f \in [0..N -> Int] : Unfolds(f, N, 0, step)
    <2> HIDE DEF step, N
    <2> QED BY <1>1, Recursion
  <1>3. \A n \in 1..N : f[n - 1] \in Int
    <2>1. \A n \in 1..N : n - 1 \in 0..N
      BY <1>1
    <2> HIDE DEF N
    <2> QED BY <1>2, <2>1
  <1>4. \A n \in 1..N : f[n] = f[n - 1] + s[n]
    BY <1>2, <1>3 DEF Unfolds
  <1>5. f = Def(f)
    <2>1. \A n \in 0..N : f[n] = Def(f)[n]
      BY <1>2, <1>4 DEF Unfolds
    <2>2. f = [n \in 0..N |-> f[n]]
      BY <1>2
    <2>3. Def(f) = [n \in 0..N |-> Def(f)[n]]
      OBVIOUS
    <2> HIDE DEF Def, N
    <2> QED BY <2>1, <2>2, <2>3
  <1> DEFINE total == CHOOSE g : g = Def(g)
  <1>6. total = Def(total)
    <2> HIDE DEF Def
    <2> QED BY <1>5
  <1>7. Total(s) = total[N]
    BY DEF Total
  <1>8. total[0] = 0 /\ \A n \in 1..N : total[n] = total[n - 1] + s[n]
    <2> DEFINE d == Def(total)
    <2>1. d[0] = 0 /\ \A n \in 1..N : d[n] = total[n - 1] + s[n]
      BY <1>1
    <2> HIDE DEF d, total
    <2> QED BY <2>1, <1>6 DEF d
  <1> HIDE DEF total
  <1> DEFINE T == {n \in 0..N : total[n] \in Int}
  <1>9. 0..N \subseteq T
    <2>1. 0 \in T
      BY <1>1, <1>8
    <2>2. \A n \in 0..(N - 1) : n \in T => n + 1 \in T
      <3> TAKE n \in 0..(N - 1)
      <3>1. n + 1 \in 1..N /\ (n + 1) - 1 = n
        BY <1>1
      <3>2. total[n + 1] = total[n] + s[n + 1]
        BY <3>1, <1>8
      <3> QED BY <3>1, <3>2
    <2> HIDE DEF T, N
    <2> QED BY <1>1, <2>1, <2>2, UpTo
  <1>10. total \in [0..N -> Int]
    <2>1. total = [n \in 0..N |-> total[n]]
      BY <1>6
    <2> QED BY <2>1, <1>9
  <1> QED BY <1>7, <1>8, <1>10 DEF Summing

Disjoint(f, n) == \A j, k \in 1..n : j # k => f[j] \cap f[k] = {}

PartsIn(f, n, X) == \A k \in 1..n : f[k] \subseteq X

Sizes(c, f, n) == c = [k \in 1..n |-> Cardinality(f[k])]

Joined(U, f, n) == U = UNION {f[k] : k \in 1..n}

\* The number of elements of disjoint parts is the sum of their numbers.
LEMMA PartsCount ==
    ASSUME NEW n \in Nat, NEW f, NEW X, IsFiniteSet(X), PartsIn(f, n, X), Disjoint(f, n),
           NEW c, Sizes(c, f, n), NEW U, Joined(U, f, n)
    PROVE  Total(c) = Cardinality(U)
  <1> DEFINE Upto(m) == {y \in X : \E k \in 1..m : y \in f[k]}
  <1>1. \A k \in 1..n : IsFiniteSet(f[k]) /\ Cardinality(f[k]) \in Nat
    <2>1. \A k \in 1..n : f[k] \in SUBSET X
      BY DEF PartsIn
    <2> QED BY <2>1, FS_Subset, FS_CardinalityType
  <1>2. c \in Seq(Int) /\ Len(c) = n /\ \A k \in 1..n : c[k] = Cardinality(f[k])
    BY <1>1 DEF Sizes
  <1>3. PICK g \in [0..n -> Int] : Summing(g, c)
    BY <1>2, TotalUnfolds
  <1>4. /\ g[0] = 0 /\ Total(c) = g[n]
        /\ \A k \in 1..n : g[k] = g[k - 1] + Cardinality(f[k])
    BY <1>2, <1>3 DEF Summing
  <1> DEFINE T == {m \in 0..n : Cardinality(Upto(m)) = g[m]}
  <1>5. 0 \in T
    <2>1. Upto(0) = {}
      OBVIOUS
    <2> HIDE DEF Upto
    <2> QED BY <2>1, <1>4, FS_EmptySet
  <1>6. ASSUME NEW m \in 0..(n - 1), m \in T PROVE m + 1 \in T
    <2>1. m + 1 \in 1..n /\ (m + 1) - 1 = m /\ m + 1 \in 0..n
      OBVIOUS
    <2>2. Upto(m + 1) = Upto(m) \cup f[m + 1]
      <3>1. \A k : k \in 1..(m + 1) <=> k \in 1..m \/ k = m + 1
        BY <2>1
      <3>2. f[m + 1] \subseteq X
        BY <2>1 DEF PartsIn
      <3> QED BY <3>1, <3>2
    <2>3. Upto(m) \cap f[m + 1] = {}
      <3> SUFFICES ASSUME NEW k \in 1..m PROVE f[k] \cap f[m + 1] = {}
        OBVIOUS
      <3>1. k \in 1..n /\ k # m + 1
        BY <2>1
      <3> QED BY <2>1, <3>1 DEF Disjoint
    <2>4. IsFiniteSet(Upto(m))
      BY FS_Subset
    <2> HIDE DEF Upto
    <2>5. Cardinality(Upto(m) \cup f[m + 1])
            = Cardinality(Upto(m)) + Cardinality(f[m + 1]) - Cardinality({})
      <3>1. IsFiniteSet(f[m + 1])
        BY <1>1, <2>1
      <3> QED BY <2>3, <2>4, <3>1, FS_Union
    <2>6. g[m + 1] = g[m] + Cardinality(f[m + 1])
      BY <1>4, <2>1
    <2>7. Cardinality(Upto(m)) = g[m]
      BY <1>6
    <2>8. Cardinality(Upto(m)) \in Nat /\ Cardinality(f[m + 1]) \in Nat
      BY <1>1, <2>1, <2>4, FS_CardinalityType
    <2>9. Cardinality({}) = 0
      BY FS_EmptySet
    <2>10. Cardinality(Upto(m + 1)) = g[m + 1]
      <3> DEFINE a == Cardinality(Upto(m + 1))
                 b == Cardinality(Upto(m))
                 d == Cardinality(f[m + 1])
                 z == Cardinality({})
      <3>1. a = b + d - z
        BY <2>2, <2>5
      <3>2. z = 0 /\ b \in Nat /\ d \in Nat /\ b = g[m] /\ g[m + 1] = g[m] + d
        BY <2>6, <2>7, <2>8, <2>9
      <3> HIDE DEF a, b, d, z
      <3>3. a = g[m + 1]
        BY <3>1, <3>2
      <3> QED BY <3>3 DEF a
    <2> QED BY <2>1, <2>10
  <1> HIDE DEF T
  <1>7. n \in T
    <2>1. 0..n \subseteq T
      BY <1>5, <1>6, UpTo
    <2> QED BY <2>1
  <1>8. Upto(n) = U
    BY DEF PartsIn, Joined
  <1> QED BY <1>4, <1>7, <1>8 DEF T

-----------------------------------------------------------------------------
\* max()

\* The first of the largest of e[1], ..., e[n] is at i.
Tops(i, e, n) == \A j \in 1..n : e[j] < e[i] \/ (e[j] = e[i] /\ i <= j)

\* Some number of a list is its first largest.
LEMMA LargestExists ==
    ASSUME NEW n \in Nat, n > 0, NEW e, \A i \in 1..n : e[i] \in Int
    PROVE  \E i \in 1..n : Tops(i, e, n)
  <1> DEFINE T == {m \in 0..n : m = 0 \/ \E i \in 1..m : Tops(i, e, m)}
  <1>1. 0 \in T
    OBVIOUS
  <1>2. ASSUME NEW m \in 0..(n - 1), m \in T PROVE m + 1 \in T
    <2>1. m + 1 \in 1..n /\ e[m + 1] \in Int
      OBVIOUS
    <2>2. CASE m = 0
      <3>1. Tops(1, e, 1) /\ 1 \in 1..1
        BY <2>1, <2>2 DEF Tops
      <3> QED BY <2>1, <2>2, <3>1
    <2>3. CASE m # 0
      <3>1. PICK i \in 1..m : Tops(i, e, m)
        BY <1>2, <2>3
      <3>2. i \in 1..n /\ e[i] \in Int
        OBVIOUS
      <3>3. \A j \in 1..m : e[j] \in Int
        OBVIOUS
      <3>4. CASE e[m + 1] > e[i]
        <4>1. Tops(m + 1, e, m + 1)
          <5> SUFFICES ASSUME NEW j \in 1..(m + 1)
                       PROVE  e[j] < e[m + 1] \/ (e[j] = e[m + 1] /\ m + 1 <= j)
            BY DEF Tops
          <5>1. CASE j = m + 1
            BY <5>1, <2>1
          <5>2. CASE j # m + 1
            <6>1. j \in 1..m
              BY <5>2
            <6>2. e[j] <= e[i] /\ e[j] \in Int
              BY <3>1, <3>2, <3>3, <6>1 DEF Tops
            <6> QED BY <2>1, <3>2, <3>4, <6>2
          <5> QED BY <5>1, <5>2
        <4> QED BY <2>1, <4>1
      <3>5. CASE ~(e[m + 1] > e[i])
        <4>1. Tops(i, e, m + 1)
          <5> SUFFICES ASSUME NEW j \in 1..(m + 1)
                       PROVE  e[j] < e[i] \/ (e[j] = e[i] /\ i <= j)
            BY DEF Tops
          <5>1. CASE j = m + 1
            <6>1. e[j] <= e[i] /\ i <= j
              BY <5>1, <2>1, <3>2, <3>5
            <6> QED BY <5>1, <6>1, <2>1, <3>2
          <5>2. CASE j # m + 1
            <6>1. j \in 1..m
              BY <5>2
            <6> QED BY <3>1, <6>1 DEF Tops
          <5> QED BY <5>1, <5>2
        <4>2. i \in 1..(m + 1)
          OBVIOUS
        <4> QED BY <2>1, <4>1, <4>2
      <3> QED BY <3>4, <3>5
    <2> QED BY <2>2, <2>3
  <1> HIDE DEF T
  <1>3. n \in T
    <2>1. 0..n \subseteq T
      BY <1>1, <1>2, UpTo
    <2> QED BY <2>1
  <1> QED BY <1>3 DEF T

-----------------------------------------------------------------------------
\* FlattenSeq(), which is how lists are joined

\* f[n] is the first n lists, one after another.
Joining(f, lists) ==
    /\ f[0] = <<>>
    /\ \A n \in 1..Len(lists) : f[n] = f[n - 1] \o lists[n]
    /\ FlattenSeq(lists) = f[Len(lists)]

\* The loop that joins lists, as a function of the lists joined.
LEMMA FlattenUnfolds ==
    ASSUME NEW S, NEW lists \in Seq(Seq(S))
    PROVE  \E f \in [0..Len(lists) -> Seq(S)] : Joining(f, lists)
  <1> DEFINE N == Len(lists)
             step == [p \in Seq(S) \X (1..N) |-> p[1] \o lists[p[2]]]
             Def(g) == [i \in 1..N |-> IF i = 1 THEN lists[i] ELSE g[i - 1] \o lists[i]]
  <1>1. <<>> \in Seq(S) /\ N \in Nat /\ \A i \in 1..N : lists[i] \in Seq(S)
    OBVIOUS
  <1>2. step \in [Seq(S) \X (1..N) -> Seq(S)]
    BY <1>1
  <1>3. PICK f \in [0..N -> Seq(S)] : Unfolds(f, N, <<>>, step)
    <2> HIDE DEF step, N
    <2> QED BY <1>1, <1>2, Recursion
  <1>4. \A n \in 1..N : n - 1 \in 0..N /\ f[n - 1] \in Seq(S)
    <2>1. \A n \in 1..N : n - 1 \in 0..N
      BY <1>1
    <2> HIDE DEF N
    <2> QED BY <1>3, <2>1
  <1>5. f[0] = <<>> /\ \A n \in 1..N : f[n] = f[n - 1] \o lists[n]
    <2>1. \A n \in 1..N : f[n] = step[<<f[n - 1], n>>]
      BY <1>3 DEF Unfolds
    <2>2. \A n \in 1..N : step[<<f[n - 1], n>>] = f[n - 1] \o lists[n]
      BY <1>4
    <2>3. f[0] = <<>>
      BY <1>3 DEF Unfolds
    <2> HIDE DEF step
    <2> QED BY <2>1, <2>2, <2>3
  <1> HIDE DEF step
  <1>5a. 1 \in 1..N => f[1] = lists[1]
    <2>1. 1 \in 1..N => <<>> \o lists[1] = lists[1]
      BY <1>1
    <2>2. 1 - 1 = 0
      OBVIOUS
    <2>3. 1 \in 1..N => f[1] = f[1 - 1] \o lists[1]
      BY <1>5
    <2> HIDE DEF N
    <2> QED BY <1>5, <2>1, <2>2, <2>3
  <1> DEFINE h == [i \in 1..N |-> f[i]]
  <1>6. h = Def(h)
    <2>1. \A i \in 1..N : h[i] = Def(h)[i]
      <3> TAKE i \in 1..N
      <3>1. CASE i = 1
        <4> QED BY <1>5a, <3>1
      <3>2. CASE i # 1
        <4>1. i - 1 \in 1..N
          BY <1>1, <3>2
        <4>2. h[i - 1] = f[i - 1]
          BY <4>1
        <4> QED BY <1>5, <3>2, <4>2
      <3> QED BY <3>1, <3>2
    <2>2. h = [i \in 1..N |-> h[i]] /\ Def(h) = [i \in 1..N |-> Def(h)[i]]
      OBVIOUS
    <2> HIDE DEF h, Def, N
    <2> QED BY <2>1, <2>2
  <1> DEFINE flatten == CHOOSE g : g = Def(g)
  <1>7. flatten = Def(flatten)
    <2> HIDE DEF Def, h
    <2> QED BY <1>6
  <1>8. FlattenSeq(lists) = IF N = 0 THEN lists ELSE flatten[N]
    BY DEF FlattenSeq
  <1>9. \A i \in 1..N : flatten[i] = IF i = 1 THEN lists[i] ELSE flatten[i - 1] \o lists[i]
    <2> DEFINE d == Def(flatten)
    <2>1. \A i \in 1..N : d[i] = IF i = 1 THEN lists[i] ELSE flatten[i - 1] \o lists[i]
      OBVIOUS
    <2> HIDE DEF d, flatten
    <2> QED BY <2>1, <1>7 DEF d
  <1> HIDE DEF flatten
  <1> DEFINE T == {n \in 0..N : n = 0 \/ flatten[n] = f[n]}
  <1>10. 0..N \subseteq T
    <2>1. 0 \in T
      BY <1>1
    <2>2. \A n \in 0..(N - 1) : n \in T => n + 1 \in T
      <3> TAKE n \in 0..(N - 1)
      <3> HAVE n = 0 \/ flatten[n] = f[n]
      <3>1. n + 1 \in 1..N /\ (n + 1) - 1 = n /\ n + 1 \in 0..N
        BY <1>1
      <3>2. CASE n = 0
        <4>1. 1 \in 1..N /\ n + 1 = 1
          BY <3>1, <3>2
        <4>2. flatten[1] = lists[1]
          BY <1>9, <4>1
        <4> QED BY <1>5a, <3>1, <4>1, <4>2
      <3>3. CASE n # 0
        <4>1. n + 1 # 1
          BY <1>1, <3>3
        <4>2. flatten[n + 1] = flatten[n] \o lists[n + 1] /\ f[n + 1] = f[n] \o lists[n + 1]
          BY <1>5, <1>9, <3>1, <4>1
        <4> QED BY <3>1, <3>3, <4>2
      <3> QED BY <3>2, <3>3
    <2> HIDE DEF T
    <2> QED BY <1>1, <2>1, <2>2, UpTo
  <1>11. FlattenSeq(lists) = f[N]
    <2>1. CASE N = 0
      <3>1. lists = <<>>
        BY <2>1
      <3> QED BY <1>5, <1>8, <2>1, <3>1
    <2>2. CASE N # 0
      <3>1. N \in T
        BY <1>1, <1>10
      <3> QED BY <1>8, <2>2, <3>1
    <2> QED BY <2>1, <2>2
  <1> QED BY <1>5, <1>11 DEF Joining

\* Lists of elements of S join to one.
LEMMA JoinedIsList ==
    ASSUME NEW S, NEW lists \in Seq(Seq(S))
    PROVE  FlattenSeq(lists) \in Seq(S)
  <1>1. PICK f \in [0..Len(lists) -> Seq(S)] : Joining(f, lists)
    BY FlattenUnfolds
  <1>2. Len(lists) \in 0..Len(lists)
    OBVIOUS
  <1> QED BY <1>1, <1>2 DEF Joining

\* One more list is joined at the end.
LEMMA JoinOneMore ==
    ASSUME NEW S, NEW lists \in Seq(Seq(S)), NEW t \in Seq(S)
    PROVE  FlattenSeq(Append(lists, t)) = FlattenSeq(lists) \o t
  <1> DEFINE N == Len(lists)
             more == Append(lists, t)
  <1>1. N \in Nat /\ more \in Seq(Seq(S)) /\ Len(more) = N + 1 /\ more[N + 1] = t
    OBVIOUS
  <1>2. \A k \in 1..N : more[k] = lists[k]
    OBVIOUS
  <1>3. PICK f \in [0..N -> Seq(S)] : Joining(f, lists)
    BY FlattenUnfolds
  <1> HIDE DEF more
  <1>4. PICK g \in [0..Len(more) -> Seq(S)] : Joining(g, more)
    BY <1>1, FlattenUnfolds
  <1>5. g[0] = <<>> /\ FlattenSeq(more) = g[N + 1]
        /\ \A k \in 1..(N + 1) : g[k] = g[k - 1] \o more[k]
    BY <1>1, <1>4 DEF Joining
  <1>6. f[0] = <<>> /\ FlattenSeq(lists) = f[N] /\ \A k \in 1..N : f[k] = f[k - 1] \o lists[k]
    BY <1>3 DEF Joining
  <1> DEFINE T == {k \in 0..N : g[k] = f[k]}
  <1>7. 0 \in T
    BY <1>1, <1>5, <1>6
  <1>8. ASSUME NEW k \in 0..(N - 1), k \in T PROVE k + 1 \in T
    <2>1. k + 1 \in 1..N /\ k + 1 \in 1..(N + 1) /\ (k + 1) - 1 = k /\ k + 1 \in 0..N
      BY <1>1
    <2>2. g[k + 1] = g[k] \o lists[k + 1] /\ f[k + 1] = f[k] \o lists[k + 1]
      BY <1>2, <1>5, <1>6, <2>1
    <2> QED BY <1>8, <2>1, <2>2
  <1> HIDE DEF T
  <1>9. N \in T
    <2>1. 0..N \subseteq T
      BY <1>1, <1>7, <1>8, UpTo
    <2> HIDE DEF N
    <2> QED BY <1>1, <2>1
  <1>10. g[N + 1] = g[N] \o t
    <2>1. N + 1 \in 1..(N + 1) /\ (N + 1) - 1 = N
      BY <1>1
    <2> QED BY <1>1, <1>5, <2>1
  <1> QED BY <1>5, <1>6, <1>9, <1>10 DEF T, more

\* The places of the first n lists
PlacesUpTo(lists, n) == {p \in (1..n) \X Nat : p[2] \in 1..Len(lists[p[1]])}

\* loc says for each place of t where in the first n lists its element is, and reaches
\* each place of them once.
Locates(loc, t, lists, n) ==
    /\ loc \in [1..Len(t) -> PlacesUpTo(lists, n)]
    /\ \A p \in PlacesUpTo(lists, n) : \E i \in 1..Len(t) : loc[i] = p
    /\ \A i, j \in 1..Len(t) : loc[i] = loc[j] => i = j
    /\ \A i \in 1..Len(t) : t[i] = lists[loc[i][1]][loc[i][2]]

\* The places of one more list come after those located so far.
LEMMA LocateOneMore ==
    ASSUME NEW S, NEW lists \in Seq(Seq(S)), NEW n \in 0..(Len(lists) - 1), NEW t \in Seq(S),
           NEW loc, Locates(loc, t, lists, n)
    PROVE  \E l : Locates(l, t \o lists[n + 1], lists, n + 1)
  <1> DEFINE e == lists[n + 1]
             u == t \o e
             L == Len(t)
             l == [i \in 1..Len(u) |-> IF i <= L THEN loc[i] ELSE <<n + 1, i - L>>]
             P == PlacesUpTo(lists, n)
             Q == PlacesUpTo(lists, n + 1)
  <1>1. n \in Nat /\ n + 1 \in 1..Len(lists) /\ e \in Seq(S) /\ Len(e) \in Nat /\ L \in Nat
    OBVIOUS
  <1>2. /\ u \in Seq(S) /\ Len(u) = L + Len(e)
        /\ \A i \in 1..L : u[i] = t[i]
        /\ \A k \in 1..Len(e) : u[L + k] = e[k]
    <2> HIDE DEF e
    <2> QED BY <1>1
  <1>3. \A p \in P : p[1] \in 1..n /\ p \in Q
    BY <1>1 DEF PlacesUpTo
  <1>4. \A k \in 1..Len(e) : <<n + 1, k>> \in Q /\ <<n + 1, k>> \notin P
    BY <1>1 DEF PlacesUpTo
  <1>5. \A p \in Q : p \in P \/ \E k \in 1..Len(e) : p = <<n + 1, k>>
    <2> TAKE p \in Q
    <2>1. p = <<p[1], p[2]>> /\ p[1] \in 1..(n + 1) /\ p[2] \in 1..Len(lists[p[1]])
      BY DEF PlacesUpTo
    <2>2. CASE p[1] = n + 1
      BY <2>1, <2>2
    <2>3. CASE p[1] # n + 1
      <3>1. p[1] \in 1..n
        BY <1>1, <2>1, <2>3
      <3> QED BY <2>1, <3>1 DEF PlacesUpTo
    <2> QED BY <2>2, <2>3
  <1>6. /\ loc \in [1..L -> P]
        /\ \A p \in P : \E i \in 1..L : loc[i] = p
        /\ \A i, j \in 1..L : loc[i] = loc[j] => i = j
        /\ \A i \in 1..L : t[i] = lists[loc[i][1]][loc[i][2]]
    BY DEF Locates
  <1> DEFINE M == Len(e)
  <1>7. \A i \in 1..(L + M) : i \in 1..L \/ (i - L \in 1..M /\ L + (i - L) = i)
    <2>1. M \in Nat
      BY <1>1
    <2> HIDE DEF L, M
    <2> QED BY <1>1, <2>1
  <1>8. /\ \A i \in 1..L : i \in 1..Len(u) /\ l[i] = loc[i]
        /\ \A k \in 1..M : L + k \in 1..Len(u) /\ l[L + k] = <<n + 1, k>>
    <2>1. \A i \in 1..L : i \in 1..Len(u) /\ i <= L
      <3> HIDE DEF L, u, e
      <3> QED BY <1>1, <1>2
    <2>2. \A k \in 1..M : L + k \in 1..Len(u) /\ ~(L + k <= L) /\ (L + k) - L = k
      <3> HIDE DEF L, u, e
      <3> QED BY <1>1, <1>2
    <2> HIDE DEF L, M, u
    <2> QED BY <2>1, <2>2
  <1>9. Len(u) = L + M /\ l = [i \in 1..Len(u) |-> l[i]]
    BY <1>2
  <1> HIDE DEF l, u, L, M, P, Q, e
  <1>10. \A i \in 1..Len(u) : l[i] \in Q
    <2> TAKE i \in 1..Len(u)
    <2>1. CASE i \in 1..L
      BY <2>1, <1>3, <1>6, <1>8
    <2>2. CASE i \notin 1..L
      <3>1. i - L \in 1..M /\ L + (i - L) = i
        BY <1>7, <1>9, <2>2
      <3>2. l[i] = <<n + 1, i - L>>
        BY <1>8, <3>1
      <3> QED BY <1>4, <3>1, <3>2 DEF M
    <2> QED BY <2>1, <2>2
  <1>11. \A p \in Q : \E i \in 1..Len(u) : l[i] = p
    <2> TAKE p \in Q
    <2>1. CASE p \in P
      BY <2>1, <1>6, <1>8
    <2>2. CASE p \notin P
      BY <2>2, <1>5, <1>8 DEF M
    <2> QED BY <2>1, <2>2
  <1>12. \A i, j \in 1..Len(u) : l[i] = l[j] => i = j
    <2> TAKE i, j \in 1..Len(u)
    <2> HAVE l[i] = l[j]
    <2>1. CASE i \in 1..L /\ j \in 1..L
      BY <2>1, <1>6, <1>8
    <2>2. CASE i \in 1..L /\ j \notin 1..L
      <3>1. j - L \in 1..M /\ L + (j - L) = j
        BY <1>7, <1>9, <2>2
      <3>2. l[j] = <<n + 1, j - L>> /\ l[i] = loc[i]
        BY <1>8, <2>2, <3>1
      <3>3. l[j] \notin P
        BY <1>4, <3>1, <3>2 DEF M
      <3>4. loc[i] \in P
        BY <1>6, <2>2
      <3> QED BY <3>2, <3>3, <3>4
    <2>3. CASE i \notin 1..L /\ j \in 1..L
      <3>1. i - L \in 1..M /\ L + (i - L) = i
        BY <1>7, <1>9, <2>3
      <3>2. l[i] = <<n + 1, i - L>> /\ l[j] = loc[j]
        BY <1>8, <2>3, <3>1
      <3>3. l[i] \notin P
        BY <1>4, <3>1, <3>2 DEF M
      <3>4. loc[j] \in P
        BY <1>6, <2>3
      <3> QED BY <3>2, <3>3, <3>4
    <2>4. CASE i \notin 1..L /\ j \notin 1..L
      <3>1. i - L \in 1..M /\ L + (i - L) = i /\ j - L \in 1..M /\ L + (j - L) = j
        BY <1>7, <1>9, <2>4
      <3>2. l[i] = <<n + 1, i - L>> /\ l[j] = <<n + 1, j - L>>
        BY <1>8, <3>1
      <3>3. i - L = j - L
        <4>1. \A x, y, z : <<x, y>> = <<x, z>> => y = z
          OBVIOUS
        <4>2. <<n + 1, i - L>> = <<n + 1, j - L>>
          BY <3>2
        <4> QED BY <4>1, <4>2, Zenon
      <3> QED BY <3>1, <3>3
    <2> QED BY <2>1, <2>2, <2>3, <2>4
  <1>13. \A i \in 1..Len(u) : u[i] = lists[l[i][1]][l[i][2]]
    <2> TAKE i \in 1..Len(u)
    <2>1. CASE i \in 1..L
      BY <2>1, <1>2, <1>6, <1>8
    <2>2. CASE i \notin 1..L
      <3>1. i - L \in 1..M /\ L + (i - L) = i
        BY <1>7, <1>9, <2>2
      <3>2. l[i] = <<n + 1, i - L>> /\ u[i] = e[i - L]
        BY <1>2, <1>8, <3>1 DEF M
      <3> QED BY <3>2 DEF e
    <2> QED BY <2>1, <2>2
  <1>14. Locates(l, u, lists, n + 1)
    <2>1. l \in [1..Len(u) -> Q]
      BY <1>9, <1>10
    <2> QED BY <2>1, <1>11, <1>12, <1>13 DEF Locates, Q
  <1> QED BY <1>14 DEF u, e

\* Each element of the joined list is that of one place of the lists, and of its own.
THEOREM FlattenPlaces ==
    ASSUME NEW S, NEW lists \in Seq(Seq(S))
    PROVE  /\ FlattenSeq(lists) \in Seq(S)
           /\ \E loc : Locates(loc, FlattenSeq(lists), lists, Len(lists))
  <1> DEFINE N == Len(lists)
  <1>1. PICK f \in [0..N -> Seq(S)] : Joining(f, lists)
    BY FlattenUnfolds
  <1>2. N \in Nat
    OBVIOUS
  <1> DEFINE T == {n \in 0..N : \E loc : Locates(loc, f[n], lists, n)}
  <1>3. 0 \in T
    <2>1. f[0] = <<>> /\ Len(<<>>) = 0 /\ 1..0 = {}
      BY <1>1 DEF Joining
    <2>2. PlacesUpTo(lists, 0) = {}
      BY DEF PlacesUpTo
    <2>3. Locates([i \in 1..Len(f[0]) |-> <<1, 1>>], f[0], lists, 0)
      BY <2>1, <2>2 DEF Locates
    <2> QED BY <1>2, <2>3
  <1>4. ASSUME NEW n \in 0..(N - 1), n \in T PROVE n + 1 \in T
    <2>1. n + 1 \in 1..N /\ n + 1 \in 0..N /\ n \in 0..N /\ (n + 1) - 1 = n
      BY <1>2
    <2>2. PICK loc : Locates(loc, f[n], lists, n)
      BY <1>4
    <2>3. f[n + 1] = f[n] \o lists[n + 1]
      <3>1. \A k \in 1..N : f[k] = f[k - 1] \o lists[k]
        BY <1>1 DEF Joining
      <3> HIDE DEF N, T
      <3> QED BY <2>1, <3>1
    <2>4. \E l : Locates(l, f[n] \o lists[n + 1], lists, n + 1)
      <3>1. f[n] \in Seq(S)
        BY <2>1
      <3> HIDE DEF T
      <3> QED BY <2>2, <3>1, LocateOneMore
    <2> QED BY <2>1, <2>3, <2>4
  <1> HIDE DEF T
  <1>5. N \in T
    <2>1. 0..N \subseteq T
      BY <1>2, <1>3, <1>4, UpTo
    <2> QED BY <1>2, <2>1
  <1>6. FlattenSeq(lists) = f[N] /\ N \in 0..N
    BY <1>1, <1>2 DEF Joining
  <1> QED BY <1>5, <1>6 DEF T

-----------------------------------------------------------------------------
\* Occurrences, which neither joining nor sorting changes

OneToOne(f, S, T) ==
    /\ f \in [S -> T]
    /\ \A y \in T : \E x \in S : f[x] = y
    /\ \A x, y \in S : f[x] = f[y] => x = y

\* Sets that are mapped one to one are as large as each other.
LEMMA SameSize ==
    ASSUME NEW S, IsFiniteSet(S), NEW T, NEW f, OneToOne(f, S, T)
    PROVE  IsFiniteSet(T) /\ Cardinality(T) = Cardinality(S)
  <1>1. f \in Surjection(S, T)
    BY DEF OneToOne, Surjection
  <1>2. f \in Injection(S, T)
    BY DEF OneToOne, Injection, IsInjective
  <1> QED BY <1>1, <1>2, FS_Surjection

\* The filter for one element is as long as there are places of it.
LEMMA CountOne ==
    ASSUME NEW s, s \in Seq(ToSet(s)), NEW a
    PROVE  /\ Len(Kept(s, LAMBDA x : x = a)) = Cardinality(At(s, {a}))
           /\ IsFiniteSet(At(s, {a}))
  <1> DEFINE T == {x \in ToSet(s) : x = a}
  <1>1. Kept(s, LAMBDA x : x = a) = Those(s, T)
    BY DEF Kept
  <1>2. At(s, T) = At(s, {a})
    <2>1. \A k \in 1..Len(s) : s[k] \in ToSet(s)
      BY DEF ToSet
    <2> QED BY <2>1 DEF At
  <1> HIDE DEF T
  <1> QED BY <1>1, <1>2, CountThose

\* Where a is in the lists
PlacesOf(a, lists) == {p \in PlacesUpTo(lists, Len(lists)) : lists[p[1]][p[2]] = a}

\* An element occurs in joined lists as often as it has places in them.
LEMMA CountFlattened ==
    ASSUME NEW S, NEW lists \in Seq(Seq(S)), NEW a
    PROVE  /\ IsFiniteSet(PlacesOf(a, lists))
           /\ Cardinality(At(FlattenSeq(lists), {a})) = Cardinality(PlacesOf(a, lists))
  <1> DEFINE t == FlattenSeq(lists)
             A == At(t, {a})
             B == PlacesOf(a, lists)
             P == PlacesUpTo(lists, Len(lists))
  <1>1. t \in Seq(S)
    BY JoinedIsList
  <1>2. PICK loc : Locates(loc, t, lists, Len(lists))
    BY FlattenPlaces
  <1>3. A \in SUBSET (1..Len(t)) /\ IsFiniteSet(A)
    <2>1. Len(t) \in Nat
      BY <1>1
    <2> HIDE DEF t
    <2>2. A \in SUBSET (1..Len(t)) /\ IsFiniteSet(1..Len(t))
      BY <2>1, FS_Interval DEF At
    <2> HIDE DEF A
    <2> QED BY <2>2, FS_Subset
  <1> DEFINE g == [i \in A |-> loc[i]]
  <1>4. \A i \in 1..Len(t) : i \in A <=> loc[i] \in B
    <2> TAKE i \in 1..Len(t)
    <2>1. t[i] = lists[loc[i][1]][loc[i][2]] /\ loc[i] \in P
      BY <1>2 DEF Locates
    <2> HIDE DEF t, P
    <2> QED BY <2>1 DEF At, PlacesOf, P
  <1>5. B \subseteq P
    BY DEF PlacesOf
  <1>6. /\ \A p \in P : \E i \in 1..Len(t) : loc[i] = p
        /\ \A i, j \in 1..Len(t) : loc[i] = loc[j] => i = j
    BY <1>2 DEF Locates
  <1> HIDE DEF t, A, B, P
  <1>7. OneToOne(g, A, B)
    <2>1. g \in [A -> B]
      BY <1>3, <1>4
    <2>2. \A y \in B : \E i \in A : g[i] = y
      BY <1>3, <1>4, <1>5, <1>6
    <2>3. \A i, j \in A : g[i] = g[j] => i = j
      BY <1>3, <1>6
    <2> HIDE DEF g
    <2> QED BY <2>1, <2>2, <2>3 DEF OneToOne
  <1> HIDE DEF g
  <1>8. IsFiniteSet(B) /\ Cardinality(B) = Cardinality(A)
    BY <1>3, <1>7, SameSize
  <1> QED BY <1>8 DEF A, B, t

\* r has the elements of s at the places x.
Rearranges(x, r, s) ==
    /\ OneToOne(x, 1..Len(s), 1..Len(s))
    /\ Len(r) = Len(s)
    /\ \A i \in 1..Len(s) : r[i] = s[x[i]]

\* No element comes before one that comes Before it.
NeverFalls(r, O) == \A i, j \in 1..Len(r) : i < j => <<r[j], r[i]>> \notin O

\* A stable sort rearranges a list, and nothing falls in it.
THEOREM OrderedRearranges ==
    ASSUME NEW S, NEW s \in Seq(S), NEW O, Ranks(O, S)
    PROVE  /\ Ordered(s, O) \in Seq(S)
           /\ \E x : Rearranges(x, Ordered(s, O), s)
           /\ NeverFalls(Ordered(s, O), O)
  <1> DEFINE r == Ordered(s, O)
             R == Precedence(s, O)
             D == 1..Len(s)
  <1>1. Reads(r, s, DOMAIN s, R) /\ OneWay(R)
    BY OrderedReads, PrecedenceIsOneWay
  <1>2. DOMAIN s = D /\ D \in SUBSET (1..Len(s)) /\ Len(s) \in Nat
    OBVIOUS
  <1>3. \A i, j \in D : <<i, j>> \in R =>
            <<s[i], s[j]>> \in O \/ <<s[j], s[i]>> \notin O
    BY DEF Precedence
  <1>4. \A i, j \in D : <<s[i], s[j]>> \in O => <<s[j], s[i]>> \notin O
    <2>1. \A i \in D : s[i] \in S
      OBVIOUS
    <2> QED BY <2>1 DEF Ranks
  <1> HIDE DEF r, R
  <1>5. r \in Seq(S) /\ Len(r) = Cardinality(D)
    BY <1>1, <1>2, ReadingShape
  <1>6. PICK x : Enumerates(x, D, R) /\ ReadAt(r, s, x)
    BY <1>1, <1>2 DEF Reads
  <1>7. Cardinality(D) = Len(x) /\ \A i, j \in 1..Len(x) : x[i] = x[j] => i = j
    <2> HIDE DEF D
    <2>1. OneWay(R) /\ Enumerates(x, D, R)
      BY <1>1, <1>6
    <2> QED BY <2>1, EnumerationCounts
  <1>8. Cardinality(D) = Len(s)
    BY <1>2, PlacesCount
  <1>9. x \in [D -> D]
    <2>1. x \in Seq(D) /\ Len(x) = Len(s)
      BY <1>6, <1>7, <1>8 DEF Enumerates
    <2> HIDE DEF D
    <2>2. x \in [1..Len(x) -> D]
      BY <2>1
    <2> QED BY <2>1, <2>2 DEF D
  <1>10. OneToOne(x, D, D)
    <2>1. \A k \in D : \E i \in D : x[i] = k
      BY <1>6, <1>7, <1>8 DEF Enumerates
    <2> QED BY <1>7, <1>8, <1>9, <2>1 DEF OneToOne
  <1>11. \A i \in D : r[i] = s[x[i]]
    BY <1>6, <1>7, <1>8 DEF ReadAt
  <1>12. Rearranges(x, r, s)
    BY <1>5, <1>8, <1>10, <1>11 DEF Rearranges
  <1>13. NeverFalls(r, O)
    <2>1. Len(r) = Len(s)
      BY <1>5, <1>8
    <2> SUFFICES ASSUME NEW i \in D, NEW j \in D, i < j PROVE <<r[j], r[i]>> \notin O
      BY <2>1 DEF NeverFalls
    <2>2. <<x[i], x[j]>> \in R
      BY <1>6, <1>7, <1>8 DEF Enumerates
    <2>3. x[i] \in D /\ x[j] \in D
      BY <1>9
    <2> QED BY <1>3, <1>4, <1>11, <2>2, <2>3
  <1> QED BY <1>5, <1>12, <1>13 DEF r

\* Rearranging a list keeps how often an element occurs.
LEMMA CountRearranged ==
    ASSUME NEW S, NEW s \in Seq(S), NEW r \in Seq(S), NEW x, Rearranges(x, r, s), NEW a
    PROVE  Cardinality(At(r, {a})) = Cardinality(At(s, {a}))
  <1> DEFINE A == At(r, {a})
             B == At(s, {a})
             g == [i \in A |-> x[i]]
             D == 1..Len(s)
  <1>1. Len(s) \in Nat /\ Len(r) = Len(s) /\ \A i \in D : r[i] = s[x[i]]
    BY DEF Rearranges
  <1>2. /\ x \in [D -> D]
        /\ \A y \in D : \E i \in D : x[i] = y
        /\ \A i, j \in D : x[i] = x[j] => i = j
    BY DEF Rearranges, OneToOne
  <1>3. \A i \in D : i \in A <=> r[i] = a
    BY <1>1 DEF At
  <1>4. \A i \in D : i \in B <=> s[i] = a
    BY <1>1 DEF At
  <1>5. A \in SUBSET D /\ B \in SUBSET D
    BY <1>1 DEF At
  <1>6. IsFiniteSet(D)
    BY <1>1, PlacesCount
  <1> HIDE DEF A, B, D
  <1>7. IsFiniteSet(A)
    BY <1>5, <1>6, FS_Subset
  <1>8. OneToOne(g, A, B)
    <2>1. \A i \in D : i \in A <=> x[i] \in B
      BY <1>1, <1>2, <1>3, <1>4
    <2>2. g \in [A -> B]
      BY <1>5, <2>1
    <2>3. \A y \in B : \E i \in A : g[i] = y
      BY <1>2, <1>5, <2>1
    <2>4. \A i, j \in A : g[i] = g[j] => i = j
      BY <1>2, <1>5
    <2> HIDE DEF g
    <2> QED BY <2>2, <2>3, <2>4 DEF OneToOne
  <1> HIDE DEF g
  <1>9. Cardinality(B) = Cardinality(A)
    BY <1>7, <1>8, SameSize
  <1> QED BY <1>9 DEF A, B

-----------------------------------------------------------------------------
\* Lists without and with their last element

LEMMA FrontAndLast ==
    ASSUME NEW S, NEW s \in Seq(S), s # <<>>
    PROVE  /\ Front(s) \in Seq(S) /\ Last(s) \in S
           /\ Len(s) \in Nat \ {0} /\ Len(Front(s)) = Len(s) - 1 /\ Last(s) = s[Len(s)]
           /\ \A k \in 1..(Len(s) - 1) : Front(s)[k] = s[k]
           /\ Append(Front(s), Last(s)) = s
  <1> DEFINE n == Len(s)
             f == Front(s)
             t == Append(f, Last(s))
  <1>1. n \in Nat \ {0} /\ n \in 1..n /\ Last(s) = s[n] /\ \A k \in 1..n : s[k] \in S
    BY DEF Last
  <1>2. Last(s) \in S
    BY <1>1
  <1>3. f \in Seq(S) /\ Len(f) = n - 1 /\ \A k \in 1..(n - 1) : f[k] = s[k]
    <2>1. n - 1 \in Int /\ \A k \in 1..(n - 1) : k \in 1..n
      BY <1>1
    <2>2. /\ f \in Seq(S) /\ Len(f) = IF 1 <= n - 1 THEN (n - 1) - 1 + 1 ELSE 0
          /\ \A k \in 1..((n - 1) - 1 + 1) : f[k] = s[1 + k - 1]
      <3> HIDE DEF n
      <3> QED BY <1>1, <2>1, SubSeqProperties DEF Front, n
    <2> HIDE DEF f, n
    <2> QED BY <1>1, <2>2
  <1> HIDE DEF f
  <1>4. t \in Seq(S) /\ Len(t) = (n - 1) + 1 /\ t[(n - 1) + 1] = s[n]
        /\ \A k \in 1..(n - 1) : t[k] = f[k]
    BY <1>1, <1>2, <1>3
  <1>5. \A k \in 1..n : t[k] = s[k]
    <2> TAKE k \in 1..n
    <2>1. k \in 1..(n - 1) \/ k = n
      BY <1>1
    <2>2. (n - 1) + 1 = n
      BY <1>1
    <2> QED BY <1>3, <1>4, <2>1, <2>2
  <1> HIDE DEF t, n
  <1>6. t = s
    BY <1>1, <1>4, <1>5, SeqEqual DEF n
  <1> QED BY <1>1, <1>2, <1>3, <1>6 DEF t, f, n

\* A prefix and the element after it are the next prefix.
LEMMA PrefixGrows ==
    ASSUME NEW S, NEW s \in Seq(S), NEW n \in 1..Len(s)
    PROVE  /\ SubSeq(s, 1, n - 1) \in Seq(S)
           /\ Append(SubSeq(s, 1, n - 1), s[n]) = SubSeq(s, 1, n)
  <1> DEFINE p == SubSeq(s, 1, n - 1)
             t == Append(p, s[n])
             q == SubSeq(s, 1, n)
  <1>1. n \in Nat /\ n > 0 /\ \A k \in 1..n : s[k] \in S
    OBVIOUS
  <1>2. p \in Seq(S) /\ Len(p) = n - 1 /\ \A k \in 1..(n - 1) : p[k] = s[k]
    BY <1>1
  <1>3. q \in Seq(S) /\ Len(q) = n /\ \A k \in 1..n : q[k] = s[k]
    BY <1>1
  <1> HIDE DEF p, q
  <1>4. t \in Seq(S) /\ Len(t) = n /\ t[n] = s[n] /\ \A k \in 1..(n - 1) : t[k] = p[k]
    BY <1>1, <1>2
  <1> HIDE DEF t
  <1>5. \A k \in 1..n : t[k] = q[k]
    <2> TAKE k \in 1..n
    <2>1. k \in 1..(n - 1) \/ k = n
      OBVIOUS
    <2> QED BY <1>2, <1>3, <1>4, <2>1
  <1>6. t = q
    BY <1>3, <1>4, <1>5, SeqEqual
  <1> QED BY <1>2, <1>6 DEF t, p, q

=============================================================================
