----------------------------- MODULE OrderLemmas -----------------------------
(***************************************************************************)
(* Facts about finite sets, sequences put in order and folds, on which the *)
(* proofs about the lists of the dashboard rest.  Each is an induction; an *)
(* induction is done here by a set of counterexamples, of which there is   *)
(* a least one.                                                            *)
(***************************************************************************)
EXTENDS SequencesExt, FiniteSetTheorems, TLAPS

(* Of a set of subsets of a finite set, some member has no other below it. *)
LEMMA SomeLeast ==
  ASSUME NEW D, IsFiniteSet(D), NEW C \in SUBSET SUBSET D, C # {}
  PROVE  \E T \in C : \A U \in C : U \subseteq T => U = T
<1>1. FiniteSubsetsOf(D) = SUBSET D
  BY FS_FiniteSubsetsOfFinite
<1>2. IsWellFoundedOn(StrictSubsetOrdering(D), SUBSET D)
  BY <1>1, FS_StrictSubsetOrderingWellFounded
<1>3. \E T \in C : \A U \in C : ~(<<U, T>> \in StrictSubsetOrdering(D))
  BY <1>2, WFMin
<1> QED BY <1>3 DEF StrictSubsetOrdering

(* A finite set that is not empty has a member of the greatest key.        *)
LEMMA SomeGreatest ==
  ASSUME NEW S, IsFiniteSet(S), S # {}, NEW k \in [S -> Int]
  PROVE  \E x \in S : \A y \in S : k[y] <= k[x]
<1> DEFINE Top(T) == \E x \in T : \A y \in T : k[y] <= k[x]
           C == {T \in SUBSET S : T # {} /\ ~Top(T)}
<1> SUFFICES C = {}
  BY Zenon
<1>1. SUFFICES ASSUME C # {} PROVE FALSE
  OBVIOUS
<1>2. PICK T \in C : \A U \in C : U \subseteq T => U = T
  <2>1. C \in SUBSET SUBSET S
    OBVIOUS
  <2> HIDE DEF C
  <2> QED BY <1>1, <2>1, SomeLeast
<1>3. PICK x \in T : TRUE
  OBVIOUS
<1>4. T \ {x} \notin C /\ T \ {x} \in SUBSET S
  BY <1>2, <1>3
<1>5. CASE T \ {x} = {}
  <2>1. T = {x} /\ k[x] \in Int
    BY <1>3, <1>5
  <2> QED BY <1>2, <2>1
<1>6. CASE T \ {x} # {}
  <2>1. PICK z \in T \ {x} : \A y \in T \ {x} : k[y] <= k[z]
    BY <1>4, <1>6
  <2>2. k[x] \in Int /\ k[z] \in Int /\ \A y \in T : k[y] \in Int
    BY <1>2, <1>3
  <2>3. CASE k[x] <= k[z]
    <3>1. Top(T)
      BY <2>1, <2>3
    <3> QED BY <3>1, <1>2
  <2>4. CASE ~(k[x] <= k[z])
    <3>1. \A y \in T : k[y] <= k[x]
      BY <2>1, <2>2, <2>4
    <3> QED BY <3>1, <1>2, <1>3
  <2> QED BY <2>3, <2>4
<1> QED BY <1>5, <1>6

(* A set of numbers that is not empty has a smallest.                      *)
LEMMA SomeSmallest ==
  ASSUME NEW C \in SUBSET Nat, C # {}
  PROVE  \E n \in C : \A m \in C : n <= m
<1>1. PICK b \in C : TRUE
  OBVIOUS
<1> DEFINE S == C \cap (0 .. b)
           k == [n \in S |-> -n]
<1>2. IsFiniteSet(S) /\ b \in S
  <2>1. b \in Nat /\ IsFiniteSet(0 .. b)
    BY <1>1, FS_Interval
  <2>2. IsFiniteSet(C \cap (0 .. b))
    BY <2>1, FS_Intersection
  <2>3. b \in C \cap (0 .. b)
    BY <1>1, <2>1
  <2> QED BY <2>2, <2>3
<1>3. k \in [S -> Int]
  OBVIOUS
<1>4. PICK n \in S : \A m \in S : k[m] <= k[n]
  <2> HIDE DEF S, k
  <2> QED BY <1>2, <1>3, SomeGreatest
<1>5. \A m \in S : n <= m
  BY <1>4
<1>6. \A m \in C : n <= m
  BY <1>1, <1>5
<1> QED BY <1>6

-----------------------------------------------------------------------------
(* Sequences in order.                                                     *)

InOrder(s, k) == \A i, j \in DOMAIN s : i < j => k[s[i]] <= k[s[j]]

LEMMA SeqsOfSet ==
  ASSUME NEW S, IsFiniteSet(S), NEW s \in SetToSeqs(S)
  PROVE  /\ Cardinality(S) \in Nat
         /\ s \in Seq(S) /\ Len(s) = Cardinality(S) /\ DOMAIN s = 1 .. Cardinality(S)
         /\ \A i, j \in DOMAIN s : s[i] = s[j] => i = j
         /\ \A x \in S : \E i \in DOMAIN s : s[i] = x
<1> DEFINE n == Cardinality(S)
<1>1. n \in Nat
  BY FS_CardinalityType
<1>2. s \in [1 .. n -> S] /\ \A i, j \in 1 .. n : i # j => s[i] # s[j]
  BY DEF SetToSeqs
<1>3. s \in Seq(S) /\ Len(s) = n /\ DOMAIN s = 1 .. n
  BY <1>1, <1>2
<1>4. s \in Injection(1 .. n, S)
  BY <1>2 DEF Injection, IsInjective
<1>5. Cardinality(1 .. n) = n
  BY <1>1, FS_Interval
<1>6. s \in Surjection(1 .. n, S)
  <2> HIDE DEF n
  <2> QED BY <1>1, <1>4, <1>5, FS_Injection DEF n
<1> QED BY <1>1, <1>2, <1>3, <1>6 DEF Surjection

(* A finite set can be put in order by any key.                            *)
LEMMA SomeOrder ==
  ASSUME NEW S, IsFiniteSet(S), NEW k \in [S -> Int]
  PROVE  \E s \in SetToSeqs(S) : InOrder(s, k)
<1> DEFINE Ordered(T) == \E s \in SetToSeqs(T) : InOrder(s, k)
           C == {T \in SUBSET S : ~Ordered(T)}
<1> SUFFICES C = {}
  OBVIOUS
<1>1. SUFFICES ASSUME C # {} PROVE FALSE
  OBVIOUS
<1>2. PICK T \in C : \A U \in C : U \subseteq T => U = T
  <2>1. C \in SUBSET SUBSET S
    OBVIOUS
  <2> HIDE DEF C
  <2> QED BY <1>1, <2>1, SomeLeast
<1>3. IsFiniteSet(T)
  BY <1>2, FS_Subset
<1>4. CASE T = {}
  <2>1. Cardinality(T) = 0
    BY <1>4, FS_EmptySet
  <2>2. <<>> \in SetToSeqs(T)
    BY <2>1 DEF SetToSeqs
  <2>3. InOrder(<<>>, k)
    BY DEF InOrder
  <2> QED BY <1>2, <2>2, <2>3
<1>5. CASE T # {}
  <2> DEFINE kT == [x \in T |-> k[x]]
  <2>1. kT \in [T -> Int]
    OBVIOUS
  <2>2. PICK x \in T : \A y \in T : kT[y] <= kT[x]
    <3> HIDE DEF kT
    <3> QED BY <1>3, <1>5, <2>1, SomeGreatest
  <2> DEFINE U == T \ {x}
             n == Cardinality(U)
  <2>3. U \in SUBSET S /\ U \notin C
    BY <1>2, <2>2
  <2>4. PICK s \in SetToSeqs(U) : InOrder(s, k)
    BY <2>3
  <2>5. IsFiniteSet(U) /\ n \in Nat /\ Cardinality(T) = n + 1
    <3>1. IsFiniteSet(U) /\ n = Cardinality(T) - 1
      BY <1>3, <2>2, FS_RemoveElement
    <3>2. n \in Nat /\ Cardinality(T) \in Nat
      BY <1>3, <3>1, FS_CardinalityType
    <3> HIDE DEF n, U
    <3> QED BY <3>1, <3>2
  <2>6. /\ n \in Nat /\ s \in Seq(U) /\ Len(s) = n /\ DOMAIN s = 1 .. n
        /\ \A i, j \in DOMAIN s : s[i] = s[j] => i = j
    <3> HIDE DEF U, n
    <3> QED BY <2>4, <2>5, SeqsOfSet DEF n
  <2> DEFINE t == Append(s, x)
  <2> HIDE DEF n
  <2>7. /\ t \in [1 .. n + 1 -> T] /\ DOMAIN t = 1 .. n + 1 /\ t[n + 1] = x
        /\ \A i \in 1 .. n : t[i] = s[i] /\ s[i] \in U
    <3>1. t \in Seq(T) /\ Len(t) = n + 1
      BY <2>2, <2>6
    <3>2. t[n + 1] = x /\ \A i \in 1 .. n : t[i] = s[i] /\ s[i] \in U
      BY <2>6
    <3> HIDE DEF t
    <3> QED BY <2>6, <3>1, <3>2
  <2> HIDE DEF t
  <2>8. \A i, j \in 1 .. n + 1 : i # j => t[i] # t[j]
    <3> SUFFICES ASSUME NEW i \in 1 .. n + 1, NEW j \in 1 .. n + 1, i # j
                 PROVE  t[i] # t[j]
      OBVIOUS
    <3>1. CASE i \in 1 .. n /\ j \in 1 .. n
      BY <2>6, <2>7, <3>1
    <3>2. CASE i \in 1 .. n /\ j = n + 1
      BY <2>7, <3>2
    <3>3. CASE i = n + 1 /\ j \in 1 .. n
      BY <2>7, <3>3
    <3> QED BY <2>6, <3>1, <3>2, <3>3
  <2>9. t \in SetToSeqs(T)
    BY <2>5, <2>7, <2>8 DEF SetToSeqs
  <2>10. \A i, j \in DOMAIN t : i < j => k[t[i]] <= k[t[j]]
    <3> SUFFICES ASSUME NEW i \in DOMAIN t, NEW j \in DOMAIN t, i < j
                 PROVE  k[t[i]] <= k[t[j]]
      OBVIOUS
    <3>1. i \in 1 .. n
      BY <2>6, <2>7
    <3>2. CASE j = n + 1
      <4>1. t[i] \in U /\ t[j] = x
        BY <2>7, <3>1, <3>2
      <4>2. kT[t[i]] = k[t[i]] /\ kT[x] = k[x]
        BY <2>2, <4>1
      <4> QED BY <2>2, <4>1, <4>2
    <3>3. CASE j # n + 1
      <4>1. j \in 1 .. n
        BY <2>6, <2>7, <3>3
      <4>2. t[i] = s[i] /\ t[j] = s[j]
        BY <2>7, <3>1, <4>1
      <4>3. i \in DOMAIN s /\ j \in DOMAIN s
        BY <2>6, <3>1, <4>1
      <4>4. k[s[i]] <= k[s[j]]
        BY <2>4, <4>3 DEF InOrder
      <4> QED BY <4>2, <4>4
    <3> QED BY <3>2, <3>3
  <2> QED BY <1>2, <2>9, <2>10 DEF InOrder
<1> QED BY <1>4, <1>5

-----------------------------------------------------------------------------
(* Folds.                                                                  *)

(* A recursion on the subsets of a finite set has a solution: a value for  *)
(* each subset, of X, from that of the subset without the element chosen.  *)
Choice(c, D) == \A s \in SUBSET D : s # {} => c[s] \in s

FoldBy(h, D, X, base, step, c) ==
  /\ h \in [SUBSET D -> X]
  /\ \A s \in SUBSET D : h[s] = IF s = {} THEN base ELSE step[<<h[s \ {c[s]}], c[s]>>]

LEMMA SomeFold ==
  ASSUME NEW D, IsFiniteSet(D), NEW X, NEW base \in X, NEW step \in [X \X D -> X],
         NEW c, Choice(c, D)
  PROVE  \E h : FoldBy(h, D, X, base, step, c)
<1> USE DEF Choice
<1> DEFINE At(h, s) == IF s = {} THEN base ELSE step[<<h[s \ {c[s]}], c[s]>>]
           Upto(n) == \E h \in [SUBSET D -> X] :
                        \A s \in SUBSET D : Cardinality(s) <= n => h[s] = At(h, s)
           C == {n \in Nat : ~Upto(n)}
<1>1. \A s \in SUBSET D : /\ Cardinality(s) \in Nat /\ Cardinality(s) <= Cardinality(D)
                          /\ s # {} => Cardinality(s \ {c[s]}) = Cardinality(s) - 1
  <2> TAKE s \in SUBSET D
  <2>1. IsFiniteSet(s) /\ Cardinality(s) <= Cardinality(D)
    BY FS_Subset
  <2>2. Cardinality(s) \in Nat
    BY <2>1, FS_CardinalityType
  <2>3. s # {} => Cardinality(s \ {c[s]}) = Cardinality(s) - 1
    BY <2>1, FS_RemoveElement
  <2> QED BY <2>1, <2>2, <2>3
<1>2. \A h \in [SUBSET D -> X], s \in SUBSET D : At(h, s) \in X
  <2> TAKE h \in [SUBSET D -> X], s \in SUBSET D
  <2>1. CASE s # {}
    <3>1. c[s] \in D /\ s \ {c[s]} \in SUBSET D
      BY <2>1
    <3>2. <<h[s \ {c[s]}], c[s]>> \in X \X D
      BY <3>1
    <3> QED BY <2>1, <3>2
  <2> QED BY <2>1
<1>3. ASSUME NEW n \in Nat, NEW h \in [SUBSET D -> X],
             \A s \in SUBSET D : Cardinality(s) < n => h[s] = At(h, s)
      PROVE  Upto(n)
  <2> DEFINE g == [s \in SUBSET D |-> IF Cardinality(s) < n THEN h[s] ELSE At(h, s)]
  <2>1. g \in [SUBSET D -> X]
    <3> HIDE DEF At
    <3> QED BY <1>2
  <2>2. ASSUME NEW s \in SUBSET D, Cardinality(s) <= n PROVE g[s] = At(g, s)
    <3>1. g[s] = At(h, s)
      BY <1>3, <2>2
    <3>2. CASE s = {}
      BY <3>1, <3>2
    <3>3. CASE s # {}
      <4>1. s \ {c[s]} \in SUBSET D /\ Cardinality(s \ {c[s]}) < n
        BY <1>1, <2>2, <3>3
      <4>2. g[s \ {c[s]}] = h[s \ {c[s]}]
        BY <4>1
      <4> QED BY <3>1, <3>3, <4>2
    <3> QED BY <3>2, <3>3
  <2> HIDE DEF g, At
  <2> QED BY <2>1, <2>2
<1>4. C = {}
  <2>1. SUFFICES ASSUME C # {} PROVE FALSE
    OBVIOUS
  <2>2. PICK n \in C : \A m \in C : n <= m
    <3> HIDE DEF Upto
    <3>1. C \in SUBSET Nat
      OBVIOUS
    <3> HIDE DEF C
    <3> QED BY <2>1, <3>1, SomeSmallest
  <2>3. CASE n = 0
    <3>1. [s \in SUBSET D |-> base] \in [SUBSET D -> X]
      OBVIOUS
    <3>2. \A s \in SUBSET D : ~(Cardinality(s) < n)
      <4> HIDE DEF C, Upto, At
      <4> TAKE s \in SUBSET D
      <4>1. Cardinality(s) \in Nat
        BY <1>1
      <4> QED BY <2>3, <4>1
    <3>3. Upto(n)
      <4> HIDE DEF Upto, At
      <4> QED BY <1>3, <2>3, <3>1, <3>2
    <3> HIDE DEF Upto
    <3> QED BY <2>2, <3>3
  <2>4. CASE n # 0
    <3> HIDE DEF Upto
    <3>1. n \in Nat /\ n - 1 \in Nat /\ ~Upto(n)
      BY <2>2, <2>4
    <3>2. Upto(n - 1)
      <4>1. n - 1 \notin C
        <5> HIDE DEF C
        <5> QED BY <2>2, <3>1
      <4> QED BY <3>1, <4>1
    <3> USE DEF Upto
    <3>3. PICK h \in [SUBSET D -> X] : \A s \in SUBSET D : Cardinality(s) <= n - 1 => h[s] = At(h, s)
      <4> HIDE DEF At
      <4> QED BY <3>2
    <3> HIDE DEF Upto, At, C
    <3>4. \A s \in SUBSET D : Cardinality(s) < n => h[s] = At(h, s)
      <4> TAKE s \in SUBSET D
      <4>1. Cardinality(s) \in Nat
        BY <1>1
      <4>2. Cardinality(s) < n => Cardinality(s) <= n - 1
        BY <3>1, <4>1
      <4> QED BY <3>3, <4>2
    <3> QED BY <1>3, <3>1, <3>4
  <2> QED BY <2>3, <2>4
<1>5. Cardinality(D) \in Nat
  BY FS_CardinalityType
<1>6. Upto(Cardinality(D))
  <2> HIDE DEF Upto
  <2> QED BY <1>4, <1>5
<1>7. PICK h \in [SUBSET D -> X] :
        \A s \in SUBSET D : Cardinality(s) <= Cardinality(D) => h[s] = At(h, s)
  <2> HIDE DEF At
  <2> QED BY <1>6
<1>8. \A s \in SUBSET D : h[s] = At(h, s)
  <2> HIDE DEF At
  <2> QED BY <1>1, <1>7
<1> QED BY <1>8 DEF FoldBy

(* A property that a loop starts with and keeps holds throughout.          *)
LEMMA Throughout ==
  ASSUME NEW m \in Nat, NEW P, 0 \in P, \A k \in 0 .. m : k < m /\ k \in P => k + 1 \in P
  PROVE  \A k \in 0 .. m : k \in P
<1> DEFINE C == {k \in 0 .. m : k \notin P}
<1>1. SUFFICES ASSUME C # {} PROVE FALSE
  OBVIOUS
<1>2. PICK n \in C : \A k \in C : n <= k
  <2>1. C \in SUBSET Nat
    OBVIOUS
  <2> HIDE DEF C
  <2> QED BY <1>1, <2>1, SomeSmallest
<1>3. n - 1 \in 0 .. m /\ n - 1 < m /\ n - 1 \notin C
  BY <1>2
<1> QED BY <1>2, <1>3

LEMMA LastOfInterval ==
  ASSUME NEW k \in Nat, k # 0
  PROVE  Max(1 .. k) = k /\ (1 .. k) \ {k} = 1 .. (k - 1) /\ 1 .. k # {}
BY DEF Max

(* What FoldLeft computes: a value for each set of the first indices.      *)
LoopBy(h, n, X, base, step) ==
  \A s \in SUBSET (1 .. n) :
    /\ h[s] \in X
    /\ s = {} => h[s] = base
    /\ s # {} => /\ Max(s) \in 1 .. n /\ s \ {Max(s)} \in SUBSET (1 .. n)
                 /\ h[s] = step[<<h[s \ {Max(s)}], Max(s)>>]

LEMMA SomeLoop ==
  ASSUME NEW n \in Nat, NEW X, NEW base \in X, NEW step \in [X \X (1 .. n) -> X]
  PROVE  \E h : h \in [SUBSET (1 .. n) -> X] /\ LoopBy(h, n, X, base, step)
<1> DEFINE D == 1 .. n
           c == [s \in SUBSET D |-> Max(s)]
<1>1. IsFiniteSet(D)
  BY FS_Interval
<1>2. ASSUME NEW s \in SUBSET D, s # {} PROVE c[s] \in s
  <2> DEFINE k == [x \in s |-> x]
  <2>1. k \in [s -> Int] /\ IsFiniteSet(s)
    <3>1. IsFiniteSet(s)
      <4> HIDE DEF D
      <4> QED BY <1>1, FS_Subset
    <3>2. \A x \in s : x \in Int
      BY <1>2
    <3> QED BY <3>1, <3>2
  <2>2. PICK x \in s : \A y \in s : k[y] <= k[x]
    <3> HIDE DEF k
    <3> QED BY <1>2, <2>1, SomeGreatest
  <2>3. x \in s /\ \A y \in s : x >= y
    <3>1. \A y \in s : y <= x
      BY <2>2
    <3> QED BY <1>2, <3>1
  <2> HIDE DEF D
  <2>4. Max(s) \in s
    BY <2>3, Zenon DEF Max
  <2> QED BY <2>4
<1>3. PICK h : FoldBy(h, D, X, base, step, c)
  <2> HIDE DEF D, c
  <2>1. Choice(c, D)
    BY <1>2 DEF Choice
  <2>2. step \in [X \X D -> X]
    BY DEF D
  <2> QED BY <1>1, <2>1, <2>2, SomeFold
<1>4. ASSUME NEW s \in SUBSET D
      PROVE  /\ h[s] \in X
             /\ s = {} => h[s] = base
             /\ s # {} => /\ Max(s) \in D /\ s \ {Max(s)} \in SUBSET D
                          /\ h[s] = step[<<h[s \ {Max(s)}], Max(s)>>]
  <2>1. c[s] = Max(s) /\ (s # {} => Max(s) \in s)
    BY <1>2
  <2> HIDE DEF D, c
  <2> QED BY <1>3, <2>1 DEF FoldBy
<1>5. h \in [SUBSET D -> X]
  BY <1>3 DEF FoldBy
<1> QED BY <1>4, <1>5 DEF LoopBy

LEMMA ReplacedItem ==
  ASSUME NEW S, NEW x \in Seq(S), NEW i \in DOMAIN x, NEW v \in S, NEW y, y = [x EXCEPT ![i] = v]
  PROVE  /\ y \in Seq(S) /\ Len(y) = Len(x) /\ y[i] = v
         /\ \A j \in DOMAIN x : j # i => y[j] = x[j]
<1>1. Len(x) \in Nat /\ DOMAIN x = 1 .. Len(x) /\ \A j \in 1 .. Len(x) : x[j] \in S
  OBVIOUS
<1>2. y \in [1 .. Len(x) -> S]
  BY <1>1
<1>3. y \in Seq(S) /\ Len(y) = Len(x)
  BY <1>1, <1>2
<1> QED BY <1>1, <1>3

-----------------------------------------------------------------------------
(* Sums.                                                                   *)

(* A finite set, counted by a key of its members: the counts add up.       *)
LEMMA CountsAddUp ==
  ASSUME NEW S, IsFiniteSet(S), NEW D, IsFiniteSet(D), NEW k \in [S -> D],
         NEW f, f = [d \in D |-> Cardinality({i \in S : k[i] = d})]
  PROVE  SumFunction(f) = Cardinality(S)
<1> DEFINE In(s) == {i \in S : k[i] \in s}
           Of(d) == {i \in S : k[i] = d}
           h == [s \in SUBSET D |-> Cardinality(In(s))]
           c(s) == CHOOSE x \in s : TRUE
           Is(g) == g = [s \in SUBSET D |-> IF s = {} THEN 0 ELSE f[c(s)] + g[s \ {c(s)}]]
           F == CHOOSE g : Is(g)
<1>1. \A s : IsFiniteSet(In(s)) /\ Cardinality(In(s)) \in Nat
  <2> TAKE s
  <2>1. In(s) \in SUBSET S
    OBVIOUS
  <2> QED BY <2>1, FS_Subset, FS_CardinalityType
<1>2. \A d : IsFiniteSet(Of(d)) /\ Cardinality(Of(d)) \in Nat
  <2> TAKE d
  <2>1. Of(d) \in SUBSET S
    OBVIOUS
  <2> QED BY <2>1, FS_Subset, FS_CardinalityType
<1>3. ASSUME NEW s \in SUBSET D, s # {}
      PROVE  c(s) \in s /\ c(s) \in D /\ s \ {c(s)} \in SUBSET D /\ s \ {c(s)} # s
  BY <1>3
<1>4. ASSUME NEW s \in SUBSET D
      PROVE  h[s] = IF s = {} THEN 0 ELSE f[c(s)] + h[s \ {c(s)}]
  <2>1. CASE s = {}
    <3>1. In(s) = {} /\ h[s] = Cardinality(In(s))
      BY <2>1
    <3> HIDE DEF In, h
    <3> QED BY <2>1, <3>1, FS_EmptySet
  <2>2. CASE s # {}
    <3> DEFINE x == c(s)
               t == s \ {x}
    <3>1. x \in s /\ x \in D /\ t \in SUBSET D
      BY <1>3, <2>2
    <3>2. In(s) = Of(x) \cup In(t) /\ Of(x) \cap In(t) = {}
      <4> HIDE DEF x
      <4> QED BY <3>1
    <3>3. h[s] = Cardinality(In(s)) /\ h[t] = Cardinality(In(t)) /\ f[x] = Cardinality(Of(x))
      BY <3>1
    <3> HIDE DEF x, t, In, Of, h
    <3>4. Cardinality(In(s)) = Cardinality(Of(x)) + Cardinality(In(t))
      <4>1. Cardinality(Of(x) \cap In(t)) = 0
        BY <3>2, FS_EmptySet
      <4>2. Cardinality(Of(x) \cup In(t)) =
              Cardinality(Of(x)) + Cardinality(In(t)) - Cardinality(Of(x) \cap In(t))
        BY <1>1, <1>2, FS_Union
      <4> QED BY <1>1, <1>2, <3>2, <4>1, <4>2
    <3> QED BY <2>2, <3>3, <3>4 DEF x, t
  <2> QED BY <2>1, <2>2
<1>5. Is(h)
  <2>1. h = [s \in SUBSET D |-> h[s]]
    OBVIOUS
  <2> HIDE DEF h, c, In
  <2> QED BY <1>4, <2>1
<1>6. Is(F)
  <2> HIDE DEF Is
  <2> QED BY <1>5
<1>7. SumFunction(f) = F[D]
  <2>1. DOMAIN f = D
    OBVIOUS
  <2> QED BY <2>1 DEF SumFunction, SumFunctionOnSet, FoldFunctionOnSet, MapThenFoldSet
<1> HIDE DEF F
<1>8. ASSUME NEW s \in SUBSET D
      PROVE  F[s] = IF s = {} THEN 0 ELSE f[c(s)] + F[s \ {c(s)}]
  BY <1>6
<1>9. \A s \in SUBSET D : F[s] = h[s]
  <2> DEFINE C == {s \in SUBSET D : F[s] # h[s]}
  <2>1. SUFFICES ASSUME C # {} PROVE FALSE
    BY Zenon
  <2>2. PICK s \in C : \A u \in C : u \subseteq s => u = s
    <3>1. C \in SUBSET SUBSET D
      OBVIOUS
    <3> HIDE DEF C
    <3> QED BY <2>1, <3>1, SomeLeast
  <2> HIDE DEF h, c
  <2>3. s \in SUBSET D /\ F[s] # h[s]
    BY <2>2
  <2>4. CASE s = {}
    BY <1>4, <1>8, <2>3, <2>4
  <2>5. CASE s # {}
    <3>1. s \ {c(s)} \in SUBSET D /\ s \ {c(s)} # s /\ s \ {c(s)} \subseteq s
      BY <1>3, <2>3, <2>5
    <3>2. F[s \ {c(s)}] = h[s \ {c(s)}]
      BY <2>2, <3>1
    <3>3. F[s] = f[c(s)] + F[s \ {c(s)}] /\ h[s] = f[c(s)] + h[s \ {c(s)}]
      BY <1>4, <1>8, <2>3, <2>5
    <3> QED BY <2>3, <3>2, <3>3
  <2> QED BY <2>4, <2>5
<1>10. h[D] = Cardinality(S)
  <2>1. In(D) = S
    OBVIOUS
  <2> QED BY <2>1
<1> HIDE DEF h
<1> QED BY <1>7, <1>9, <1>10

Appends(x, y, v) == x \o Append(y, v) = Append(x \o y, v) /\ x \o <<>> = x

LEMMA AppendedAfter ==
  ASSUME NEW S, NEW x \in Seq(S), NEW y \in Seq(S), NEW v \in S
  PROVE  Appends(x, y, v)
<1>1. /\ Append(y, v) \in Seq(S) /\ Len(Append(y, v)) = Len(y) + 1
      /\ \A i \in 1 .. Len(y) + 1 : Append(y, v)[i] = IF i <= Len(y) THEN y[i] ELSE v
  OBVIOUS
<1>2. x \o y \in Seq(S) /\ Len(x \o y) = Len(x) + Len(y) /\ Len(x) \in Nat /\ Len(y) \in Nat
  OBVIOUS
<1> DEFINE a == x \o Append(y, v)
           b == Append(x \o y, v)
<1>3. a \in Seq(S) /\ b \in Seq(S) /\ Len(a) = Len(b)
  BY <1>1, <1>2
<1>4. ASSUME NEW i \in 1 .. Len(x) + Len(y) + 1 PROVE a[i] = b[i]
  <2>1. CASE i <= Len(x)
    BY <1>1, <1>2, <2>1
  <2>2. CASE Len(x) < i /\ i <= Len(x) + Len(y)
    BY <1>1, <1>2, <2>2
  <2>3. CASE i = Len(x) + Len(y) + 1
    BY <1>1, <1>2, <2>3
  <2> QED BY <1>2, <2>1, <2>2, <2>3
<1>5. Len(a) = Len(x) + Len(y) + 1
  BY <1>1, <1>2
<1> HIDE DEF a, b
<1>6. a = b
  <2>1. a = [i \in 1 .. Len(a) |-> a[i]] /\ b = [i \in 1 .. Len(b) |-> b[i]]
    BY <1>3
  <2> QED BY <1>3, <1>4, <1>5, <2>1
<1>7. x \o <<>> = x
  OBVIOUS
<1> QED BY <1>6, <1>7 DEF Appends, a, b

LEMMA NextPrefix ==
  ASSUME NEW S, NEW x \in Seq(S), NEW k \in Nat, k < Len(x)
  PROVE  SubSeq(x, 1, k + 1) = Append(SubSeq(x, 1, k), x[k + 1]) /\ x[k + 1] \in S
OBVIOUS

LEMMA AppendedItem ==
  ASSUME NEW S, NEW x \in Seq(S), NEW v \in S
  PROVE  LET y == Append(x, v) IN
         /\ y \in Seq(S) /\ Len(y) = Len(x) + 1 /\ DOMAIN y = 1 .. Len(x) + 1
         /\ y[Len(x) + 1] = v /\ \A j \in 1 .. Len(x) : y[j] = x[j]
OBVIOUS
=============================================================================
