-------------------------- MODULE NodeUsageProofs --------------------------
(***************************************************************************)
(* Theorems of NodeUsage, for every finite set of users, every bound and   *)
(* every choice of next plans.  Some hold whatever happens; those about a  *)
(* sample being taken once hold as long as no batch stays without an       *)
(* acknowledgement for longer than processed rows are kept (~Outage).      *)
(***************************************************************************)
EXTENDS NodeUsageLedger, FiniteSetTheorems, TLAPS

-----------------------------------------------------------------------------
(* Sums over finite sets                                                   *)

(* A collection of finite sets has a smallest one: what is proved by       *)
(* induction on finite sets below takes a smallest set it fails for.       *)
LEMMA SmallestSet ==
  ASSUME NEW C, C # {}, \A T \in C : IsFiniteSet(T)
  PROVE  \E T \in C : \A U \in C : U \subseteq T => U = T
<1> DEFINE D == UNION C
           F == FiniteSubsetsOf(D)
           R == StrictSubsetOrdering(D)
<1>1. IsWellFoundedOn(R, F)
  BY FS_StrictSubsetOrderingWellFounded
<1>2. C \subseteq F
  BY DEF FiniteSubsetsOf
<1>3. PICK T \in C : \A U \in C : ~(<<U, T>> \in R)
  <2> HIDE DEF F, R
  <2>1. QED
    BY <1>1, <1>2, WFMin
<1>4. \A U \in C : U \subseteq T => U = T
  BY <1>3 DEF StrictSubsetOrdering
<1>5. QED
  BY <1>4

(* The element a sum takes out of a set first.                             *)
Pick(S) == CHOOSE x \in S : TRUE

(* g holds the sums of f over the subsets of D.                            *)
Sums(g, f, D) == g = [T \in SUBSET D |-> IF T = {} THEN 0 ELSE f[Pick(T)] + g[T \ {Pick(T)}]]

(* A sum is the last entry of a table of sums.                             *)
LEMMA SumDef ==
  ASSUME NEW f, NEW S PROVE SumFunctionOnSet(f, S) = (CHOOSE g : Sums(g, f, S))[S]
BY DEF SumFunctionOnSet, FoldFunctionOnSet, MapThenFoldSet, Sums, Pick

(* It is an element of the set.                                            *)
LEMMA PickIn ==
  ASSUME NEW S, S # {} PROVE Pick(S) \in S /\ S \ {Pick(S)} \subseteq S /\ S \ {Pick(S)} # S
BY DEF Pick

(* Two tables agree where both have an entry.                              *)
LEMMA SumsAgree ==
  ASSUME NEW f, NEW S, NEW T, NEW g, NEW h, Sums(g, f, S), Sums(h, f, T),
         NEW U, U \subseteq S, U \subseteq T, IsFiniteSet(U)
  PROVE  g[U] = h[U]
<1> DEFINE C == {V \in SUBSET U : g[V] # h[V]}
<1> SUFFICES ASSUME C # {} PROVE FALSE
  OBVIOUS
<1>1. PICK V \in C : \A W \in C : W \subseteq V => W = V
  <2>1. \A V \in C : IsFiniteSet(V)
    BY FS_Subset
  <2> HIDE DEF C
  <2>2. QED
    BY <2>1, SmallestSet
<1>2. V # {}
  BY DEF Sums
<1>3. g[V \ {Pick(V)}] = h[V \ {Pick(V)}]
  BY <1>1, <1>2, PickIn
<1>4. g[V] = f[Pick(V)] + g[V \ {Pick(V)}] /\ h[V] = f[Pick(V)] + h[V \ {Pick(V)}]
  BY <1>2 DEF Sums
<1>5. QED
  BY <1>3, <1>4

(* Every finite set has a table: the one of a set is made of the tables of *)
(* its smaller subsets.                                                    *)
LEMMA SumsExist ==
  ASSUME NEW f, NEW S, IsFiniteSet(S) PROVE \E g : Sums(g, f, S)
<1> DEFINE C == {T \in SUBSET S : ~ \E g : Sums(g, f, T)}
<1> SUFFICES ASSUME C # {} PROVE FALSE
  OBVIOUS
<1>1. PICK T \in C : \A W \in C : W \subseteq T => W = T
  <2>1. \A V \in C : IsFiniteSet(V)
    BY FS_Subset
  <2> HIDE DEF C
  <2>2. QED
    BY <2>1, SmallestSet
<1> DEFINE G(U) == CHOOSE g : Sums(g, f, U)
           Left(U) == U \ {Pick(U)}
           h == [U \in SUBSET T |-> IF U = {} THEN 0 ELSE f[Pick(U)] + G(Left(U))[Left(U)]]
<1>2. \A U \in SUBSET T : U # T => Sums(G(U), f, U)
  BY <1>1
<1>3. ASSUME NEW U \in SUBSET T, U # {} PROVE h[Left(U)] = G(Left(U))[Left(U)]
  <2>1. Left(U) \in SUBSET T /\ Left(U) # T /\ IsFiniteSet(Left(U))
    BY <1>3, PickIn, FS_Subset
  <2>2. Sums(G(Left(U)), f, Left(U))
    BY <1>2, <2>1
  <2>3. CASE Left(U) = {}
    BY <2>2, <2>3 DEF Sums
  <2>4. CASE Left(U) # {}
    <3> DEFINE L == Left(U)
    <3>1. Left(L) \in SUBSET T /\ Left(L) # T /\ Left(L) \subseteq L /\ IsFiniteSet(Left(L))
      BY <2>1, <2>4, PickIn, FS_Subset
    <3>2. Sums(G(Left(L)), f, Left(L))
      BY <1>2, <3>1
    <3> HIDE DEF G
    <3>3. h[L] = f[Pick(L)] + G(Left(L))[Left(L)]
      BY <2>1, <2>4
    <3>4. G(L)[L] = f[Pick(L)] + G(L)[Left(L)]
      BY <2>2, <2>4 DEF Sums
    <3>5. G(L)[Left(L)] = G(Left(L))[Left(L)]
      <4> HIDE DEF Left, L
      <4>0. Sums(G(L), f, L)
        BY <2>2 DEF L
      <4>1. QED
        BY <4>0, <3>1, <3>2, SumsAgree
    <3>6. QED
      BY <3>3, <3>4, <3>5
  <2>5. QED
    BY <2>3, <2>4
<1>4. Sums(h, f, T)
  <2> HIDE DEF G
  <2> SUFFICES ASSUME NEW U \in SUBSET T, U # {}
               PROVE  G(Left(U))[Left(U)] = h[U \ {Pick(U)}]
    BY DEF Sums
  <2>1. QED
    BY <1>3
<1>5. QED
  BY <1>4

(* The entries of a table are sums.                                        *)
LEMMA SumIs ==
  ASSUME NEW f, NEW S, IsFiniteSet(S), NEW g, Sums(g, f, S), NEW T \in SUBSET S
  PROVE  SumFunctionOnSet(f, T) = g[T]
<1>1. IsFiniteSet(T)
  BY FS_Subset
<1>2. Sums(CHOOSE h : Sums(h, f, T), f, T)
  BY <1>1, SumsExist
<1> DEFINE k == CHOOSE h : Sums(h, f, T)
<1>3. SumFunctionOnSet(f, T) = k[T]
  BY SumDef
<1> HIDE DEF k
<1>4. k[T] = g[T]
  BY <1>1, <1>2, SumsAgree DEF k
<1>5. QED
  BY <1>3, <1>4

(* The equation a sum is defined by.                                       *)
LEMMA SumStep ==
  ASSUME NEW f, NEW S, IsFiniteSet(S)
  PROVE  SumFunctionOnSet(f, S) = IF S = {} THEN 0 ELSE f[Pick(S)] + SumFunctionOnSet(f, S \ {Pick(S)})
<1>1. PICK g : Sums(g, f, S)
  BY SumsExist
<1>2. SumFunctionOnSet(f, S) = g[S] /\ (S # {} => SumFunctionOnSet(f, S \ {Pick(S)}) = g[S \ {Pick(S)}])
  BY <1>1, SumIs, PickIn
<1>3. g[S] = IF S = {} THEN 0 ELSE f[Pick(S)] + g[S \ {Pick(S)}]
  BY <1>1 DEF Sums
<1>4. QED
  BY <1>2, <1>3

(* Nothing adds up to zero.                                                *)
LEMMA SumEmpty ==
  ASSUME NEW f PROVE SumFunctionOnSet(f, {}) = 0
BY SumStep, FS_EmptySet

(* A sum is at most the largest value times the number of elements.        *)
LEMMA SumRange ==
  ASSUME NEW f, NEW S, IsFiniteSet(S), NEW m \in Nat, \A s \in S : f[s] \in 0..m
  PROVE  SumFunctionOnSet(f, S) \in Nat /\ SumFunctionOnSet(f, S) <= m * Cardinality(S)
<1> DEFINE Fine(T) == SumFunctionOnSet(f, T) \in Nat /\ SumFunctionOnSet(f, T) <= m * Cardinality(T)
           C == {T \in SUBSET S : ~Fine(T)}
<1> SUFFICES ASSUME C # {} PROVE FALSE
  OBVIOUS
<1>1. PICK T \in C : \A W \in C : W \subseteq T => W = T
  <2>1. \A V \in C : IsFiniteSet(V)
    BY FS_Subset
  <2> HIDE DEF C
  <2>2. QED
    BY <2>1, SmallestSet
<1>2. IsFiniteSet(T) /\ T \subseteq S /\ ~Fine(T)
  BY FS_Subset
<1>3. CASE T = {}
  <2>1. SumFunctionOnSet(f, T) = 0 /\ Cardinality(T) = 0
    BY <1>3, SumEmpty, FS_EmptySet
  <2>2. QED
    BY <1>2, <2>1
<1>4. CASE T # {}
  <2> DEFINE L == T \ {Pick(T)}
  <2>1. Pick(T) \in T /\ L \subseteq T /\ L # T
    BY <1>4, PickIn
  <2>2. Fine(L)
    <3> HIDE DEF Fine
    <3>1. QED
      BY <1>1, <1>2, <2>1
  <2>3. Cardinality(L) = Cardinality(T) - 1 /\ Cardinality(T) \in Nat /\ Cardinality(L) \in Nat
    BY <1>2, <2>1, FS_RemoveElement, FS_CardinalityType
  <2>4. SumFunctionOnSet(f, T) = f[Pick(T)] + SumFunctionOnSet(f, L) /\ f[Pick(T)] \in 0..m
    BY <1>2, <1>4, <2>1, SumStep
  <2>5. \A n \in Nat : m * (n + 1) = m * n + m /\ m * n \in Nat
    OBVIOUS
  <2>6. m * Cardinality(T) = m * Cardinality(L) + m
    <3>1. Cardinality(T) = Cardinality(L) + 1
      BY <2>3
    <3>2. QED
      BY <2>3, <2>5, <3>1
  <2> HIDE DEF L
  <2>7. Fine(T)
    <3> DEFINE a == m * Cardinality(L)
               b == SumFunctionOnSet(f, L)
    <3>1. a \in Nat /\ b \in Nat /\ b <= a
      BY <2>2, <2>3, <2>5
    <3> HIDE DEF a, b
    <3>2. f[Pick(T)] + b \in Nat /\ f[Pick(T)] + b <= a + m
      BY <2>4, <3>1
    <3>3. QED
      BY <2>4, <2>6, <3>2 DEF a, b
  <2>8. QED
    BY <1>2, <2>7
<1>5. QED
  BY <1>3, <1>4

(* A sum of naturals is one.                                               *)
LEMMA SumNat ==
  ASSUME NEW f, NEW S, IsFiniteSet(S), \A s \in S : f[s] \in Nat
  PROVE  SumFunctionOnSet(f, S) \in Nat
<1> DEFINE C == {T \in SUBSET S : SumFunctionOnSet(f, T) \notin Nat}
<1> SUFFICES ASSUME C # {} PROVE FALSE
  OBVIOUS
<1>1. PICK T \in C : \A W \in C : W \subseteq T => W = T
  <2>1. \A V \in C : IsFiniteSet(V)
    BY FS_Subset
  <2> HIDE DEF C
  <2>2. QED
    BY <2>1, SmallestSet
<1>2. IsFiniteSet(T) /\ T # {} /\ T \subseteq S
  <2>1. SumFunctionOnSet(f, {}) \in Nat
    BY SumEmpty
  <2>2. QED
    BY <2>1, FS_Subset
<1>3. Pick(T) \in T /\ SumFunctionOnSet(f, T \ {Pick(T)}) \in Nat
  BY <1>1, <1>2, PickIn
<1>4. QED
  BY <1>2, <1>3, SumStep

(* Functions that agree on a set have the same sum over it.                *)
LEMMA SumSame ==
  ASSUME NEW f, NEW g, NEW S, IsFiniteSet(S), \A s \in S : f[s] = g[s]
  PROVE  SumFunctionOnSet(f, S) = SumFunctionOnSet(g, S)
<1> DEFINE C == {T \in SUBSET S : SumFunctionOnSet(f, T) # SumFunctionOnSet(g, T)}
<1> SUFFICES ASSUME C # {} PROVE FALSE
  OBVIOUS
<1>1. PICK T \in C : \A W \in C : W \subseteq T => W = T
  <2>1. \A V \in C : IsFiniteSet(V)
    BY FS_Subset
  <2> HIDE DEF C
  <2>2. QED
    BY <2>1, SmallestSet
<1>2. IsFiniteSet(T) /\ T # {} /\ T \subseteq S
  BY FS_Subset, SumEmpty
<1>3. Pick(T) \in T /\ SumFunctionOnSet(f, T \ {Pick(T)}) = SumFunctionOnSet(g, T \ {Pick(T)})
  BY <1>1, <1>2, PickIn
<1>4. QED
  BY <1>2, <1>3, SumStep

(* Any element may be taken out first.                                     *)
LEMMA SumRemove ==
  ASSUME NEW f, NEW S, IsFiniteSet(S), \A s \in S : f[s] \in Nat, NEW x \in S
  PROVE  SumFunctionOnSet(f, S) = f[x] + SumFunctionOnSet(f, S \ {x})
<1> DEFINE C == {T \in SUBSET S : \E y \in T : SumFunctionOnSet(f, T) # f[y] + SumFunctionOnSet(f, T \ {y})}
<1> SUFFICES ASSUME C # {} PROVE FALSE
  OBVIOUS
<1>1. PICK T \in C : \A W \in C : W \subseteq T => W = T
  <2>1. \A V \in C : IsFiniteSet(V)
    BY FS_Subset
  <2> HIDE DEF C
  <2>2. QED
    BY <2>1, SmallestSet
<1>2. PICK y \in T : SumFunctionOnSet(f, T) # f[y] + SumFunctionOnSet(f, T \ {y})
  OBVIOUS
<1>3. IsFiniteSet(T) /\ T # {} /\ T \subseteq S
  BY <1>2, FS_Subset
<1> DEFINE p == Pick(T)
<1>4. p \in T /\ SumFunctionOnSet(f, T) = f[p] + SumFunctionOnSet(f, T \ {p})
  BY <1>3, PickIn, SumStep
<1> HIDE DEF p
<1>5. p # y
  BY <1>2, <1>4
<1>6. SumFunctionOnSet(f, T \ {p}) = f[y] + SumFunctionOnSet(f, (T \ {p}) \ {y})
  BY <1>1, <1>3, <1>4, <1>5
<1>7. SumFunctionOnSet(f, T \ {y}) = f[p] + SumFunctionOnSet(f, (T \ {y}) \ {p})
  BY <1>1, <1>3, <1>4, <1>5
<1>8. (T \ {p}) \ {y} = (T \ {y}) \ {p}
  OBVIOUS
<1>9. SumFunctionOnSet(f, (T \ {p}) \ {y}) \in Nat /\ f[p] \in Nat /\ f[y] \in Nat
  <2>1. IsFiniteSet((T \ {p}) \ {y}) /\ (T \ {p}) \ {y} \subseteq S
    BY <1>3, FS_Subset
  <2>2. QED
    BY <1>3, <1>4, <2>1, SumNat
<1>10. QED
  <2> DEFINE r == SumFunctionOnSet(f, (T \ {p}) \ {y})
  <2>1. SumFunctionOnSet(f, T) = f[p] + (f[y] + r) /\ SumFunctionOnSet(f, T \ {y}) = f[p] + r
    BY <1>4, <1>6, <1>7, <1>8
  <2>2. r \in Nat
    BY <1>9
  <2> HIDE DEF r
  <2>3. QED
    BY <1>2, <1>9, <2>1, <2>2

(* The sum over two disjoint sets is the sum of their sums.                *)
LEMMA SumUnion ==
  ASSUME NEW f, NEW A, NEW B, IsFiniteSet(A), IsFiniteSet(B), A \cap B = {},
         \A s \in A \cup B : f[s] \in Nat
  PROVE  SumFunctionOnSet(f, A \cup B) = SumFunctionOnSet(f, A) + SumFunctionOnSet(f, B)
<1> DEFINE C == {T \in SUBSET A : SumFunctionOnSet(f, T \cup B) # SumFunctionOnSet(f, T) + SumFunctionOnSet(f, B)}
<1> SUFFICES ASSUME C # {} PROVE FALSE
  OBVIOUS
<1>1. PICK T \in C : \A W \in C : W \subseteq T => W = T
  <2>1. \A V \in C : IsFiniteSet(V)
    BY FS_Subset
  <2> HIDE DEF C
  <2>2. QED
    BY <2>1, SmallestSet
<1>2. IsFiniteSet(T) /\ T \subseteq A /\ IsFiniteSet(T \cup B) /\ SumFunctionOnSet(f, B) \in Nat /\ SumFunctionOnSet(f, T) \in Nat
  BY FS_Subset, FS_Union, SumNat
<1>3. CASE T = {}
  <2>1. T \cup B = B /\ SumFunctionOnSet(f, T) = 0
    BY <1>3, SumEmpty
  <2>2. SumFunctionOnSet(f, T \cup B) # SumFunctionOnSet(f, T) + SumFunctionOnSet(f, B)
    OBVIOUS
  <2>3. SumFunctionOnSet(f, B) # 0 + SumFunctionOnSet(f, B)
    BY <2>1, <2>2, Zenon
  <2>4. QED
    BY <1>2, <2>3
<1>4. CASE T # {}
  <2>1. PICK x : x \in T
    BY <1>4
  <2>2. SumFunctionOnSet(f, T \cup B) = f[x] + SumFunctionOnSet(f, (T \cup B) \ {x})
    BY <1>2, <2>1, SumRemove
  <2>3. (T \cup B) \ {x} = (T \ {x}) \cup B
    BY <1>2, <2>1
  <2>4. SumFunctionOnSet(f, (T \ {x}) \cup B) = SumFunctionOnSet(f, T \ {x}) + SumFunctionOnSet(f, B)
    BY <1>1, <1>2, <2>1
  <2>5. SumFunctionOnSet(f, T) = f[x] + SumFunctionOnSet(f, T \ {x})
    BY <1>2, <2>1, SumRemove
  <2>6. SumFunctionOnSet(f, T \ {x}) \in Nat /\ f[x] \in Nat
    <3>1. IsFiniteSet(T \ {x})
      BY <1>2, FS_Subset
    <3>2. QED
      BY <1>2, <2>1, <3>1, SumNat
  <2>7. QED
    <3> DEFINE r == SumFunctionOnSet(f, T \ {x})
    <3>1. r \in Nat
      BY <2>6
    <3>2. SumFunctionOnSet(f, T \cup B) = f[x] + (r + SumFunctionOnSet(f, B)) /\ SumFunctionOnSet(f, T) = f[x] + r
      BY <2>2, <2>3, <2>4, <2>5
    <3> HIDE DEF r
    <3>3. QED
      BY <1>1, <1>2, <2>6, <3>1, <3>2
<1>5. QED
  BY <1>3, <1>4

(* The sum of two functions is the sum of their sums.                      *)
LEMMA SumAdd ==
  ASSUME NEW S, IsFiniteSet(S), NEW f, NEW g, NEW h,
         \A s \in S : f[s] \in Nat /\ g[s] \in Nat /\ h[s] = f[s] + g[s]
  PROVE  SumFunctionOnSet(h, S) = SumFunctionOnSet(f, S) + SumFunctionOnSet(g, S)
<1> DEFINE C == {T \in SUBSET S : SumFunctionOnSet(h, T) # SumFunctionOnSet(f, T) + SumFunctionOnSet(g, T)}
<1> SUFFICES ASSUME C # {} PROVE FALSE
  OBVIOUS
<1>1. PICK T \in C : \A W \in C : W \subseteq T => W = T
  <2>1. \A V \in C : IsFiniteSet(V)
    BY FS_Subset
  <2> HIDE DEF C
  <2>2. QED
    BY <2>1, SmallestSet
<1>2. IsFiniteSet(T) /\ T # {} /\ T \subseteq S
  <2>1. SumFunctionOnSet(f, {}) = 0 /\ SumFunctionOnSet(g, {}) = 0 /\ SumFunctionOnSet(h, {}) = 0
    BY SumEmpty
  <2>2. SumFunctionOnSet(h, {}) = SumFunctionOnSet(f, {}) + SumFunctionOnSet(g, {})
    BY <2>1
  <2>3. QED
    BY <2>2, FS_Subset
<1> DEFINE p == Pick(T)
           L == T \ {p}
<1>3. p \in S /\ L \subseteq T /\ L # T /\ IsFiniteSet(L)
  BY <1>2, PickIn, FS_Subset
<1>4. /\ SumFunctionOnSet(f, T) = f[p] + SumFunctionOnSet(f, L)
      /\ SumFunctionOnSet(g, T) = g[p] + SumFunctionOnSet(g, L)
      /\ SumFunctionOnSet(h, T) = h[p] + SumFunctionOnSet(h, L)
  BY <1>2, SumStep
<1>5. SumFunctionOnSet(f, L) \in Nat /\ SumFunctionOnSet(g, L) \in Nat
  BY <1>2, <1>3, SumNat
<1>6. SumFunctionOnSet(h, L) = SumFunctionOnSet(f, L) + SumFunctionOnSet(g, L)
  BY <1>1, <1>2, <1>3
<1> HIDE DEF p, L
<1>7. f[p] \in Nat /\ g[p] \in Nat /\ h[p] = f[p] + g[p]
  BY <1>3
<1>8. SumFunctionOnSet(h, T) = SumFunctionOnSet(f, T) + SumFunctionOnSet(g, T)
  BY <1>4, <1>5, <1>6, <1>7
<1>9. QED
  BY <1>8

(* A function raised on part of a set has its sum raised by as much.       *)
LEMMA SumChange ==
  ASSUME NEW S, IsFiniteSet(S), NEW C, C \subseteq S, NEW f, NEW g, NEW d,
         \A s \in S : f[s] \in Nat /\ d[s] \in Nat,
         \A s \in C : g[s] = f[s] + d[s], \A s \in S \ C : g[s] = f[s]
  PROVE  SumFunctionOnSet(g, S) = SumFunctionOnSet(f, S) + SumFunctionOnSet(d, C)
<1>1. IsFiniteSet(C) /\ IsFiniteSet(S \ C) /\ C \cup (S \ C) = S /\ C \cap (S \ C) = {}
  BY FS_Subset
<1>2. \A s \in S : g[s] \in Nat
  OBVIOUS
<1>3. /\ SumFunctionOnSet(g, S) = SumFunctionOnSet(g, C) + SumFunctionOnSet(g, S \ C)
      /\ SumFunctionOnSet(f, S) = SumFunctionOnSet(f, C) + SumFunctionOnSet(f, S \ C)
  <2>1. SumFunctionOnSet(g, C \cup (S \ C)) = SumFunctionOnSet(g, C) + SumFunctionOnSet(g, S \ C)
    BY <1>1, <1>2, SumUnion
  <2>2. SumFunctionOnSet(f, C \cup (S \ C)) = SumFunctionOnSet(f, C) + SumFunctionOnSet(f, S \ C)
    BY <1>1, SumUnion
  <2>3. QED
    BY <1>1, <2>1, <2>2
<1>4. SumFunctionOnSet(g, S \ C) = SumFunctionOnSet(f, S \ C)
  BY <1>1, SumSame
<1>5. SumFunctionOnSet(g, C) = SumFunctionOnSet(f, C) + SumFunctionOnSet(d, C)
  BY <1>1, SumAdd
<1>6. /\ SumFunctionOnSet(f, C) \in Nat /\ SumFunctionOnSet(d, C) \in Nat
      /\ SumFunctionOnSet(f, S \ C) \in Nat
  BY <1>1, SumNat
<1>7. QED
  BY <1>3, <1>4, <1>5, <1>6
-----------------------------------------------------------------------------
(* What holds whatever happens                                             *)

(* The types, the bounds on what a user is charged aside.                  *)
Types ==
  /\ made \in 0..MaxBatch /\ unacked \in 0..MaxBatch /\ held \in 0..MaxBatch
  /\ sample \in [Sample -> 0..MaxSample]
  /\ stored \in BOOLEAN
  /\ row \in [Sample -> RowState]
  /\ used \in [Users -> Nat] /\ logged \in [Users -> Nat] /\ lifetime \in Nat
  /\ status \in [Users -> {"on", "limited", "off"}]
  /\ plan \subseteq Users /\ forced \subseteq Users
  /\ taken \in [Sample -> Nat] /\ recorded \in [Sample -> Nat]
  /\ dropped \subseteq Sample
  /\ faults \in Nat

(* The batch in memory is the one the node would deliver again.            *)
OneBatch ==
  /\ held # 0 => held = unacked
  /\ stored => held # 0
  /\ unacked <= made

(* A processed row was taken, and nothing is known of a batch to come.     *)
RowTaken ==
  \A s \in Sample :
    /\ row[s] \in {"counted", "done"} => taken[s] > 0
    /\ s[1] > made => row[s] = "none" /\ taken[s] = 0

(* A batch about to be acknowledged is in the table or was taken.          *)
StoredIsKept ==
  \A s \in Sample : stored /\ s[1] = held /\ sample[s] > 0 => row[s] = "staged" \/ taken[s] > 0

Base == Types /\ OneBatch /\ RowTaken /\ StoredIsKept /\ ForgottenIsKept /\ LimitKept /\ AdminsAgree

(* A sample names a batch and a user.                                      *)
LEMMA SampleBatch ==
  ASSUME NEW s \in Sample PROVE s[1] \in 1..MaxBatch /\ s[2] \in Users /\ s[1] \in Nat
BY NodeUsageAssumption DEF Sample, Batch

(* A user has one sample in a batch at most.                               *)
LEMMA UserSamples ==
  ASSUME NEW S, S \subseteq Sample, NEW u \in Users
  PROVE  /\ IsFiniteSet({s \in S : s[2] = u})
         /\ Cardinality({s \in S : s[2] = u}) \in Nat
         /\ Cardinality({s \in S : s[2] = u}) <= MaxBatch
<1> DEFINE T == {s \in S : s[2] = u}
           B == Batch \X {u}
<1>1. IsFiniteSet(Batch) /\ Cardinality(Batch) = MaxBatch
  BY NodeUsageAssumption, FS_Interval DEF Batch
<1>2. IsFiniteSet({u}) /\ Cardinality({u}) = 1
  BY FS_Singleton
<1>3. IsFiniteSet(B) /\ Cardinality(B) = MaxBatch * 1
  BY <1>1, <1>2, FS_Product
<1>4. T \in SUBSET B
  BY DEF Sample
<1>5. IsFiniteSet(T) /\ Cardinality(T) <= Cardinality(B) /\ Cardinality(T) \in Nat
  BY <1>3, <1>4, FS_Subset, FS_CardinalityType
<1>6. MaxBatch * 1 = MaxBatch
  BY NodeUsageAssumption
<1>7. QED
  BY <1>3, <1>5, <1>6

(* The traffic of a user in a set of samples.                              *)
LEMMA UsageNat ==
  ASSUME sample \in [Sample -> 0..MaxSample], NEW S, S \subseteq Sample, NEW u \in Users
  PROVE  Usage(S, u) \in Nat /\ Usage(S, u) <= MaxBatch * MaxSample
<1> DEFINE T == {s \in S : s[2] = u}
           n == Cardinality(T)
<1>1. IsFiniteSet(T) /\ n \in Nat /\ n <= MaxBatch
  BY UserSamples
<1>2. \A s \in T : sample[s] \in 0..MaxSample
  OBVIOUS
<1>3. MaxSample \in Nat /\ MaxBatch \in Nat
  BY NodeUsageAssumption
<1>4. SumFunctionOnSet(sample, T) \in Nat /\ SumFunctionOnSet(sample, T) <= MaxSample * n
  <2> HIDE DEF T
  <2>1. QED
    BY <1>1, <1>2, <1>3, SumRange DEF n
<1>5. MaxSample * n <= MaxBatch * MaxSample
  <2>1. \A a, b, m \in Nat : a <= b => m * a <= b * m /\ m * a \in Nat /\ b * m \in Nat
    OBVIOUS
  <2> HIDE DEF n
  <2>2. QED
    BY <1>1, <1>3, <2>1
<1>6. MaxSample * n \in Nat /\ MaxBatch * MaxSample \in Nat
  <2>1. \A a, b \in Nat : a * b \in Nat
    OBVIOUS
  <2> HIDE DEF n
  <2>2. QED
    BY <1>1, <1>3, <2>1
<1>7. Usage(S, u) = SumFunctionOnSet(sample, T)
  BY DEF Usage
<1> HIDE DEF T, n
<1> DEFINE x == SumFunctionOnSet(sample, T)
           y == MaxSample * n
           z == MaxBatch * MaxSample
<1>8. x \in Nat /\ x <= y /\ y <= z /\ y \in Nat /\ z \in Nat
  BY <1>4, <1>5, <1>6
<1> HIDE DEF x, y, z
<1>9. x <= z
  BY <1>8
<1>10. QED
  BY <1>7, <1>8, <1>9 DEF x, z

(* Init establishes what holds whatever happens.                           *)
LEMMA InitBase == Init => Base
<1> SUFFICES ASSUME Init PROVE Base
  OBVIOUS
<1> USE NodeUsageAssumption, SampleBatch DEF Init
<1>1. Types
  <2>1. MaxBatch \in Nat /\ MaxSample \in Nat /\ Planned \subseteq Users
    OBVIOUS
  <2>2. sample \in [Sample -> 0..MaxSample] /\ row \in [Sample -> RowState]
    BY <2>1 DEF RowState
  <2>3. taken \in [Sample -> Nat] /\ recorded \in [Sample -> Nat] /\ dropped \subseteq Sample
    OBVIOUS
  <2>4. used \in [Users -> Nat] /\ logged \in [Users -> Nat] /\ lifetime \in Nat
    OBVIOUS
  <2>5. status \in [Users -> {"on", "limited", "off"}] /\ plan \subseteq Users /\ forced \subseteq Users
    OBVIOUS
  <2>6. made \in 0..MaxBatch /\ unacked \in 0..MaxBatch /\ held \in 0..MaxBatch
    BY <2>1
  <2>7. QED
    BY <2>2, <2>3, <2>4, <2>5, <2>6 DEF Types
<1>2. OneBatch
  BY DEF OneBatch
<1>3. RowTaken
  BY DEF RowTaken
<1>4. StoredIsKept /\ ForgottenIsKept
  BY DEF StoredIsKept, ForgottenIsKept
<1>5. LimitKept
  BY DEF LimitKept
<1>6. AdminsAgree
  <2> DEFINE f == [u \in Users |-> used[u] + logged[u]]
  <2>1. \A u \in Users : f[u] \in 0..0
    OBVIOUS
  <2>2. IsFiniteSet(Users) /\ Cardinality(Users) \in Nat
    BY FS_CardinalityType
  <2> HIDE DEF f
  <2>3. SumFunctionOnSet(f, Users) \in Nat /\ SumFunctionOnSet(f, Users) <= 0 * Cardinality(Users)
    BY <2>1, <2>2, SumRange
  <2>4. SumFunctionOnSet(f, Users) = 0
    BY <2>2, <2>3
  <2>5. QED
    BY <2>4 DEF AdminsAgree, f
<1>7. QED
  BY <1>1, <1>2, <1>3, <1>4, <1>5, <1>6 DEF Base

(* A delivery is of the batch that waits or of the next one.               *)
LEMMA DeliverBase ==
  ASSUME Base, NEW b \in Batch, Deliver(b), UNCHANGED <<row, taken>>
  PROVE  /\ made' \in 0..MaxBatch /\ unacked' \in 0..MaxBatch
         /\ sample' \in [Sample -> 0..MaxSample]
         /\ b = unacked' /\ unacked' <= made' /\ b # 0
         /\ RowTaken' /\ ForgottenIsKept'
         /\ \A s \in Sample : s[1] <= made => sample'[s] = sample[s]
         /\ \/ UNCHANGED node
            \/ unacked = 0 /\ \A s \in Sample : s[1] = b => row[s] = "none" /\ taken[s] = 0
<1> USE NodeUsageAssumption, SampleBatch DEF Base, Types, OneBatch
<1>1. CASE unacked # 0 /\ b = unacked /\ UNCHANGED node
  BY <1>1 DEF node, RowTaken, ForgottenIsKept, Batch
<1>2. ASSUME unacked = 0, made < MaxBatch, b = made + 1, made' = b, unacked' = b,
             NEW traffic \in [Users -> 0..MaxSample],
             sample' = [s \in Sample |-> IF s[1] = b THEN traffic[s[2]] ELSE sample[s]]
      PROVE  /\ made' \in 0..MaxBatch /\ unacked' \in 0..MaxBatch
             /\ sample' \in [Sample -> 0..MaxSample]
             /\ b = unacked' /\ unacked' <= made' /\ b # 0
             /\ RowTaken' /\ ForgottenIsKept'
             /\ \A s \in Sample : s[1] <= made => sample'[s] = sample[s]
             /\ \A s \in Sample : s[1] = b => row[s] = "none" /\ taken[s] = 0
  <2>1. made' \in 0..MaxBatch /\ unacked' \in 0..MaxBatch /\ b # 0
    BY <1>2
  <2>2. sample' \in [Sample -> 0..MaxSample]
    BY <1>2
  <2>3. \A s \in Sample : s[1] # b => sample'[s] = sample[s]
    BY <1>2, Zenon
  <2>4. \A s \in Sample : s[1] <= made => s[1] # b
    BY <1>2
  <2>5. RowTaken' /\ \A s \in Sample : s[1] = b => row[s] = "none" /\ taken[s] = 0
    BY <1>2 DEF RowTaken
  <2>6. ForgottenIsKept'
    <3> SUFFICES ASSUME NEW s \in Sample, s[1] <= made', s[1] # unacked', sample'[s] > 0
                 PROVE  row[s] = "staged" \/ taken[s] > 0
      BY DEF ForgottenIsKept
    <3>1. s[1] \in Nat /\ s[1] > 0 /\ made \in Nat
      <4>1. s[1] \in 1..MaxBatch /\ made \in 0..MaxBatch /\ MaxBatch \in Nat
        BY SampleBatch
      <4>2. QED
        BY <4>1
    <3>2. s[1] <= made + 1 /\ s[1] # made + 1 /\ s[1] # b
      BY <1>2
    <3>3. s[1] <= made
      <4>1. \A i, m \in Nat : i <= m + 1 /\ i # m + 1 => i <= m
        OBVIOUS
      <4>2. QED
        BY <3>1, <3>2, <4>1
    <3>4. s[1] # unacked /\ sample[s] > 0
      BY <1>2, <2>3, <3>1, <3>2
    <3>5. QED
      BY <3>3, <3>4 DEF ForgottenIsKept
  <2>7. QED
    BY <1>2, <2>1, <2>2, <2>3, <2>4, <2>5, <2>6
<1>3. QED
  BY <1>1, <1>2 DEF Deliver

(* Staging the batch in memory.                                            *)
LEMMA StagedBase ==
  ASSUME Base, held # 0, row' = Staged(held), UNCHANGED <<node, taken>>
  PROVE  /\ row' \in [Sample -> RowState]
         /\ RowTaken' /\ ForgottenIsKept'
         /\ \A s \in Sample : s[1] = held /\ sample[s] > 0 => row'[s] = "staged" \/ taken[s] > 0
<1> USE NodeUsageAssumption, SampleBatch DEF Base, Types, OneBatch, Staged, Stageable, node
<1>1. row' \in [Sample -> RowState]
  BY DEF RowState
<1>2. RowTaken'
  BY DEF RowTaken
<1>3. ForgottenIsKept'
  BY DEF ForgottenIsKept
<1>4. \A s \in Sample : s[1] = held /\ sample[s] > 0 => row'[s] = "staged" \/ taken[s] > 0
  BY DEF RowTaken, RowState
<1>5. QED
  BY <1>1, <1>2, <1>3, <1>4

(* Who is charged and stopped by a flush, and what his admin is charged.   *)
LEMMA ChargedUsers ==
  ASSUME Types, NEW S, S \subseteq Sample
  PROVE  /\ Charged(S) \subseteq Users /\ IsFiniteSet(Charged(S)) /\ Stopped(S) \subseteq Charged(S)
         /\ \A u \in Users : Usage(S, u) \in Nat /\ Total(S, u) \in Nat
                             /\ Total(S, u) = used[u] + Usage(S, u)
         /\ Credited(S) \in Nat
<1>1. Charged(S) \in SUBSET Users /\ Stopped(S) \subseteq Charged(S)
  BY DEF Charged, Stopped
<1>2. IsFiniteSet(Charged(S))
  BY <1>1, NodeUsageAssumption, FS_Subset
<1>3. \A u \in Users : Usage(S, u) \in Nat
  BY UsageNat DEF Types
<1>4. \A u \in Users : Total(S, u) \in Nat /\ Total(S, u) = used[u] + Usage(S, u)
  BY <1>3 DEF Types, Total
<1>5. Credited(S) \in Nat
  <2> DEFINE d == [u \in Users |-> Usage(S, u)]
  <2>1. \A u \in Charged(S) : d[u] \in Nat
    BY <1>1, <1>3
  <2> HIDE DEF d
  <2>2. SumFunctionOnSet(d, Charged(S)) \in Nat
    BY <1>2, <2>1, SumNat
  <2>3. QED
    BY <2>2 DEF Credited, d
<1>6. QED
  BY <1>1, <1>2, <1>3, <1>4, <1>5

(* What a flush does, for the rows it takes.                               *)
Flushed(S) ==
  /\ used' = [u \in Users |-> IF u \in Stopped(S) \cap plan THEN 0
                              ELSE IF u \in Charged(S) THEN Total(S, u) ELSE used[u]]
  /\ logged' = [u \in Users |-> IF u \in Stopped(S) \cap plan THEN logged[u] + Total(S, u) ELSE logged[u]]
  /\ lifetime' = lifetime + Credited(S)
  /\ status' = [u \in Users |-> IF u \in Stopped(S) \ plan THEN "limited" ELSE status[u]]
  /\ plan' = plan \ Stopped(S) /\ forced' = forced \ Stopped(S)
  /\ row' = Counted(S)
  /\ taken' = [s \in Sample |-> IF s \in S THEN taken[s] + 1 ELSE taken[s]]
  /\ dropped' = dropped \cup {s \in S : s[2] \notin Charged(S)}
  /\ UNCHANGED <<node, collector, recorded, faults>>

(* A flush takes rows that are staged; what it does with them.             *)
LEMMA FlushTakes ==
  ASSUME FlushStagedUsage
  PROVE  \E S \in SUBSET StagedRows :
           /\ S \subseteq Sample /\ \A s \in S : row[s] = "staged"
           /\ Flushed(S)
BY DEF FlushStagedUsage, StagedRows, Flushed

(* A user charged has spent his traffic more, everyone else nothing,       *)
(* whether he is stopped, given his next plan or neither.                  *)
LEMMA FlushSpends ==
  ASSUME Types, NEW S, S \subseteq Sample, Flushed(S)
  PROVE  /\ used' \in [Users -> Nat] /\ logged' \in [Users -> Nat]
         /\ \A u \in Charged(S) : used'[u] + logged'[u] = used[u] + logged[u] + Usage(S, u)
         /\ \A u \in Users \ Charged(S) : used'[u] = used[u] /\ logged'[u] = logged[u]
<1> USE ChargedUsers
<1>1. \A u \in Users : used[u] \in Nat /\ logged[u] \in Nat
  BY DEF Types
<1>2. used' \in [Users -> Nat] /\ logged' \in [Users -> Nat]
  <2>1. \A u \in Users : Total(S, u) \in Nat
    OBVIOUS
  <2>2. QED
    BY <1>1, <2>1 DEF Flushed
<1>3. ASSUME NEW u \in Charged(S)
      PROVE  used'[u] + logged'[u] = used[u] + logged[u] + Usage(S, u)
  <2>1. u \in Users /\ Usage(S, u) \in Nat /\ Total(S, u) = used[u] + Usage(S, u)
    OBVIOUS
  <2>2. CASE u \in Stopped(S) \cap plan
    <3>1. used'[u] = 0 /\ logged'[u] = logged[u] + Total(S, u)
      BY <2>1, <2>2 DEF Flushed
    <3>2. QED
      BY <1>1, <2>1, <3>1
  <2>3. CASE u \notin Stopped(S) \cap plan
    <3>1. used'[u] = Total(S, u) /\ logged'[u] = logged[u]
      BY <2>1, <2>3 DEF Flushed
    <3>2. QED
      BY <1>1, <2>1, <3>1
  <2>4. QED
    BY <2>2, <2>3
<1>4. ASSUME NEW u \in Users \ Charged(S) PROVE used'[u] = used[u] /\ logged'[u] = logged[u]
  BY DEF Flushed
<1>5. QED
  BY <1>2, <1>3, <1>4

(* The admins are charged what the users have spent more.                  *)
LEMMA FlushAgrees ==
  ASSUME Types, AdminsAgree, NEW S, S \subseteq Sample, Flushed(S)
  PROVE  AdminsAgree'
<1> DEFINE f == [u \in Users |-> used[u] + logged[u]]
           g == [u \in Users |-> used'[u] + logged'[u]]
           d == [u \in Users |-> Usage(S, u)]
<1>1. Charged(S) \subseteq Users /\ IsFiniteSet(Users)
  BY ChargedUsers, NodeUsageAssumption
<1>2. \A u \in Users : f[u] \in Nat /\ d[u] \in Nat
  <2>1. \A u \in Users : Usage(S, u) \in Nat
    BY ChargedUsers
  <2>2. \A u \in Users : used[u] \in Nat /\ logged[u] \in Nat
    BY DEF Types
  <2>3. QED
    BY <2>1, <2>2
<1>3. \A u \in Charged(S) : g[u] = f[u] + d[u]
  BY <1>1, FlushSpends
<1>4. \A u \in Users \ Charged(S) : g[u] = f[u]
  BY FlushSpends
<1>5. lifetime = SumFunctionOnSet(f, Users)
  BY DEF AdminsAgree
<1>6. lifetime' = lifetime + SumFunctionOnSet(d, Charged(S))
  BY DEF Flushed, Credited
<1>7. AdminsAgree' = (lifetime' = SumFunctionOnSet(g, Users))
  BY DEF AdminsAgree
<1> HIDE DEF f, g, d
<1>8. SumFunctionOnSet(g, Users) = SumFunctionOnSet(f, Users) + SumFunctionOnSet(d, Charged(S))
  BY <1>1, <1>2, <1>3, <1>4, SumChange
<1>9. QED
  BY <1>5, <1>6, <1>7, <1>8

(* Whoever clears a counter logs it: nobody has spent more or less.        *)
LEMMA ClearedSpent ==
  ASSUME Types, NEW u \in Users, Cleared(u)
  PROVE  /\ used' \in [Users -> Nat] /\ logged' \in [Users -> Nat]
         /\ \A v \in Users : used'[v] + logged'[v] = used[v] + logged[v]
BY DEF Types, Cleared

(* Where nobody has spent more or less the admins still agree.             *)
LEMMA SpentAgrees ==
  ASSUME AdminsAgree, lifetime' = lifetime,
         \A v \in Users : used'[v] + logged'[v] = used[v] + logged[v]
  PROVE  AdminsAgree'
<1>1. [u \in Users |-> used'[u] + logged'[u]] = [u \in Users |-> used[u] + logged[u]]
  OBVIOUS
<1>2. QED
  BY <1>1, Zenon DEF AdminsAgree

(* A flush keeps what holds whatever happens.                              *)
LEMMA FlushBase ==
  ASSUME Base, NEW S, S \subseteq Sample, \A s \in S : row[s] = "staged", Flushed(S)
  PROVE  Base'
<1> USE DEF Base
<1>1. UNCHANGED <<made, sample, unacked, held, stored, recorded, faults>>
  BY DEF Flushed, node, collector
<1>2. \A s \in Sample : row'[s] = IF s \in S THEN "counted" ELSE row[s]
  BY DEF Flushed, Counted
<1>3. \A s \in Sample : taken'[s] = IF s \in S THEN taken[s] + 1 ELSE taken[s]
  BY DEF Flushed
<1>4. Types'
  <2>1. row' \in [Sample -> RowState]
    BY DEF Types, Flushed, Counted, RowState
  <2>2. taken' \in [Sample -> Nat] /\ dropped' \subseteq Sample
    BY DEF Types, Flushed
  <2>3. used' \in [Users -> Nat] /\ logged' \in [Users -> Nat]
    BY FlushSpends
  <2>4. lifetime' \in Nat
    BY ChargedUsers DEF Types, Flushed
  <2>5. status' \in [Users -> {"on", "limited", "off"}] /\ plan' \subseteq Users /\ forced' \subseteq Users
    BY DEF Types, Flushed
  <2>6. QED
    BY <1>1, <2>1, <2>2, <2>3, <2>4, <2>5 DEF Types
<1>5. OneBatch'
  BY <1>1 DEF OneBatch
<1>6. RowTaken' /\ StoredIsKept' /\ ForgottenIsKept'
  <2>1. \A s \in Sample : taken[s] \in Nat
    BY DEF Types
  <2>2. RowTaken'
    BY <1>1, <1>2, <1>3, <2>1 DEF RowTaken
  <2>3. StoredIsKept'
    BY <1>1, <1>2, <1>3, <2>1 DEF StoredIsKept
  <2>4. ForgottenIsKept'
    BY <1>1, <1>2, <1>3, <2>1 DEF ForgottenIsKept
  <2>5. QED
    BY <2>2, <2>3, <2>4
<1>7. LimitKept'
  <2> SUFFICES ASSUME NEW u \in Users, status'[u] = "on", used'[u] >= Limit
               PROVE  u \in forced'
    BY DEF LimitKept
  <2>1. CASE u \in Stopped(S)
    <3>1. u \in plan /\ used'[u] = 0
      BY <2>1 DEF Flushed
    <3>2. QED
      BY <3>1, NodeUsageAssumption
  <2>2. CASE u \in Charged(S) /\ u \notin Stopped(S)
    <3>1. used'[u] = Total(S, u)
      BY <2>2 DEF Flushed
    <3>2. QED
      BY <2>2, <3>1 DEF Stopped, LimitReached
  <2>3. CASE u \notin Charged(S)
    <3>1. used'[u] = used[u] /\ status[u] = "on" /\ u \notin Stopped(S)
      BY <2>3 DEF Flushed, Stopped
    <3>2. QED
      BY <3>1 DEF LimitKept, Flushed
  <2>4. QED
    BY <2>1, <2>2, <2>3
<1>8. AdminsAgree'
  BY FlushAgrees
<1>9. QED
  BY <1>4, <1>5, <1>6, <1>7, <1>8

(* Every step keeps what holds whatever happens.                           *)
LEMMA StepBase == Base /\ [Next]_vars => Base'
<1> SUFFICES ASSUME Base, [Next]_vars PROVE Base'
  OBVIOUS
<1> USE NodeUsageAssumption, SampleBatch
<1>1. ASSUME NEW u \in Users, DisableUser(u) \/ EnableUser(u) \/ ResetUser(u) \/ ReviewUser(u)
      PROVE  Base'
  <2>1. UNCHANGED <<node, collector, row, lifetime, ghosts, faults>>
    BY <1>1 DEF DisableUser, EnableUser, ResetUser, ReviewUser
  <2>2. \/ UNCHANGED <<used, logged>>
        \/ Cleared(u)
    BY <1>1 DEF DisableUser, EnableUser, ResetUser, ReviewUser
  <2>3. /\ used' \in [Users -> Nat] /\ logged' \in [Users -> Nat]
        /\ \A v \in Users : used'[v] + logged'[v] = used[v] + logged[v]
    BY <2>2, ClearedSpent DEF Base, Types
  <2>4. Types'
    <3>1. status' \in [Users -> {"on", "limited", "off"}] /\ plan' \subseteq Users /\ forced' \subseteq Users
      BY <1>1 DEF Base, Types, DisableUser, EnableUser, ResetUser, ReviewUser
    <3>2. QED
      BY <2>1, <2>3, <3>1 DEF Base, Types, node, collector, ghosts
  <2>5. OneBatch' /\ RowTaken' /\ StoredIsKept' /\ ForgottenIsKept'
    BY <2>1 DEF Base, OneBatch, RowTaken, StoredIsKept, ForgottenIsKept, node, collector, ghosts
  <2>6. AdminsAgree'
    BY <2>1, <2>3, SpentAgrees DEF Base
  <2>7. LimitKept'
    <3> USE DEF Base, Types, LimitKept
    <3>1. CASE DisableUser(u)
      BY <3>1 DEF DisableUser
    <3>2. CASE EnableUser(u)
      BY <3>2 DEF EnableUser, LimitReached
    <3>3. CASE ResetUser(u)
      BY <3>3 DEF ResetUser, Cleared
    <3>4. CASE ReviewUser(u)
      BY <3>4 DEF ReviewUser, Cleared, LimitReached
    <3>5. QED
      BY <1>1, <3>1, <3>2, <3>3, <3>4
  <2>8. QED
    BY <2>4, <2>5, <2>6, <2>7 DEF Base
<1>2. CASE Collect
  <2>1. PICK b \in Batch : Deliver(b) /\ held' = b
    BY <1>2 DEF Collect
  <2> USE <1>2, <2>1, DeliverBase DEF Base, Collect, accounts, ghosts
  <2>2. Types'
    BY DEF Types, Batch
  <2>3. OneBatch'
    BY DEF OneBatch
  <2>4. RowTaken' /\ ForgottenIsKept'
    OBVIOUS
  <2>5. StoredIsKept' /\ LimitKept' /\ AdminsAgree'
    BY DEF StoredIsKept, LimitKept, AdminsAgree
  <2>6. QED
    BY <2>2, <2>3, <2>4, <2>5
<1>3. CASE CollectLost
  <2>1. PICK b \in Batch : Deliver(b)
    BY <1>3 DEF CollectLost
  <2> USE <1>3, <2>1, DeliverBase DEF Base, CollectLost, Fault, collector, accounts, ghosts
  <2>2. Types'
    BY DEF Types
  <2>3. OneBatch'
    BY DEF OneBatch
  <2>4. RowTaken' /\ ForgottenIsKept'
    OBVIOUS
  <2>5. StoredIsKept' /\ LimitKept' /\ AdminsAgree'
    BY DEF StoredIsKept, LimitKept, AdminsAgree, OneBatch
  <2>6. QED
    BY <2>2, <2>3, <2>4, <2>5
<1>4. CASE Store
  <2> USE <1>4, StagedBase DEF Base, Store, accounts, ghosts
  <2>1. Types'
    BY DEF Types, node
  <2>2. OneBatch'
    BY DEF OneBatch, node
  <2>3. RowTaken' /\ ForgottenIsKept'
    OBVIOUS
  <2>4. StoredIsKept' /\ LimitKept' /\ AdminsAgree'
    BY DEF StoredIsKept, LimitKept, AdminsAgree, node
  <2>5. QED
    BY <2>1, <2>2, <2>3, <2>4
<1>5. CASE StoreFails
  <2> USE <1>5 DEF Base, StoreFails, Fault, accounts, ghosts
  <2>1. CASE row' = row
    <3>1. Types'
      BY <2>1 DEF Types, node
    <3>2. QED
      BY <2>1, <3>1 DEF Types, OneBatch, RowTaken, StoredIsKept, ForgottenIsKept, LimitKept, AdminsAgree, node
  <2>2. CASE row' = Staged(held)
    <3>1. Types'
      BY <2>2, StagedBase DEF Types, node
    <3>2. OneBatch' /\ StoredIsKept' /\ LimitKept' /\ AdminsAgree'
      BY <2>2 DEF OneBatch, StoredIsKept, LimitKept, AdminsAgree, node
    <3>3. RowTaken' /\ ForgottenIsKept'
      BY <2>2, StagedBase
    <3>4. QED
      BY <3>1, <3>2, <3>3
  <2>3. QED
    BY <2>1, <2>2
<1>6. CASE AckUserUsage \/ AckLost
  <2> USE <1>6 DEF Base, OneBatch, AckUserUsage, AckLost, Acknowledgeable, Fault, accounts, ghosts
  <2>1. unacked' \in {unacked, 0} /\ (unacked' # unacked => unacked = held /\ stored)
    OBVIOUS
  <2>2. Types'
    <3>1. MaxBatch \in Nat /\ 0 \in 0..MaxBatch
      OBVIOUS
    <3>2. unacked' \in 0..MaxBatch /\ held' \in 0..MaxBatch /\ stored' \in BOOLEAN
      BY <2>1, <3>1 DEF Types
    <3>3. faults' \in Nat
      BY DEF Types
    <3>4. QED
      BY <3>2, <3>3 DEF Types
  <2>3. OneBatch'
    BY <2>1 DEF Types
  <2>4. RowTaken' /\ StoredIsKept' /\ LimitKept' /\ AdminsAgree'
    BY DEF RowTaken, StoredIsKept, LimitKept, AdminsAgree
  <2>5. ForgottenIsKept'
    BY <2>1 DEF ForgottenIsKept, StoredIsKept
  <2>6. QED
    BY <2>2, <2>3, <2>4, <2>5
<1>7. CASE FlushStagedUsage
  BY <1>7, FlushTakes, FlushBase
<1>8. CASE FlushStagedUsageHistory
  <2>1. PICK S \in SUBSET {s \in Sample : HistoryDue(s)} :
          /\ recorded' = [s \in Sample |-> IF s \in S THEN recorded[s] + 1 ELSE recorded[s]]
          /\ row' = [s \in Sample |-> IF s \in S THEN "done" ELSE row[s]]
          /\ UNCHANGED <<node, collector, accounts, taken, dropped, faults>>
    BY <1>8 DEF FlushStagedUsageHistory
  <2>2. \A s \in S : s \in Sample /\ row[s] = "counted"
    BY DEF HistoryDue
  <2> USE <2>1, <2>2 DEF Base, node, collector, accounts
  <2>3. Types'
    BY DEF Types, RowState
  <2>4. OneBatch' /\ LimitKept' /\ AdminsAgree'
    BY DEF OneBatch, LimitKept, AdminsAgree
  <2>5. RowTaken'
    BY DEF RowTaken
  <2>6. StoredIsKept' /\ ForgottenIsKept'
    BY DEF StoredIsKept, ForgottenIsKept, RowTaken
  <2>7. QED
    BY <2>3, <2>4, <2>5, <2>6
<1>9. CASE PruneProcessedUsageQueue
  <2>1. PICK s \in Sample : row[s] = "done" /\ row' = [row EXCEPT ![s] = "none"]
    BY <1>9 DEF PruneProcessedUsageQueue
  <2> USE <1>9, <2>1 DEF Base, PruneProcessedUsageQueue, node, collector, accounts, ghosts
  <2>2. Types'
    BY DEF Types, RowState
  <2>3. OneBatch' /\ LimitKept' /\ AdminsAgree'
    BY DEF OneBatch, LimitKept, AdminsAgree
  <2>4. RowTaken'
    BY DEF RowTaken, Types
  <2>5. StoredIsKept' /\ ForgottenIsKept'
    BY DEF StoredIsKept, ForgottenIsKept, RowTaken, Types
  <2>6. QED
    BY <2>2, <2>3, <2>4, <2>5
<1>10. CASE Crash
  <2> USE <1>10 DEF Crash, Fault, Base, node, accounts, ghosts
  <2>1. Types' /\ OneBatch'
    <3>1. MaxBatch \in Nat /\ 0 \in 0..MaxBatch
      OBVIOUS
    <3>2. held' \in 0..MaxBatch /\ stored' \in BOOLEAN
      BY <3>1
    <3>3. faults' \in Nat
      BY DEF Types
    <3>4. Types'
      BY <3>2, <3>3 DEF Types
    <3>5. OneBatch'
      BY DEF OneBatch
    <3>6. QED
      BY <3>4, <3>5
  <2>2. RowTaken' /\ StoredIsKept' /\ ForgottenIsKept' /\ LimitKept' /\ AdminsAgree'
    BY DEF RowTaken, StoredIsKept, ForgottenIsKept, LimitKept, AdminsAgree
  <2>3. QED
    BY <2>1, <2>2
<1>11. CASE UNCHANGED vars
  BY <1>11 DEF vars, node, collector, accounts, ghosts, Base, Types, OneBatch, RowTaken,
               StoredIsKept, ForgottenIsKept, LimitKept, AdminsAgree
<1>12. QED
  BY <1>1, <1>2, <1>3, <1>4, <1>5, <1>6, <1>7, <1>8, <1>9, <1>10, <1>11 DEF Next

(* What holds whatever happens.                                            *)
LEMMA BaseEver == Spec => []Base
<1>1. Init => Base
  BY InitBase
<1>2. Base /\ [Next]_vars => Base'
  BY StepBase
<1>3. QED
  BY <1>1, <1>2, PTL DEF Spec

(* What the node is told to forget is in the database or was taken,        *)
(* however long an acknowledgement is missing.                             *)
THEOREM ForgottenIsKeptEver == Spec => []ForgottenIsKept
<1>1. Base => ForgottenIsKept
  BY DEF Base
<1>2. QED
  BY <1>1, BaseEver, PTL

(* A user is stopped in the transaction that takes him to his limit.       *)
THEOREM LimitKeptEver == Spec => []LimitKept
<1>1. Base => LimitKept
  BY DEF Base
<1>2. QED
  BY <1>1, BaseEver, PTL

(* The counters of the admins are the sum of what the users have used,     *)
(* even where a sample is taken twice: both are charged in one step.       *)
THEOREM AdminsAgreeEver == Spec => []AdminsAgree
<1>1. Base => AdminsAgree
  BY DEF Base
<1>2. QED
  BY <1>1, BaseEver, PTL

-----------------------------------------------------------------------------
(* What holds unless a batch stays unacknowledged too long                 *)

(* A row tells how often its sample was taken and recorded; one that is    *)
(* gone belongs to a batch the node will not deliver again.                *)
RowTells ==
  \A s \in Sample :
    /\ row[s] = "staged" => taken[s] = 0 /\ recorded[s] = 0
    /\ row[s] = "counted" => taken[s] = 1 /\ recorded[s] = 0
    /\ row[s] = "done" => taken[s] = 1 /\ recorded[s] = 1
    /\ row[s] = "none" => \/ taken[s] = 0 /\ recorded[s] = 0
                          \/ taken[s] = 1 /\ recorded[s] = 1 /\ s[1] # unacked

DroppedTaken == \A s \in dropped : taken[s] > 0

Exact == RowTells /\ DroppedTaken /\ TrafficAccounted

(* The samples charged to a user.                                          *)
ChargedTo(u) == {s \in {t \in Sample : taken[t] > 0} \ dropped : s[2] = u}

(* The samples charged to a user are finitely many.                        *)
LEMMA ChargedToFinite ==
  ASSUME Types, NEW u \in Users
  PROVE  /\ ChargedTo(u) \subseteq Sample /\ IsFiniteSet(ChargedTo(u))
         /\ \A s \in ChargedTo(u) : sample[s] \in Nat /\ taken[s] > 0
<1> DEFINE K == {t \in Sample : taken[t] > 0} \ dropped
<1>1. K \subseteq Sample
  OBVIOUS
<1>2. ChargedTo(u) = {s \in K : s[2] = u}
  BY DEF ChargedTo
<1> HIDE DEF K
<1>3. IsFiniteSet({s \in K : s[2] = u})
  BY <1>1, UserSamples
<1>4. ChargedTo(u) \subseteq Sample /\ \A s \in ChargedTo(u) : taken[s] > 0
  BY DEF ChargedTo
<1>5. \A s \in ChargedTo(u) : sample[s] \in Nat
  BY <1>4, NodeUsageAssumption DEF Types
<1>6. QED
  BY <1>2, <1>3, <1>4, <1>5

(* The accounts, as sums over the samples charged to a user.               *)
LEMMA Accounts ==
  /\ TrafficAccounted <=> \A u \in Users : used[u] + logged[u] = SumFunctionOnSet(sample, ChargedTo(u))
  /\ TrafficAccounted' <=> \A u \in Users : used'[u] + logged'[u] = SumFunctionOnSet(sample', ChargedTo(u)')
BY DEF TrafficAccounted, Usage, ChargedTo

(* A step that takes nothing and leaves what was taken as it is.           *)
LEMMA AccountedSame ==
  ASSUME Types, TrafficAccounted, UNCHANGED <<taken, dropped>>,
         \A s \in Sample : taken[s] > 0 => sample'[s] = sample[s],
         \A v \in Users : used'[v] + logged'[v] = used[v] + logged[v]
  PROVE  TrafficAccounted'
<1> SUFFICES ASSUME NEW u \in Users
             PROVE  used'[u] + logged'[u] = SumFunctionOnSet(sample', ChargedTo(u)')
  BY Accounts
<1>1. ChargedTo(u)' = ChargedTo(u)
  BY DEF ChargedTo
<1>2. SumFunctionOnSet(sample', ChargedTo(u)) = SumFunctionOnSet(sample, ChargedTo(u))
  BY ChargedToFinite, SumSame
<1>3. used[u] + logged[u] = SumFunctionOnSet(sample, ChargedTo(u))
  BY Accounts
<1>4. QED
  BY <1>1, <1>2, <1>3

(* A flush charges a user the samples it takes of him, or drops them.      *)
LEMMA AccountedFlush ==
  ASSUME Base, Exact, NEW S, S \subseteq Sample, \A s \in S : row[s] = "staged", Flushed(S)
  PROVE  TrafficAccounted'
<1> SUFFICES ASSUME NEW u \in Users
             PROVE  used'[u] + logged'[u] = SumFunctionOnSet(sample', ChargedTo(u)')
  BY Accounts
<1>1. \A s \in S : taken[s] = 0 /\ s \notin dropped
  BY DEF Exact, RowTells, DroppedTaken
<1>2. \A s \in Sample : taken'[s] > 0 <=> s \in S \/ taken[s] > 0
  BY <1>1 DEF Flushed, Base, Types
<1>3. sample' = sample /\ dropped' = dropped \cup {s \in S : s[2] \notin Charged(S)}
  BY DEF Flushed, node
<1>4. used[u] + logged[u] = SumFunctionOnSet(sample, ChargedTo(u))
  BY Accounts DEF Exact
<1>5. CASE u \in Charged(S)
  <2> DEFINE T == {s \in S : s[2] = u}
  <2>1. ChargedTo(u)' = ChargedTo(u) \cup T
    BY <1>1, <1>2, <1>3, <1>5 DEF ChargedTo
  <2>2. ChargedTo(u) \cap T = {}
    BY <1>1 DEF ChargedTo
  <2>3. IsFiniteSet(ChargedTo(u)) /\ IsFiniteSet(T)
    BY UserSamples, ChargedToFinite DEF Base
  <2>4. \A s \in ChargedTo(u) \cup T : sample[s] \in Nat
    <3>1. \A s \in T : sample[s] \in Nat
      BY NodeUsageAssumption DEF Base, Types
    <3>2. QED
      BY <3>1, ChargedToFinite DEF Base
  <2>5. Usage(S, u) = SumFunctionOnSet(sample, T)
    BY DEF Usage
  <2> HIDE DEF T
  <2>6. SumFunctionOnSet(sample, ChargedTo(u) \cup T)
          = SumFunctionOnSet(sample, ChargedTo(u)) + SumFunctionOnSet(sample, T)
    BY <2>2, <2>3, <2>4, SumUnion
  <2>7. used'[u] + logged'[u] = used[u] + logged[u] + Usage(S, u)
    BY <1>5, FlushSpends DEF Base
  <2>8. QED
    BY <1>3, <1>4, <2>1, <2>5, <2>6, <2>7
<1>6. CASE u \notin Charged(S)
  <2>1. ChargedTo(u)' = ChargedTo(u)
    BY <1>1, <1>2, <1>3, <1>6 DEF ChargedTo
  <2>2. used'[u] = used[u] /\ logged'[u] = logged[u]
    BY <1>6, FlushSpends DEF Base
  <2>3. QED
    BY <1>3, <1>4, <2>1, <2>2
<1>7. QED
  BY <1>5, <1>6

(* At the start a row tells what became of its sample.                     *)
LEMMA InitExact == Init => Exact
<1> SUFFICES ASSUME Init PROVE Exact
  OBVIOUS
<1>1. RowTells /\ DroppedTaken
  BY DEF Init, RowTells, DroppedTaken
<1>2. TrafficAccounted
  <2> SUFFICES ASSUME NEW u \in Users
               PROVE  used[u] + logged[u] = SumFunctionOnSet(sample, ChargedTo(u))
    BY Accounts
  <2>1. ChargedTo(u) = {}
    BY DEF Init, ChargedTo
  <2>2. used[u] = 0 /\ logged[u] = 0
    BY DEF Init
  <2>3. QED
    BY <2>1, <2>2, SumEmpty
<1>3. QED
  BY <1>1, <1>2 DEF Exact

(* It still does after every step, when no row goes before its batch.      *)
LEMMA StepExact ==
  ASSUME ~Outage, Base, Exact, [Next]_vars PROVE Exact'
<1> USE NodeUsageAssumption, SampleBatch
<1>1. ASSUME NEW u \in Users, DisableUser(u) \/ EnableUser(u) \/ ResetUser(u) \/ ReviewUser(u)
      PROVE  Exact'
  <2>1. UNCHANGED <<node, collector, row, ghosts>> /\ (Cleared(u) \/ UNCHANGED <<used, logged>>)
    BY <1>1 DEF DisableUser, EnableUser, ResetUser, ReviewUser
  <2>2. RowTells' /\ DroppedTaken'
    BY <2>1 DEF Exact, RowTells, DroppedTaken, node, ghosts
  <2>3. \A v \in Users : used'[v] + logged'[v] = used[v] + logged[v]
    BY <2>1, ClearedSpent DEF Base
  <2>4. TrafficAccounted'
    BY <2>1, <2>3, AccountedSame DEF Base, Exact, node, ghosts
  <2>5. QED
    BY <2>2, <2>4 DEF Exact
<1>2. CASE Collect \/ CollectLost
  <2>1. PICK b \in Batch : Deliver(b)
    BY <1>2 DEF Collect, CollectLost
  <2>2. UNCHANGED <<row, accounts, ghosts>>
    BY <1>2 DEF Collect, CollectLost
  <2>3. \/ UNCHANGED node
        \/ unacked = 0 /\ \A s \in Sample : s[1] = b => row[s] = "none" /\ taken[s] = 0
    BY <2>1, <2>2, DeliverBase DEF ghosts
  <2>4. b = unacked'
    BY <2>1, <2>2, DeliverBase DEF ghosts
  <2>5. RowTells'
    BY <2>2, <2>3, <2>4 DEF Exact, RowTells, node, ghosts
  <2>6. DroppedTaken'
    BY <2>2 DEF Exact, DroppedTaken, ghosts
  <2>7. \A s \in Sample : taken[s] > 0 => sample'[s] = sample[s]
    <3>1. \A s \in Sample : s[1] <= made => sample'[s] = sample[s]
      BY <2>1, <2>2, DeliverBase DEF ghosts
    <3>2. \A s \in Sample : taken[s] > 0 => ~(s[1] > made)
      BY DEF Base, RowTaken
    <3>3. QED
      BY <3>1, <3>2 DEF Base, Types
  <2>8. TrafficAccounted'
    BY <2>2, <2>7, AccountedSame DEF Base, Exact, accounts, ghosts
  <2>9. QED
    BY <2>5, <2>6, <2>8 DEF Exact
<1>3. CASE Store \/ StoreFails
  <2>1. UNCHANGED <<node, accounts, ghosts>> /\ held # 0 /\ (row' = row \/ row' = Staged(held))
    BY <1>3 DEF Store, StoreFails
  <2>2. \A s \in Sample : row'[s] = row[s] \/ (row[s] = "none" /\ s[1] = unacked /\ row'[s] = "staged")
    BY <2>1 DEF Staged, Stageable, Base, OneBatch
  <2>3. RowTells'
    BY <2>1, <2>2 DEF Exact, RowTells, node, ghosts
  <2>4. DroppedTaken' /\ TrafficAccounted'
    BY <2>1, AccountedSame DEF Base, Exact, DroppedTaken, node, accounts, ghosts
  <2>5. QED
    BY <2>3, <2>4 DEF Exact
<1>4. CASE AckUserUsage \/ AckLost
  <2>1. UNCHANGED <<sample, row, accounts, ghosts>> /\ unacked' \in {unacked, 0}
    BY <1>4 DEF AckUserUsage, AckLost
  <2>2. RowTells'
    BY <2>1 DEF Exact, RowTells, ghosts
  <2>3. DroppedTaken' /\ TrafficAccounted'
    BY <2>1, AccountedSame DEF Base, Exact, DroppedTaken, accounts, ghosts
  <2>4. QED
    BY <2>2, <2>3 DEF Exact
<1>5. CASE FlushStagedUsage
  <2>1. PICK S \in SUBSET StagedRows : S \subseteq Sample /\ (\A s \in S : row[s] = "staged") /\ Flushed(S)
    BY <1>5, FlushTakes
  <2>2. UNCHANGED <<node, recorded>>
    BY <2>1 DEF Flushed
  <2>3. RowTells'
    BY <2>1, <2>2 DEF Exact, RowTells, Flushed, Counted, Base, Types, node
  <2>4. DroppedTaken'
    BY <2>1 DEF Exact, DroppedTaken, Flushed, Base, Types
  <2>5. TrafficAccounted'
    BY <2>1, AccountedFlush
  <2>6. QED
    BY <2>3, <2>4, <2>5 DEF Exact
<1>6. CASE FlushStagedUsageHistory
  <2>1. PICK S \in SUBSET {s \in Sample : HistoryDue(s)} :
          /\ recorded' = [s \in Sample |-> IF s \in S THEN recorded[s] + 1 ELSE recorded[s]]
          /\ row' = [s \in Sample |-> IF s \in S THEN "done" ELSE row[s]]
          /\ UNCHANGED <<node, collector, accounts, taken, dropped, faults>>
    BY <1>6 DEF FlushStagedUsageHistory
  <2>2. RowTells'
    BY <2>1 DEF HistoryDue, Exact, RowTells, Base, Types, node
  <2>3. DroppedTaken' /\ TrafficAccounted'
    BY <2>1, AccountedSame DEF Base, Exact, DroppedTaken, node, accounts
  <2>4. QED
    BY <2>2, <2>3 DEF Exact
<1>7. CASE PruneProcessedUsageQueue
  <2>1. PICK s \in Sample : /\ row[s] = "done" /\ s[1] # unacked /\ s[1] # held
                            /\ row' = [row EXCEPT ![s] = "none"]
    BY <1>7 DEF PruneProcessedUsageQueue
  <2>2. UNCHANGED <<node, collector, accounts, ghosts>>
    BY <1>7 DEF PruneProcessedUsageQueue
  <2>3. RowTells'
    BY <2>1, <2>2 DEF Exact, RowTells, Base, Types, node, ghosts
  <2>4. DroppedTaken' /\ TrafficAccounted'
    BY <2>2, AccountedSame DEF Base, Exact, DroppedTaken, node, accounts, ghosts
  <2>5. QED
    BY <2>3, <2>4 DEF Exact
<1>8. CASE Crash \/ UNCHANGED vars
  <2>1. UNCHANGED <<node, row, accounts, ghosts>>
    BY <1>8 DEF Crash, vars
  <2>2. RowTells'
    BY <2>1 DEF Exact, RowTells, node, ghosts
  <2>3. DroppedTaken' /\ TrafficAccounted'
    BY <2>1, AccountedSame DEF Base, Exact, DroppedTaken, node, accounts, ghosts
  <2>4. QED
    BY <2>2, <2>3 DEF Exact
<1>9. QED
  BY <1>1, <1>2, <1>3, <1>4, <1>5, <1>6, <1>7, <1>8 DEF Next

(* It always does, when acknowledgements arrive within the retention.      *)
LEMMA ExactEver == ASSUME ~Outage PROVE Spec => [](Base /\ Exact)
<1>1. Init => Base /\ Exact
  BY InitBase, InitExact
<1>2. Base /\ Exact /\ [Next]_vars => Base' /\ Exact'
  BY StepBase, StepExact
<1>3. QED
  BY <1>1, <1>2, PTL DEF Spec

(* No sample is charged twice: a row that is gone is of a batch that is    *)
(* not delivered again, and one that is there is not staged again.         *)
THEOREM NeverTwiceEver == ASSUME ~Outage PROVE Spec => []NeverTwice
<1>1. Base /\ Exact => NeverTwice
  BY DEF Base, Types, Exact, RowTells, RowState, NeverTwice
<1>2. QED
  BY <1>1, ExactEver, PTL

(* The history takes a sample once at most, after the flush took it.       *)
THEOREM HistoryOnceEver == ASSUME ~Outage PROVE Spec => []HistoryOnce
<1>1. Base /\ Exact => HistoryOnce
  BY DEF Base, Types, Exact, RowTells, RowState, HistoryOnce
<1>2. QED
  BY <1>1, ExactEver, PTL

(* What a user has used and what was logged of him is the sum of the       *)
(* samples charged to him: not a byte is lost or made up between the       *)
(* flushes, the resets, the plans and the reviews.                         *)
THEOREM TrafficAccountedEver == ASSUME ~Outage PROVE Spec => []TrafficAccounted
<1>1. Base /\ Exact => TrafficAccounted
  BY DEF Exact
<1>2. QED
  BY <1>1, ExactEver, PTL

(* Types, and nobody's counters pass what the node can have counted.       *)
THEOREM UsageTyped == ASSUME ~Outage PROVE Spec => []TypeOK
<1>1. ASSUME Base, Exact PROVE TypeOK
  <2>1. Types
    BY <1>1 DEF Base
  <2>2. ASSUME NEW u \in Users
        PROVE  used[u] \in 0..(MaxBatch * MaxSample) /\ logged[u] \in 0..(MaxBatch * MaxSample)
    <3> DEFINE K == {s \in Sample : taken[s] > 0} \ dropped
               m == MaxBatch * MaxSample
    <3>1. Usage(K, u) \in Nat /\ Usage(K, u) <= m
      <4>1. K \subseteq Sample
        OBVIOUS
      <4> HIDE DEF K
      <4>2. QED
        BY <2>1, <4>1, UsageNat DEF Types
    <3>2. used[u] + logged[u] = Usage(K, u)
      BY <1>1 DEF Exact, TrafficAccounted
    <3>3. used[u] \in Nat /\ logged[u] \in Nat
      BY <2>1 DEF Types
    <3>4. m \in Nat
      <4>1. \A a, b \in Nat : a * b \in Nat
        OBVIOUS
      <4>2. QED
        BY <4>1, NodeUsageAssumption
    <3> HIDE DEF K, m
    <3>5. used[u] \in 0..m /\ logged[u] \in 0..m
      BY <3>1, <3>2, <3>3, <3>4
    <3>6. QED
      BY <3>5 DEF m
  <2>3. used \in [Users -> 0..(MaxBatch * MaxSample)] /\ logged \in [Users -> 0..(MaxBatch * MaxSample)]
    BY <2>1, <2>2 DEF Types
  <2>4. QED
    BY <2>1, <2>3 DEF Types, TypeOK
<1>2. QED
  BY <1>1, ExactEver, PTL

-----------------------------------------------------------------------------
(* The ledger                                                              *)

AtNode == {s \in Sample : s[1] = unacked /\ sample[s] > 0}
Booked == {s \in Sample : taken[s] > 0}
UsersOn == {u \in Users : status[u] = "on"}

(* A step of the usage counts, enters, forgets, books or settles, or it is *)
(* none of the ledger's business.                                          *)
LedgerCounts ==
  \E new \in SUBSET (Sample \ (AtNode \cup StagedRows \cup Booked)) :
    /\ AtNode' = AtNode \cup new
    /\ sample' \in [Sample -> Nat]
    /\ \A s \in AtNode \cup StagedRows \cup Booked : sample'[s] = sample[s]
    /\ UNCHANGED <<StagedRows, Booked, used, logged, UsersOn>>

LedgerEnters ==
  \E S \in SUBSET (AtNode \ (StagedRows \cup Booked)) :
    /\ StagedRows' = StagedRows \cup S
    /\ UNCHANGED <<sample, AtNode, Booked, used, logged, UsersOn>>

LedgerForgets ==
  \E S \in SUBSET (AtNode \cap (StagedRows \cup Booked)) :
    /\ AtNode' = AtNode \ S
    /\ UNCHANGED <<sample, StagedRows, Booked, used, logged, UsersOn>>

LedgerRests == UNCHANGED <<sample, AtNode, StagedRows, Booked, used, logged, UsersOn>>

(* The steps of the ledger, in terms of this model.                        *)
LEMMA LedgerSteps ==
  ASSUME LedgerCounts \/ LedgerEnters \/ LedgerForgets \/ LedgerRests
  PROVE  [Ledger!Next]_Ledger!vars
<1>1. CASE LedgerCounts
  <2>1. Ledger!Count
    BY <1>1 DEF LedgerCounts, Ledger!Count, Ledger!Known, AtNode, Booked, UsersOn
  <2>2. QED
    BY <2>1 DEF Ledger!Next
<1>2. CASE LedgerEnters
  <2>1. Ledger!Enter
    BY <1>2 DEF LedgerEnters, Ledger!Enter, AtNode, Booked, UsersOn
  <2>2. QED
    BY <2>1 DEF Ledger!Next
<1>3. CASE LedgerForgets
  <2>1. Ledger!Forget
    BY <1>3 DEF LedgerForgets, Ledger!Forget, AtNode, Booked, UsersOn
  <2>2. QED
    BY <2>1 DEF Ledger!Next
<1>4. CASE LedgerRests
  BY <1>4 DEF LedgerRests, Ledger!vars, AtNode, Booked, UsersOn
<1>5. QED
  BY <1>1, <1>2, <1>3, <1>4

(* A delivery of a new batch is counted, one that is repeated is nothing   *)
(* new.                                                                    *)
LEMMA DeliverLedger ==
  ASSUME Base, NEW b \in Batch, Deliver(b), UNCHANGED <<row, accounts, ghosts>>
  PROVE  LedgerCounts \/ LedgerRests
<1> USE NodeUsageAssumption, SampleBatch
<1>1. UNCHANGED <<StagedRows, Booked, used, logged, UsersOn>>
  BY DEF StagedRows, Booked, UsersOn, accounts, ghosts
<1>2. CASE UNCHANGED node
  BY <1>1, <1>2 DEF LedgerRests, AtNode, node
<1>3. CASE unacked = 0 /\ \A s \in Sample : s[1] = b => row[s] = "none" /\ taken[s] = 0
  <2>1. AtNode = {}
    BY <1>3 DEF AtNode
  <2>2. sample' \in [Sample -> 0..MaxSample] /\ b = unacked'
    BY DeliverBase DEF ghosts
  <2>3. AtNode' \in SUBSET (Sample \ (AtNode \cup StagedRows \cup Booked))
    BY <1>3, <2>1, <2>2 DEF AtNode, StagedRows, Booked
  <2>4. \A s \in AtNode \cup StagedRows \cup Booked : sample'[s] = sample[s]
    <3>1. \A s \in StagedRows \cup Booked : s \in Sample /\ ~(s[1] > made)
      BY DEF StagedRows, Booked, Base, RowTaken
    <3>2. \A s \in Sample : s[1] <= made => sample'[s] = sample[s]
      BY DeliverBase DEF ghosts
    <3>3. QED
      BY <2>1, <3>1, <3>2 DEF Base, Types
  <2>5. sample' \in [Sample -> Nat]
    BY <2>2
  <2>6. QED
    BY <1>1, <2>1, <2>3, <2>4, <2>5 DEF LedgerCounts
<1>4. QED
  BY <1>2, <1>3, DeliverBase DEF ghosts

(* What is staged comes from the batch the node holds and was not booked   *)
(* before.                                                                 *)
LEMMA StageLedger ==
  ASSUME Base, Exact, held # 0, row' = Staged(held), UNCHANGED <<node, accounts, ghosts>>
  PROVE  LedgerEnters
<1> DEFINE S == {s \in Sample : s[1] = held /\ sample[s] > 0 /\ row[s] = "none"}
<1>1. S \in SUBSET (AtNode \ (StagedRows \cup Booked))
  BY DEF AtNode, StagedRows, Booked, Base, OneBatch, Exact, RowTells
<1>2. StagedRows' = StagedRows \cup S
  BY DEF StagedRows, Staged, Stageable
<1>3. UNCHANGED <<sample, AtNode, Booked, used, logged, UsersOn>>
  BY DEF AtNode, Booked, UsersOn, node, accounts, ghosts
<1> HIDE DEF S
<1>4. QED
  BY <1>1, <1>2, <1>3 DEF LedgerEnters

(* What the node forgets is staged or booked.                              *)
LEMMA AckLedger ==
  ASSUME Base, Acknowledgeable, unacked' \in {unacked, 0}, unacked' # unacked => unacked = held,
         UNCHANGED <<made, sample, row, accounts, ghosts>>
  PROVE  LedgerForgets \/ LedgerRests
<1>1. UNCHANGED <<sample, StagedRows, Booked, used, logged, UsersOn>>
  BY DEF StagedRows, Booked, UsersOn, accounts, ghosts
<1>2. CASE unacked' = unacked
  BY <1>1, <1>2 DEF LedgerRests, AtNode
<1>3. CASE unacked' = 0 /\ unacked = held
  <2>1. AtNode' = {}
    BY <1>3, SampleBatch DEF AtNode
  <2>2. AtNode \subseteq StagedRows \cup Booked
    BY <1>3 DEF AtNode, StagedRows, Booked, Base, StoredIsKept, Acknowledgeable
  <2>3. QED
    BY <1>1, <2>1, <2>2 DEF LedgerForgets
<1>4. QED
  BY <1>2, <1>3

(* A flush books the rows it takes.                                        *)
LEMMA FlushLedger ==
  ASSUME Base, Exact, NEW S \in SUBSET StagedRows, S \subseteq Sample,
         \A s \in S : row[s] = "staged", Flushed(S)
  PROVE  Ledger!Book
<1> DEFINE on == UsersOn
           Charges(u) == u \in on /\ \E s \in S : s[2] = u
<1>1. StagedRows' = StagedRows \ S /\ Booked' = Booked \cup S
  <2>1. \A s \in Sample : row'[s] = IF s \in S THEN "counted" ELSE row[s]
    BY DEF Flushed, Counted
  <2>2. \A s \in Sample : taken'[s] = IF s \in S THEN taken[s] + 1 ELSE taken[s]
    BY DEF Flushed
  <2>3. \A s \in Sample : taken[s] \in Nat
    BY DEF Base, Types
  <2>4. QED
    BY <2>1, <2>2, <2>3 DEF StagedRows, Booked
<1>2. used' \in [Users -> Nat] /\ logged' \in [Users -> Nat] /\ UsersOn' \subseteq Users
  BY FlushSpends DEF Base, UsersOn
<1>3. UNCHANGED <<sample, AtNode>>
  BY DEF Flushed, node, AtNode
<1>4. \A u \in Users : Charges(u) <=> u \in Charged(S)
  BY DEF UsersOn, Charged
<1>5. \A u \in Users : Ledger!TrafficOf(S, u) = Usage(S, u)
  BY Zenon DEF Ledger!TrafficOf, Usage, Ledger!SumFunctionOnSet, SumFunctionOnSet,
               Ledger!FoldFunctionOnSet, FoldFunctionOnSet,
               Ledger!MapThenFoldSet, MapThenFoldSet
<1>6. ASSUME NEW u \in Users, u \in Charged(S)
      PROVE  Ledger!Charge(u, used[u] + Ledger!TrafficOf(S, u))
  <2>1. Total(S, u) = used[u] + Ledger!TrafficOf(S, u) /\ Total(S, u) \in Nat /\ Limit \in Nat
    BY <1>5, ChargedUsers, NodeUsageAssumption DEF Base
  <2>2. u \in Stopped(S) <=> Total(S, u) >= Limit
    BY <1>6 DEF Stopped, LimitReached
  <2>3. status[u] = "on"
    BY <1>6 DEF Charged
  <2>4. CASE u \in Stopped(S) /\ u \in plan
    <3>1. used'[u] = 0 /\ logged'[u] = logged[u] + Total(S, u) /\ status'[u] = "on"
      BY <2>3, <2>4 DEF Flushed
    <3>2. QED
      BY <2>1, <2>2, <2>4, <3>1 DEF Ledger!Charge
  <2>5. CASE u \in Stopped(S) /\ u \notin plan
    <3>1. used'[u] = Total(S, u) /\ logged'[u] = logged[u] /\ status'[u] = "limited"
      BY <1>6, <2>5 DEF Flushed
    <3>2. QED
      BY <2>1, <2>2, <2>5, <3>1 DEF Ledger!Charge
  <2>6. CASE u \notin Stopped(S)
    <3>1. used'[u] = Total(S, u) /\ logged'[u] = logged[u] /\ status'[u] = "on"
      BY <1>6, <2>3, <2>6 DEF Flushed
    <3>2. QED
      BY <2>1, <2>2, <2>6, <3>1 DEF Ledger!Charge
  <2>7. QED
    BY <2>4, <2>5, <2>6
<1>7. ASSUME NEW u \in Users, u \notin Charged(S)
      PROVE  Ledger!Same(u)
  <2>1. used'[u] = used[u] /\ logged'[u] = logged[u]
    BY <1>7, FlushSpends DEF Base
  <2>2. status'[u] = status[u]
    BY <1>7 DEF Flushed, Stopped
  <2>3. QED
    BY <2>1, <2>2 DEF Ledger!Same
<1>8. QED
  BY <1>1, <1>2, <1>3, <1>4, <1>6, <1>7 DEF Ledger!Book, AtNode, Booked, UsersOn

(* The API and the review settle a user.                                   *)
LEMMA SettleLedger ==
  ASSUME Base, NEW u \in Users, DisableUser(u) \/ EnableUser(u) \/ ResetUser(u) \/ ReviewUser(u)
  PROVE  Ledger!Settle(u)
<1>1. UNCHANGED <<sample, AtNode, StagedRows, Booked>>
  BY DEF DisableUser, EnableUser, ResetUser, ReviewUser, node, ghosts, AtNode, StagedRows, Booked
<1>2. \/ UNCHANGED <<used, logged>>
      \/ used' = [used EXCEPT ![u] = 0] /\ logged' = [logged EXCEPT ![u] = @ + used[u]]
  BY DEF DisableUser, EnableUser, ResetUser, ReviewUser, Cleared
<1>3. \A v \in Users : v # u => status'[v] = status[v]
  BY DEF DisableUser, EnableUser, ResetUser, ReviewUser, Base, Types
<1>4. UsersOn' \in {UsersOn, UsersOn \cup {u}, UsersOn \ {u}}
  BY <1>3 DEF UsersOn
<1>5. QED
  BY <1>1, <1>2, <1>4 DEF Ledger!Settle, AtNode, Booked, UsersOn

(* Every step is one of the ledger, or nothing to it.                      *)
LEMMA StepLedger ==
  ASSUME Base, Exact, [Next]_vars PROVE [Ledger!Next]_Ledger!vars
<1>1. ASSUME NEW u \in Users, DisableUser(u) \/ EnableUser(u) \/ ResetUser(u) \/ ReviewUser(u)
      PROVE  [Ledger!Next]_Ledger!vars
  BY <1>1, SettleLedger DEF Ledger!Next
<1>2. CASE Collect \/ CollectLost
  <2>1. PICK b \in Batch : Deliver(b)
    BY <1>2 DEF Collect, CollectLost
  <2>2. UNCHANGED <<row, accounts, ghosts>>
    BY <1>2 DEF Collect, CollectLost
  <2>3. QED
    BY <2>1, <2>2, DeliverLedger, LedgerSteps
<1>3. CASE Store \/ StoreFails
  <2>1. UNCHANGED <<node, accounts, ghosts>> /\ held # 0 /\ (row' = row \/ row' = Staged(held))
    BY <1>3 DEF Store, StoreFails
  <2>2. CASE row' = row
    <3>1. LedgerRests
      BY <2>1, <2>2 DEF LedgerRests, node, accounts, ghosts, AtNode, StagedRows, Booked, UsersOn
    <3>2. QED
      BY <3>1, LedgerSteps
  <2>3. CASE row' = Staged(held)
    BY <2>1, <2>3, StageLedger, LedgerSteps
  <2>4. QED
    BY <2>1, <2>2, <2>3
<1>4. CASE AckUserUsage \/ AckLost
  <2>1. /\ Acknowledgeable /\ unacked' \in {unacked, 0} /\ (unacked' # unacked => unacked = held)
        /\ UNCHANGED <<made, sample, row, accounts, ghosts>>
    BY <1>4 DEF AckUserUsage, AckLost
  <2>2. QED
    BY <2>1, AckLedger, LedgerSteps
<1>5. CASE FlushStagedUsage
  BY <1>5, FlushTakes, FlushLedger DEF Ledger!Next
<1>6. CASE FlushStagedUsageHistory \/ PruneProcessedUsageQueue \/ Crash \/ UNCHANGED vars
  <2>1. UNCHANGED <<node, accounts, taken>>
    BY <1>6 DEF FlushStagedUsageHistory, PruneProcessedUsageQueue, Crash, vars, ghosts
  <2>2. StagedRows' = StagedRows
    <3>1. CASE FlushStagedUsageHistory
      <4>1. PICK S \in SUBSET {s \in Sample : HistoryDue(s)} :
              row' = [s \in Sample |-> IF s \in S THEN "done" ELSE row[s]]
        BY <3>1 DEF FlushStagedUsageHistory
      <4>2. QED
        BY <4>1 DEF StagedRows, HistoryDue
    <3>2. CASE PruneProcessedUsageQueue
      <4>1. PICK s \in Sample : row[s] = "done" /\ row' = [row EXCEPT ![s] = "none"]
        BY <3>2 DEF PruneProcessedUsageQueue
      <4>2. QED
        BY <4>1 DEF StagedRows, Base, Types
    <3>3. CASE Crash \/ UNCHANGED vars
      BY <3>3 DEF Crash, vars, StagedRows
    <3>4. QED
      BY <1>6, <3>1, <3>2, <3>3
  <2>3. LedgerRests
    BY <2>1, <2>2 DEF LedgerRests, node, accounts, AtNode, Booked, UsersOn
  <2>4. QED
    BY <2>3, LedgerSteps
<1>7. QED
  BY <1>1, <1>2, <1>3, <1>4, <1>5, <1>6 DEF Next

(* NodeUsage implements UsageLedger.                                       *)
THEOREM LedgerKeptEver == ASSUME ~Outage PROVE Spec => LedgerKept
<1>1. Init => Ledger!Init
  BY DEF Init, Ledger!Init, StagedRows
<1>2. Base /\ Exact /\ [Next]_vars => [Ledger!Next]_Ledger!vars
  BY StepLedger
<1>3. QED
  BY <1>1, <1>2, ExactEver, PTL DEF Spec, LedgerKept, Ledger!Spec
=============================================================================
