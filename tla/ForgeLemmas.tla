---------------------------- MODULE ForgeLemmas ----------------------------
(***************************************************************************)
(* Lemmas about what the models of Forge are built from: lists of errors    *)
(* (Failed, of ForgePlan), and sums over finite sets (SumFunctionOnSet), in *)
(* which the lengths of files are added up.                                 *)
(***************************************************************************)
EXTENDS ForgePlan, Functions, FiniteSetTheorems, WellFoundedInduction, TLAPS

(* A list of errors is empty exactly when every check succeeded. *)
LEMMA NoneFailed ==
    ASSUME NEW f, Failed(f) = {}, NEW c \in DOMAIN f
    PROVE  f[c]
BY DEF Failed

LEMMA AllPassed ==
    ASSUME NEW f, \A c \in DOMAIN f : f[c] PROVE Failed(f) = {}
BY DEF Failed

LEMMA LeastElement ==
    ASSUME NEW S \in SUBSET Nat, S # {}
    PROVE  \E k \in S : \A j \in S : k <= j
<1>1. PICK k \in S : \A j \in S : ~(<<j, k>> \in OpToRel(<, Nat))
  BY WFMin, NatLessThanWellFounded
<1>2. ASSUME NEW j \in S PROVE k <= j
  <2>1. j \in Nat /\ k \in Nat
    OBVIOUS
  <2>2. ~(<<j, k>> \in {ss \in Nat \X Nat : ss[1] < ss[2]})
    BY <1>1 DEF OpToRel
  <2> QED BY <2>1, <2>2
<1> QED BY <1>2

-----------------------------------------------------------------------------
(***************************************************************************)
(* A sum is what any function of the sets of indices says that adds up, for *)
(* every index of every set.                                                *)
(***************************************************************************)
AddsUp(f, S, h) ==
    h[{}] = 0 /\ \A T \in SUBSET S : \A x \in T : h[T] = f[x] + h[T \ {x}]

LEMMA SumIs ==
    ASSUME NEW f, NEW S, NEW h, IsFiniteSet(S), AddsUp(f, S, h)
    PROVE  SumFunctionOnSet(f, S) = h[S]
<1>1. /\ IsFiniteSet(S) /\ h[{}] = 0
      /\ \A T \in SUBSET S : \A x \in T : h[T] = f[x] + h[T \ {x}]
  BY DEF AddsUp
<1> DEFINE any(s) == CHOOSE x \in s : TRUE
           next(i) == [s \in SUBSET S |->
                          IF s = {} THEN 0 ELSE f[any(s)] + i[s \ {any(s)}]]
           iter == CHOOSE i : i = next(i)
           table == [s \in SUBSET S |-> h[s]]
<1>2. ASSUME NEW s, s # {} PROVE any(s) \in s
  BY <1>2
<1>3. SumFunctionOnSet(f, S) = iter[S]
  BY DEF SumFunctionOnSet, FoldFunctionOnSet, MapThenFoldSet
<1> HIDE DEF any
<1>4. table = next(table)
  <2>1. ASSUME NEW s \in SUBSET S PROVE table[s] = next(table)[s]
    <3>1. CASE s = {}
      BY <1>1, <3>1
    <3>2. CASE s # {}
      <4>1. any(s) \in s /\ s \ {any(s)} \in SUBSET S
        BY <1>2, <3>2
      <4>2. h[s] = f[any(s)] + h[s \ {any(s)}]
        BY <1>1, <4>1
      <4> QED BY <3>2, <4>1, <4>2
    <3> QED BY <3>1, <3>2
  <2> QED BY <2>1
<1> HIDE DEF next
<1>5. iter = next(iter)
  BY <1>4
<1> HIDE DEF iter
<1>6. ASSUME NEW s \in SUBSET S PROVE iter[s] = IF s = {} THEN 0 ELSE f[any(s)] + iter[s \ {any(s)}]
  BY <1>5 DEF next
<1> DEFINE wrong == {n \in Nat : \E s \in SUBSET S : Cardinality(s) = n /\ iter[s] # h[s]}
<1>7. wrong = {}
  <2> SUFFICES ASSUME wrong # {} PROVE FALSE
    OBVIOUS
  <2>1. PICK n \in wrong : \A m \in wrong : n <= m
    <3>1. wrong \in SUBSET Nat
      OBVIOUS
    <3> QED BY <3>1, LeastElement
  <2>2. PICK s \in SUBSET S : Cardinality(s) = n /\ iter[s] # h[s]
    OBVIOUS
  <2>3. s # {}
    BY <1>1, <1>6, <2>2
  <2> DEFINE t == s \ {any(s)}
  <2>4. t \in SUBSET S /\ any(s) \in s /\ IsFiniteSet(s)
    BY <1>1, <1>2, <2>3, FS_Subset
  <2>5. Cardinality(t) = n - 1 /\ n - 1 \in Nat
    <3>1. IsFiniteSet(t) /\ Cardinality(t) = Cardinality(s) - 1
      BY <2>4, FS_RemoveElement
    <3> HIDE DEF t
    <3>2. Cardinality(t) \in Nat
      BY <3>1, FS_CardinalityType
    <3> QED BY <2>2, <3>1, <3>2
  <2>6. iter[t] = h[t]
    BY <2>1, <2>4, <2>5
  <2> QED BY <1>1, <1>6, <2>2, <2>3, <2>4, <2>6
<1>8. Cardinality(S) \in Nat /\ S \in SUBSET S
  BY <1>1, FS_CardinalityType
<1> QED BY <1>3, <1>7, <1>8

LEMMA SumOfEqual ==
    ASSUME NEW S, IsFiniteSet(S), NEW k \in Nat, NEW f, \A x \in S : f[x] = k
    PROVE  SumFunctionOnSet(f, S) = Cardinality(S) * k
<1> DEFINE h == [T \in SUBSET S |-> Cardinality(T) * k]
<1>1. h[{}] = 0
  BY FS_EmptySet
<1>2. ASSUME NEW T \in SUBSET S, NEW x \in T PROVE h[T] = f[x] + h[T \ {x}]
  <2>1. IsFiniteSet(T) /\ T \ {x} \in SUBSET S
    BY FS_Subset
  <2>2. IsFiniteSet(T \ {x}) /\ Cardinality(T \ {x}) = Cardinality(T) - 1
    BY <2>1, FS_RemoveElement
  <2>3. Cardinality(T) \in Nat
    BY <2>1, FS_CardinalityType
  <2>4. ASSUME NEW c \in Nat PROVE c * k = k + (c - 1) * k
    OBVIOUS
  <2>5. Cardinality(T) * k = k + (Cardinality(T) - 1) * k
    BY <2>3, <2>4
  <2> QED BY <2>1, <2>2, <2>5
<1>3. h[S] = Cardinality(S) * k
  OBVIOUS
<1> HIDE DEF h
<1>4. AddsUp(f, S, h)
  BY <1>1, <1>2 DEF AddsUp
<1> QED BY <1>3, <1>4, SumIs

-----------------------------------------------------------------------------
(* Natural numbers always have a sum, in whichever order they are added. *)
LEMMA SumExists ==
    ASSUME NEW S, IsFiniteSet(S), NEW f, \A x \in S : f[x] \in Nat
    PROVE  \E h \in [SUBSET S -> Nat] : AddsUp(f, S, h)
<1> DEFINE good(T) == \E h \in [SUBSET T -> Nat] : AddsUp(f, T, h)
           wrong == {n \in Nat : \E T \in SUBSET S : Cardinality(T) = n /\ ~good(T)}
<1>1. ASSUME NEW T \in SUBSET S, NEW x \in T, good(T \ {x}) PROVE good(T)
  <2>1. PICK g \in [SUBSET (T \ {x}) -> Nat] : AddsUp(f, T \ {x}, g)
    BY <1>1
  <2> DEFINE h == [U \in SUBSET T |-> IF x \in U THEN f[x] + g[U \ {x}] ELSE g[U]]
  <2>2. g[{}] = 0 /\ \A U \in SUBSET (T \ {x}) : \A y \in U : g[U] = f[y] + g[U \ {y}]
    BY <2>1 DEF AddsUp
  <2>3. \A U \in SUBSET T : U \ {x} \in SUBSET (T \ {x}) /\ g[U \ {x}] \in Nat
    OBVIOUS
  <2>4. ASSUME NEW U \in SUBSET T, x \notin U PROVE U \in SUBSET (T \ {x}) /\ g[U] \in Nat
    BY <2>4
  <2>5. h \in [SUBSET T -> Nat]
    <3>1. ASSUME NEW U \in SUBSET T PROVE h[U] \in Nat
      BY <2>3, <2>4
    <3> QED BY <3>1
  <2>6. ASSUME NEW U \in SUBSET T, NEW y \in U PROVE h[U] = f[y] + h[U \ {y}]
    <3>1. CASE y = x
      <4>1. h[U] = f[x] + g[U \ {x}] /\ h[U \ {x}] = g[U \ {x}]
        BY <3>1
      <4> QED BY <3>1, <4>1
    <3>2. CASE y # x /\ x \in U
      <4> DEFINE V == U \ {x}
      <4>1. V \in SUBSET (T \ {x}) /\ y \in V /\ V \ {y} \in SUBSET (T \ {x})
        BY <3>2
      <4>2. h[U] = f[x] + g[V] /\ h[U \ {y}] = f[x] + g[V \ {y}]
        <5>1. (U \ {y}) \ {x} = V \ {y}
          OBVIOUS
        <5> QED BY <3>2, <5>1
      <4>3. g[V] = f[y] + g[V \ {y}]
        BY <2>2, <4>1
      <4>4. f[x] \in Nat /\ f[y] \in Nat /\ g[V \ {y}] \in Nat
        BY <4>1
      <4> HIDE DEF V, h
      <4> QED BY <4>2, <4>3, <4>4
    <3>3. CASE x \notin U
      <4>1. h[U] = g[U] /\ h[U \ {y}] = g[U \ {y}] /\ U \in SUBSET (T \ {x})
        BY <3>3
      <4> QED BY <2>2, <4>1
    <3> QED BY <3>1, <3>2, <3>3
  <2>7. h[{}] = 0
    BY <2>2
  <2> HIDE DEF h
  <2>8. AddsUp(f, T, h)
    BY <2>6, <2>7 DEF AddsUp
  <2> QED BY <2>5, <2>8
<1>2. good({})
  <2> DEFINE h == [U \in SUBSET {} |-> 0]
  <2>1. h \in [SUBSET {} -> Nat] /\ AddsUp(f, {}, h)
    BY DEF AddsUp
  <2> QED BY <2>1
<1> HIDE DEF good
<1>3. wrong = {}
  <2> SUFFICES ASSUME wrong # {} PROVE FALSE
    OBVIOUS
  <2>1. PICK n \in wrong : \A m \in wrong : n <= m
    <3>1. wrong \in SUBSET Nat
      OBVIOUS
    <3> QED BY <3>1, LeastElement
  <2>2. PICK T \in SUBSET S : Cardinality(T) = n /\ ~good(T)
    OBVIOUS
  <2>3. PICK x \in T : TRUE
    BY <1>2, <2>2
  <2> DEFINE U == T \ {x}
  <2>4. IsFiniteSet(T) /\ U \in SUBSET S
    BY FS_Subset
  <2>5. Cardinality(U) = n - 1 /\ n - 1 \in Nat
    <3>1. IsFiniteSet(U) /\ Cardinality(U) = Cardinality(T) - 1
      BY <2>4, FS_RemoveElement
    <3> HIDE DEF U
    <3>2. Cardinality(U) \in Nat
      BY <3>1, FS_CardinalityType
    <3> QED BY <2>2, <3>1, <3>2
  <2>6. good(U)
    BY <2>1, <2>4, <2>5
  <2> QED BY <1>1, <2>2, <2>6
<1>4. Cardinality(S) \in Nat /\ S \in SUBSET S
  BY FS_CardinalityType
<1>5. good(S)
  BY <1>3, <1>4
<1> QED BY <1>5 DEF good

LEMMA SumType ==
    ASSUME NEW S, IsFiniteSet(S), NEW f, \A x \in S : f[x] \in Nat
    PROVE  SumFunctionOnSet(f, S) \in Nat
<1>1. PICK h \in [SUBSET S -> Nat] : AddsUp(f, S, h)
  BY SumExists
<1>2. SumFunctionOnSet(f, S) = h[S]
  BY <1>1, SumIs
<1> QED BY <1>2

LEMMA SumOfSame ==
    ASSUME NEW S, IsFiniteSet(S), NEW f, NEW g, \A x \in S : f[x] \in Nat /\ g[x] = f[x]
    PROVE  SumFunctionOnSet(g, S) = SumFunctionOnSet(f, S)
<1>1. PICK h \in [SUBSET S -> Nat] : AddsUp(f, S, h)
  BY SumExists
<1>2. AddsUp(g, S, h)
  BY <1>1 DEF AddsUp
<1> QED BY <1>1, <1>2, SumIs

(* One term changes, and the sum by as much. *)
LEMMA SumChange ==
    ASSUME NEW S, IsFiniteSet(S), NEW f, NEW g, NEW x \in S,
           \A y \in S : f[y] \in Nat /\ g[y] \in Nat /\ (y # x => g[y] = f[y])
    PROVE  SumFunctionOnSet(g, S) + f[x] = SumFunctionOnSet(f, S) + g[x]
<1> DEFINE T == S \ {x}
<1>1. ASSUME NEW e, \A y \in S : e[y] \in Nat
      PROVE  SumFunctionOnSet(e, S) = e[x] + SumFunctionOnSet(e, T)
  <2>1. PICK h \in [SUBSET S -> Nat] : AddsUp(e, S, h)
    BY <1>1, SumExists
  <2>2. h[{}] = 0 /\ \A U \in SUBSET S : \A y \in U : h[U] = e[y] + h[U \ {y}]
    BY <2>1 DEF AddsUp
  <2>3. AddsUp(e, T, h)
    BY <2>2 DEF AddsUp
  <2>4. IsFiniteSet(T)
    BY FS_Subset
  <2>5. SumFunctionOnSet(e, S) = h[S] /\ SumFunctionOnSet(e, T) = h[T]
    BY <2>1, <2>3, <2>4, SumIs
  <2> QED BY <2>2, <2>5
<1>2. IsFiniteSet(T)
  BY FS_Subset
<1>3. SumFunctionOnSet(g, T) = SumFunctionOnSet(f, T)
  BY <1>2, SumOfSame
<1>4. SumFunctionOnSet(f, T) \in Nat /\ f[x] \in Nat /\ g[x] \in Nat
  BY <1>2, SumType
<1> QED BY <1>1, <1>3, <1>4
=============================================================================
