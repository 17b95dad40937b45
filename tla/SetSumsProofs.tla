----------------------------- MODULE SetSumsProofs -----------------------------
(***************************************************************************)
(* What the sums over finite sets obey: the sum of a set is the value at   *)
(* any of its elements and the sum of the rest.  The fold that defines it  *)
(* takes the elements in an order of its own.                              *)
(***************************************************************************)
EXTENDS SetSums, FiniteSetTheorems, WellFoundedInduction, TLAPS

(* A nonempty set of natural numbers has a least element.                  *)
LEMMA LeastNat == ASSUME NEW N \in SUBSET Nat, N # {} PROVE \E n \in N : \A m \in N : n <= m
<1> DEFINE R == OpToRel(<, Nat)
<1>1. IsWellFoundedOn(R, Nat)
  BY NatLessThanWellFounded
<1>2. \A x, y \in Nat : x < y => <<x, y>> \in R
  BY DEF OpToRel
<1> HIDE DEF R
<1>3. PICK n \in N : \A m \in N : ~(<<m, n>> \in R)
  BY <1>1, WFMin
<1>4. ASSUME NEW m \in N PROVE n <= m
  <2>1. m < n => <<m, n>> \in R
    BY <1>2
  <2> QED BY <1>3, <2>1
<1> QED BY <1>4

(* A set of sets that contains a subset of S once it contains all smaller  *)
(* ones contains them all.                                                 *)
LEMMA SubsetInduction ==
    ASSUME NEW S, IsFiniteSet(S), NEW G \in SUBSET SUBSET S,
           \A T \in SUBSET S : (\A U \in SUBSET T : U # T => U \in G) => T \in G
    PROVE  G = SUBSET S
<1> DEFINE B == {n \in Nat : \E T \in SUBSET S : T \notin G /\ Cardinality(T) = n}
<1> SUFFICES ASSUME NEW T0 \in SUBSET S, T0 \notin G PROVE FALSE
  OBVIOUS
<1>2. ASSUME NEW T \in SUBSET S PROVE IsFiniteSet(T) /\ Cardinality(T) \in Nat
  <2>1. IsFiniteSet(T)
    BY FS_Subset
  <2> QED BY <2>1, FS_CardinalityType
<1>3. Cardinality(T0) \in B /\ B \in SUBSET Nat
  BY <1>2
<1> HIDE DEF B
<1>6. PICK n \in B : \A m \in B : n <= m
  BY <1>3, LeastNat
<1>7. PICK T \in SUBSET S : T \notin G /\ Cardinality(T) = n
  BY <1>6 DEF B
<1>8. ASSUME NEW U \in SUBSET T, U # T PROVE U \in G
  <2>1. U \in SUBSET S
    OBVIOUS
  <2>2. /\ IsFiniteSet(T) /\ Cardinality(T) \in Nat /\ Cardinality(U) \in Nat
    BY <1>2, <2>1
  <2>3. Cardinality(U) <= Cardinality(T) /\ Cardinality(U) # Cardinality(T)
    BY <1>8, <2>2, FS_Subset
  <2>4. Cardinality(U) \notin B
    BY <1>6, <1>7, <2>2, <2>3
  <2> QED BY <2>1, <2>2, <2>4 DEF B
<1> QED BY <1>7, <1>8

First(s) == CHOOSE x \in s : TRUE

(* g gives the sum of f over every subset of S, one First after the other. *)
Sums(g, f, S) ==
    g = [s \in SUBSET S |-> IF s = {} THEN 0 ELSE f[First(s)] + g[s \ {First(s)}]]

LEMMA SumIsSums == ASSUME NEW f, NEW S PROVE SumOver(f, S) = (CHOOSE g : Sums(g, f, S))[S]
BY DEF SumOver, MapThenSumSet, MapThenFoldSet, Sums, First

LEMMA FirstIn == ASSUME NEW s, s # {} PROVE First(s) \in s
BY DEF First

(* Two such functions agree where both are defined.                        *)
LEMMA SumsAgree ==
    ASSUME NEW f, NEW S, IsFiniteSet(S), NEW T \in SUBSET S,
           NEW g, Sums(g, f, S), NEW h, Sums(h, f, T)
    PROVE  g[T] = h[T]
<1> DEFINE G == {s \in SUBSET T : g[s] = h[s]}
<1>1. IsFiniteSet(T)
  BY FS_Subset
<1>2. ASSUME NEW s \in SUBSET T, \A u \in SUBSET s : u # s => u \in G PROVE s \in G
  <2>1. /\ g[s] = IF s = {} THEN 0 ELSE f[First(s)] + g[s \ {First(s)}]
        /\ h[s] = IF s = {} THEN 0 ELSE f[First(s)] + h[s \ {First(s)}]
    <3>1. s \in SUBSET S
      OBVIOUS
    <3> QED BY <3>1 DEF Sums
  <2>2. CASE s = {}
    BY <2>1, <2>2
  <2>3. CASE s # {}
    <3>1. First(s) \in s
      BY <2>3, FirstIn
    <3>2. s \ {First(s)} \in G
      BY <1>2, <3>1
    <3> QED BY <2>1, <2>3, <3>2
  <2> QED BY <2>2, <2>3
<1> HIDE DEF G
<1>3. G \in SUBSET SUBSET T
  BY DEF G
<1>4. G = SUBSET T
  BY <1>1, <1>2, <1>3, SubsetInduction
<1> QED BY <1>4 DEF G

(* Over a finite set there is one.                                         *)
LEMMA SumsExist ==
    ASSUME NEW f, NEW S, IsFiniteSet(S)
    PROVE  /\ \E g : Sums(g, f, S)
           /\ SumOver(f, S) = IF S = {} THEN 0 ELSE f[First(S)] + SumOver(f, S \ {First(S)})
<1> DEFINE Rec(s) == IF s = {} THEN 0 ELSE f[First(s)] + SumOver(f, s \ {First(s)})
           G == {s \in SUBSET S : (\E g : Sums(g, f, s)) /\ SumOver(f, s) = Rec(s)}
<1>1. ASSUME NEW T \in SUBSET S, \A U \in SUBSET T : U # T => U \in G PROVE T \in G
  <2> DEFINE g == [s \in SUBSET T |-> Rec(s)]
  <2>1. ASSUME NEW s \in SUBSET T, s # {}
        PROVE  g[s \ {First(s)}] = SumOver(f, s \ {First(s)})
    <3>1. First(s) \in s
      BY <2>1, FirstIn
    <3>2. s \ {First(s)} \in SUBSET T /\ s \ {First(s)} # T
      BY <3>1
    <3>3. SumOver(f, s \ {First(s)}) = Rec(s \ {First(s)})
      BY <1>1, <3>2
    <3> QED BY <3>2, <3>3
  <2>2. \A s \in SUBSET T :
          Rec(s) = IF s = {} THEN 0 ELSE f[First(s)] + g[s \ {First(s)}]
    BY <2>1
  <2>3. Sums(g, f, T)
    <3> HIDE DEF Rec
    <3>1. g = [s \in SUBSET T |-> IF s = {} THEN 0 ELSE f[First(s)] + g[s \ {First(s)}]]
      <4> DEFINE r(s) == IF s = {} THEN 0 ELSE f[First(s)] + g[s \ {First(s)}]
      <4>1. \A s \in SUBSET T : Rec(s) = r(s)
        BY <2>2
      <4> HIDE DEF r
      <4>2. [s \in SUBSET T |-> Rec(s)] = [s \in SUBSET T |-> r(s)]
        BY <4>1
      <4> QED BY <4>2 DEF r
    <3> QED BY <3>1 DEF Sums
  <2> HIDE DEF g
  <2> DEFINE h == CHOOSE k : Sums(k, f, T)
  <2>4. Sums(h, f, T)
    BY <2>3
  <2> HIDE DEF h
  <2>5. SumOver(f, T) = h[T]
    BY SumIsSums DEF h
  <2>6. h[T] = IF T = {} THEN 0 ELSE f[First(T)] + h[T \ {First(T)}]
    BY <2>4 DEF Sums
  <2>7. CASE T = {}
    BY <2>3, <2>5, <2>6, <2>7
  <2>8. CASE T # {}
    <3> DEFINE U == T \ {First(T)}
    <3>1. First(T) \in T /\ U \in SUBSET T /\ U # T
      BY <2>8, FirstIn
    <3>2. \E k : Sums(k, f, U)
      BY <1>1, <3>1
    <3> DEFINE k == CHOOSE k : Sums(k, f, U)
    <3>3. Sums(k, f, U) /\ SumOver(f, U) = k[U]
      BY <3>2, SumIsSums
    <3>4. IsFiniteSet(T)
      BY FS_Subset
    <3> HIDE DEF k, U
    <3>5. h[U] = k[U]
      BY <2>4, <3>1, <3>3, <3>4, SumsAgree
    <3> QED BY <2>3, <2>5, <2>6, <2>8, <3>3, <3>5 DEF U
  <2> QED BY <2>7, <2>8
<1>2. G \in SUBSET SUBSET S
  OBVIOUS
<1> HIDE DEF G
<1>3. G = SUBSET S
  BY <1>1, <1>2, SubsetInduction
<1> QED BY <1>3 DEF G

LEMMA SumEmpty == ASSUME NEW f PROVE SumOver(f, {}) = 0
BY SumsExist, FS_EmptySet

LEMMA SumFirst ==
    ASSUME NEW f, NEW S, IsFiniteSet(S), S # {}
    PROVE  SumOver(f, S) = f[First(S)] + SumOver(f, S \ {First(S)})
BY SumsExist

LEMMA SumInt ==
    ASSUME NEW f, NEW S, IsFiniteSet(S), \A x \in S : f[x] \in Int
    PROVE  SumOver(f, S) \in Int
<1> DEFINE G == {T \in SUBSET S : SumOver(f, T) \in Int}
<1>1. ASSUME NEW T \in SUBSET S, \A U \in SUBSET T : U # T => U \in G PROVE T \in G
  <2>1. CASE T = {}
    BY <2>1, SumEmpty
  <2>2. CASE T # {}
    <3>1. First(T) \in T /\ IsFiniteSet(T)
      BY <2>2, FirstIn, FS_Subset
    <3>2. T \ {First(T)} \in G /\ f[First(T)] \in Int
      BY <1>1, <3>1
    <3>3. SumOver(f, T) = f[First(T)] + SumOver(f, T \ {First(T)})
      BY <2>2, <3>1, SumFirst
    <3>4. SumOver(f, T \ {First(T)}) \in Int
      BY <3>2
    <3> QED BY <3>2, <3>3, <3>4
  <2> QED BY <2>1, <2>2
<1>2. G \in SUBSET SUBSET S
  OBVIOUS
<1> HIDE DEF G
<1>3. G = SUBSET S
  BY <1>1, <1>2, SubsetInduction
<1> QED BY <1>3 DEF G

(* The sum depends on the values over the set only.                        *)
LEMMA SumSame ==
    ASSUME NEW f, NEW g, NEW S, IsFiniteSet(S), \A x \in S : f[x] = g[x]
    PROVE  SumOver(f, S) = SumOver(g, S)
<1> DEFINE G == {T \in SUBSET S : SumOver(f, T) = SumOver(g, T)}
<1>1. ASSUME NEW T \in SUBSET S, \A U \in SUBSET T : U # T => U \in G PROVE T \in G
  <2>1. CASE T = {}
    BY <2>1, SumEmpty
  <2>2. CASE T # {}
    <3>1. First(T) \in T /\ IsFiniteSet(T)
      BY <2>2, FirstIn, FS_Subset
    <3>2. T \ {First(T)} \in G /\ f[First(T)] = g[First(T)]
      BY <1>1, <3>1
    <3>3. /\ SumOver(f, T) = f[First(T)] + SumOver(f, T \ {First(T)})
          /\ SumOver(g, T) = g[First(T)] + SumOver(g, T \ {First(T)})
      BY <2>2, <3>1, SumFirst
    <3> QED BY <3>2, <3>3
  <2> QED BY <2>1, <2>2
<1>2. G \in SUBSET SUBSET S
  OBVIOUS
<1> HIDE DEF G
<1>3. G = SUBSET S
  BY <1>1, <1>2, SubsetInduction
<1> QED BY <1>3 DEF G

(* Any element may be taken first.                                         *)
THEOREM SumRemove ==
    ASSUME NEW f, NEW S, IsFiniteSet(S), \A x \in S : f[x] \in Int, NEW e \in S
    PROVE  SumOver(f, S) = f[e] + SumOver(f, S \ {e})
<1> DEFINE G == {T \in SUBSET S : \A x \in T : SumOver(f, T) = f[x] + SumOver(f, T \ {x})}
<1>1. ASSUME NEW T \in SUBSET S, \A U \in SUBSET T : U # T => U \in G PROVE T \in G
  <2> SUFFICES ASSUME NEW x \in T PROVE SumOver(f, T) = f[x] + SumOver(f, T \ {x})
    OBVIOUS
  <2> DEFINE c == First(T)
  <2>1. c \in T /\ IsFiniteSet(T) /\ SumOver(f, T) = f[c] + SumOver(f, T \ {c})
    <3>1. T # {} /\ IsFiniteSet(T)
      BY FS_Subset
    <3> QED BY <3>1, FirstIn, SumFirst
  <2> HIDE DEF c
  <2>2. CASE x = c
    BY <2>1, <2>2
  <2>3. CASE x # c
    <3> DEFINE rest == (T \ {c}) \ {x}
    <3>1. T \ {c} \in G /\ T \ {x} \in G
      BY <1>1, <2>1
    <3>2. x \in T \ {c} /\ c \in T \ {x} /\ rest = (T \ {x}) \ {c}
      BY <2>1, <2>3
    <3>3. /\ SumOver(f, T \ {c}) = f[x] + SumOver(f, rest)
          /\ SumOver(f, T \ {x}) = f[c] + SumOver(f, (T \ {x}) \ {c})
      BY <3>1, <3>2
    <3>4. IsFiniteSet(rest) /\ \A y \in rest : f[y] \in Int
      BY <2>1, FS_Subset
    <3>5. SumOver(f, rest) \in Int
      BY <3>4, SumInt
    <3>6. f[x] \in Int /\ f[c] \in Int
      BY <2>1
    <3> HIDE DEF rest
    <3> QED BY <2>1, <3>2, <3>3, <3>5, <3>6
  <2> QED BY <2>2, <2>3
<1>2. G \in SUBSET SUBSET S
  OBVIOUS
<1> HIDE DEF G
<1>3. G = SUBSET S
  BY <1>1, <1>2, SubsetInduction
<1> QED BY <1>3 DEF G

(* One element more, one less, one value changed.                          *)
LEMMA SumAdd ==
    ASSUME NEW f, NEW S, IsFiniteSet(S), NEW e, e \notin S,
           \A x \in S \cup {e} : f[x] \in Int
    PROVE  SumOver(f, S \cup {e}) = SumOver(f, S) + f[e]
<1> DEFINE T == S \cup {e}
<1>1. IsFiniteSet(T) /\ T \ {e} = S /\ e \in T
  BY FS_AddElement
<1>2. SumOver(f, S) \in Int /\ f[e] \in Int
  BY SumInt
<1> HIDE DEF T
<1>3. SumOver(f, T) = f[e] + SumOver(f, T \ {e})
  BY <1>1, SumRemove DEF T
<1>4. SumOver(f, T) = f[e] + SumOver(f, S)
  BY <1>1, <1>3
<1>5. SumOver(f, T) = SumOver(f, S) + f[e]
  BY <1>2, <1>4
<1> QED BY <1>5 DEF T

LEMMA SumChange ==
    ASSUME NEW f, NEW g, NEW S, IsFiniteSet(S), \A x \in S : f[x] \in Int /\ g[x] \in Int,
           NEW e \in S, \A x \in S : x # e => f[x] = g[x]
    PROVE  SumOver(g, S) = SumOver(f, S) - f[e] + g[e]
<1>1. IsFiniteSet(S \ {e}) /\ \A x \in S \ {e} : f[x] = g[x]
  BY FS_Subset
<1>2. SumOver(f, S \ {e}) = SumOver(g, S \ {e})
  BY <1>1, SumSame
<1>3. SumOver(f, S) = f[e] + SumOver(f, S \ {e}) /\ SumOver(g, S) = g[e] + SumOver(g, S \ {e})
  BY SumRemove
<1>4. SumOver(f, S \ {e}) \in Int
  BY <1>1, SumInt
<1> QED BY <1>2, <1>3, <1>4

(* A sum of zeros, and of values of which none is greater than another's.  *)
LEMMA SumZero ==
    ASSUME NEW f, NEW S, IsFiniteSet(S), \A x \in S : f[x] = 0
    PROVE  SumOver(f, S) = 0
<1> DEFINE G == {T \in SUBSET S : SumOver(f, T) = 0}
<1>1. ASSUME NEW T \in SUBSET S, \A U \in SUBSET T : U # T => U \in G PROVE T \in G
  <2>1. CASE T = {}
    BY <2>1, SumEmpty
  <2>2. CASE T # {}
    <3>1. First(T) \in T /\ IsFiniteSet(T)
      BY <2>2, FirstIn, FS_Subset
    <3>2. T \ {First(T)} \in G /\ f[First(T)] = 0
      BY <1>1, <3>1
    <3>3. SumOver(f, T) = f[First(T)] + SumOver(f, T \ {First(T)})
      BY <2>2, <3>1, SumFirst
    <3>4. SumOver(f, T \ {First(T)}) = 0
      BY <3>2
    <3> QED BY <3>2, <3>3, <3>4
  <2> QED BY <2>1, <2>2
<1>2. G \in SUBSET SUBSET S
  OBVIOUS
<1> HIDE DEF G
<1>3. G = SUBSET S
  BY <1>1, <1>2, SubsetInduction
<1> QED BY <1>3 DEF G
===============================================================================
