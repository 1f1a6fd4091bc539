---------------------------- MODULE SumTheorems ----------------------------
(***************************************************************************)
(* Sums over finite sets: what adding or removing an element, changing one *)
(* summand or dropping summands does to MapThenSumSet, for every finite    *)
(* set.  The balances of all wallets, the holds of a wallet and the        *)
(* payments that touched it are added up with it.                          *)
(*                                                                         *)
(* The sum is a function recursive over the subsets of the set.  Instead   *)
(* of an induction over it, each proof takes a smallest set that would be  *)
(* a counterexample.                                                       *)
(***************************************************************************)
EXTENDS Integers, FiniteSets, FiniteSetsExt, FiniteSetTheorems, TLAPS

SumOn(f, S) == MapThenSumSet(LAMBDA x : f[x], S)

Integral(f, S) == \A x \in S : f[x] \in Int

Pick(S) == CHOOSE x \in S : TRUE

\* g adds up f over every subset of S, one element after the other.
Adds(g, f, S) ==
    g = [T \in SUBSET S |-> IF T = {} THEN 0 ELSE f[Pick(T)] + g[T \ {Pick(T)}]]

Running(f, S) == CHOOSE g : Adds(g, f, S)

LEMMA Unfold == ASSUME NEW f, NEW S PROVE SumOn(f, S) = Running(f, S)[S]
BY DEF SumOn, Running, Adds, Pick, MapThenSumSet, MapThenFoldSet

LEMMA Smallest ==
    ASSUME NEW S, IsFiniteSet(S), NEW B \in SUBSET SUBSET S, B # {}
    PROVE  \E T \in B : \A U \in SUBSET T : U \in B => U = T
<1>1. IsWellFoundedOn(StrictSubsetOrdering(S), SUBSET S)
  BY FS_StrictSubsetOrderingWellFounded, FS_FiniteSubsetsOfFinite
<1>2. PICK T \in B : \A U \in B : <<U, T>> \notin StrictSubsetOrdering(S)
  BY <1>1, WFMin, Zenon
<1>3. QED
  BY <1>2 DEF StrictSubsetOrdering

LEMMA PickIn == ASSUME NEW S, S # {} PROVE Pick(S) \in S
BY DEF Pick

\* Two running sums agree where both are defined.
LEMMA Agree ==
    ASSUME NEW f, NEW g, NEW h, NEW S, NEW T, IsFiniteSet(S), T \subseteq S,
           Adds(g, f, S), Adds(h, f, T), NEW U \in SUBSET T
    PROVE  g[U] = h[U]
<1> DEFINE B == {V \in SUBSET T : g[V] # h[V]}
<1>0. IsFiniteSet(T)
  BY FS_Subset
<1>1. SUFFICES ASSUME B # {} PROVE FALSE
  OBVIOUS
<1>2. PICK V \in B : \A W \in SUBSET V : W \in B => W = V
  <2>1. B \in SUBSET SUBSET T
    OBVIOUS
  <2> HIDE DEF B
  <2>2. QED
    BY <1>0, <1>1, <2>1, Smallest
<1>3. CASE V = {}
  BY <1>3 DEF Adds
<1>4. CASE V # {}
  <2>1. Pick(V) \in V
    BY <1>4, PickIn
  <2>2. g[V \ {Pick(V)}] = h[V \ {Pick(V)}]
    BY <1>2, <2>1
  <2>3. V \in SUBSET S /\ V \in SUBSET T
    OBVIOUS
  <2>4. g[V] = f[Pick(V)] + g[V \ {Pick(V)}] /\ h[V] = f[Pick(V)] + h[V \ {Pick(V)}]
    BY <1>4, <2>3 DEF Adds
  <2>5. QED
    BY <2>2, <2>4
<1>5. QED
  BY <1>3, <1>4

\* Running sums exist.
LEMMA Exists ==
    ASSUME NEW f, NEW S, IsFiniteSet(S)
    PROVE  Adds(Running(f, S), f, S)
<1> DEFINE B == {T \in SUBSET S : ~ \E g : Adds(g, f, T)}
<1>1. SUFFICES ASSUME B # {} PROVE FALSE
  BY DEF Running
<1>2. PICK T \in B : \A U \in SUBSET T : U \in B => U = T
  <2>1. B \in SUBSET SUBSET S
    OBVIOUS
  <2> HIDE DEF B
  <2>2. QED
    BY <1>1, <2>1, Smallest
<1>3. \A U \in SUBSET T : U # T => Adds(Running(f, U), f, U)
  BY <1>2 DEF Running
<1> DEFINE Below(s) == Running(f, s)[s]
           g == [s \in SUBSET T |-> IF s = {} THEN 0 ELSE f[Pick(s)] + Below(s \ {Pick(s)})]
<1>4. \A U \in SUBSET T : U # T => g[U] = Below(U)
  <2> SUFFICES ASSUME NEW U \in SUBSET T, U # T PROVE g[U] = Below(U)
    OBVIOUS
  <2>1. Adds(Running(f, U), f, U)
    BY <1>3
  <2>2. CASE U = {}
    BY <2>1, <2>2 DEF Adds
  <2>3. CASE U # {}
    <3>1. Pick(U) \in U
      BY <2>3, PickIn
    <3> DEFINE V == U \ {Pick(U)}
    <3>2. V \in SUBSET U /\ V \in SUBSET T /\ V # T /\ IsFiniteSet(U)
      BY <3>1, FS_Subset
    <3>3. Running(f, U)[V] = Below(V)
      <4>1. Adds(Running(f, V), f, V)
        BY <1>3, <3>2
      <4> HIDE DEF V
      <4>2. QED
        BY <2>1, <3>2, <4>1, Agree
    <3>4. Running(f, U)[U] = f[Pick(U)] + Running(f, U)[V]
      BY <2>1, <2>3 DEF Adds
    <3>5. g[U] = f[Pick(U)] + Below(V)
      BY <2>3
    <3>6. QED
      BY <3>3, <3>4, <3>5
  <2>4. QED
    BY <2>2, <2>3
<1>5. Adds(g, f, T)
  <2>1. \A s \in SUBSET T : s # {} => Below(s \ {Pick(s)}) = g[s \ {Pick(s)}]
    <3> SUFFICES ASSUME NEW s \in SUBSET T, s # {}
                 PROVE  Below(s \ {Pick(s)}) = g[s \ {Pick(s)}]
      OBVIOUS
    <3>1. Pick(s) \in s
      BY PickIn
    <3>2. s \ {Pick(s)} \in SUBSET T /\ s \ {Pick(s)} # T
      BY <3>1
    <3> HIDE DEF g
    <3>3. QED
      BY <1>4, <3>2
  <2>2. g = [s \in SUBSET T |-> IF s = {} THEN 0 ELSE f[Pick(s)] + g[s \ {Pick(s)}]]
    BY <2>1, Zenon
  <2>3. QED
    BY <2>2 DEF Adds
<1>6. QED
  BY <1>5

-----------------------------------------------------------------------------
LEMMA SumEmpty == ASSUME NEW f PROVE SumOn(f, {}) = 0
<1>1. Adds(Running(f, {}), f, {})
  BY Exists, FS_EmptySet
<1>2. QED
  BY <1>1, Unfold DEF Adds

\* The element that the recursion takes first can be taken off the sum.
LEMMA SumPick ==
    ASSUME NEW f, NEW S, IsFiniteSet(S), S # {}
    PROVE  SumOn(f, S) = f[Pick(S)] + SumOn(f, S \ {Pick(S)})
<1> DEFINE T == S \ {Pick(S)}
<1>1. T \in SUBSET S /\ IsFiniteSet(T)
  BY FS_Subset
<1>2. Adds(Running(f, S), f, S) /\ Adds(Running(f, T), f, T)
  BY <1>1, Exists
<1>3. Running(f, S)[T] = Running(f, T)[T]
  BY <1>1, <1>2, Agree
<1>4. Running(f, S)[S] = f[Pick(S)] + Running(f, S)[T]
  BY <1>2 DEF Adds
<1>5. QED
  BY <1>3, <1>4, Unfold

\* A sum of integers is an integer.
LEMMA SumType ==
    ASSUME NEW f, NEW S, IsFiniteSet(S), Integral(f, S)
    PROVE  SumOn(f, S) \in Int
<1> DEFINE B == {T \in SUBSET S : SumOn(f, T) \notin Int}
<1>1. SUFFICES ASSUME B # {} PROVE FALSE
  OBVIOUS
<1>2. PICK T \in B : \A U \in SUBSET T : U \in B => U = T
  <2>1. B \in SUBSET SUBSET S
    OBVIOUS
  <2> HIDE DEF B
  <2>2. QED
    BY <1>1, <2>1, Smallest
<1>3. T # {}
  BY SumEmpty
<1>4. Pick(T) \in T /\ IsFiniteSet(T)
  BY <1>3, PickIn, FS_Subset
<1>5. SumOn(f, T \ {Pick(T)}) \in Int
  BY <1>2, <1>4
<1>6. QED
  BY <1>3, <1>4, <1>5, SumPick DEF Integral

\* Any element can be taken off the sum.
LEMMA SumRemove ==
    ASSUME NEW f, NEW S, IsFiniteSet(S), Integral(f, S), NEW x \in S
    PROVE  SumOn(f, S) = f[x] + SumOn(f, S \ {x})
<1> DEFINE B == {T \in SUBSET S : \E y \in T : SumOn(f, T) # f[y] + SumOn(f, T \ {y})}
<1>1. SUFFICES ASSUME B # {} PROVE FALSE
  OBVIOUS
<1>2. PICK T \in B : \A U \in SUBSET T : U \in B => U = T
  <2>1. B \in SUBSET SUBSET S
    OBVIOUS
  <2> HIDE DEF B
  <2>2. QED
    BY <1>1, <2>1, Smallest
<1>3. PICK y \in T : SumOn(f, T) # f[y] + SumOn(f, T \ {y})
  OBVIOUS
<1> DEFINE p == Pick(T)
<1>4. p \in T /\ IsFiniteSet(T) /\ SumOn(f, T) = f[p] + SumOn(f, T \ {p})
  BY <1>3, PickIn, FS_Subset, SumPick
<1>5. p # y
  BY <1>3, <1>4
<1>6. ASSUME NEW a \in T, NEW b \in T, a # b
      PROVE  SumOn(f, T \ {a}) = f[b] + SumOn(f, (T \ {a}) \ {b})
  <2>1. T \ {a} \in SUBSET T /\ T \ {a} # T /\ b \in T \ {a}
    BY <1>6
  <2>2. T \ {a} \notin B
    BY <1>2, <2>1
  <2>3. QED
    BY <2>1, <2>2
<1>7. SumOn(f, T \ {p}) = f[y] + SumOn(f, (T \ {p}) \ {y})
  BY <1>4, <1>5, <1>6
<1>8. SumOn(f, T \ {y}) = f[p] + SumOn(f, (T \ {p}) \ {y})
  <2>1. (T \ {p}) \ {y} = (T \ {y}) \ {p}
    OBVIOUS
  <2>2. QED
    BY <1>4, <1>5, <1>6, <2>1
<1>9. f[p] \in Int /\ f[y] \in Int /\ SumOn(f, (T \ {p}) \ {y}) \in Int
  <2>1. (T \ {p}) \ {y} \in SUBSET S
    OBVIOUS
  <2> HIDE DEF p
  <2>2. IsFiniteSet((T \ {p}) \ {y}) /\ Integral(f, (T \ {p}) \ {y})
    BY <2>1, FS_Subset DEF Integral
  <2>3. QED
    BY <1>4, <2>2, SumType DEF Integral
<1> HIDE DEF p
<1>10. SumOn(f, T) = f[y] + SumOn(f, T \ {y})
  BY <1>4, <1>7, <1>8, <1>9
<1>11. QED
  BY <1>3, <1>10

\* Functions that agree on a set have the same sum over it.
LEMMA SumSame ==
    ASSUME NEW f, NEW g, NEW S, IsFiniteSet(S), \A x \in S : f[x] = g[x]
    PROVE  SumOn(f, S) = SumOn(g, S)
<1> DEFINE B == {T \in SUBSET S : SumOn(f, T) # SumOn(g, T)}
<1>1. SUFFICES ASSUME B # {} PROVE FALSE
  OBVIOUS
<1>2. PICK T \in B : \A U \in SUBSET T : U \in B => U = T
  <2>1. B \in SUBSET SUBSET S
    OBVIOUS
  <2> HIDE DEF B
  <2>2. QED
    BY <1>1, <2>1, Smallest
<1>3. T # {}
  BY SumEmpty
<1>4. Pick(T) \in T /\ IsFiniteSet(T)
  BY <1>3, PickIn, FS_Subset
<1>5. SumOn(f, T \ {Pick(T)}) = SumOn(g, T \ {Pick(T)})
  BY <1>2, <1>4
<1>6. QED
  BY <1>2, <1>3, <1>4, <1>5, SumPick

\* One summand grows by n, and so does the sum.
LEMMA SumGain ==
    ASSUME NEW f, NEW g, NEW S, IsFiniteSet(S), Integral(f, S), NEW a \in S, NEW n \in Int,
           g[a] = f[a] + n, \A x \in S : x # a => g[x] = f[x]
    PROVE  SumOn(g, S) = SumOn(f, S) + n
<1>1. IsFiniteSet(S \ {a}) /\ Integral(f, S \ {a}) /\ Integral(g, S)
  BY FS_RemoveElement DEF Integral
<1>2. SumOn(f, S \ {a}) = SumOn(g, S \ {a})
  BY <1>1, SumSame
<1>3. SumOn(f, S) = f[a] + SumOn(f, S \ {a}) /\ SumOn(g, S) = g[a] + SumOn(g, S \ {a})
  BY <1>1, SumRemove
<1>4. SumOn(f, S \ {a}) \in Int /\ f[a] \in Int
  BY <1>1, SumType DEF Integral
<1>5. QED
  BY <1>2, <1>3, <1>4

\* One summand gives n to another: the sum stays.
LEMMA SumExchange ==
    ASSUME NEW f, NEW g, NEW S, IsFiniteSet(S), Integral(f, S),
           NEW a \in S, NEW b \in S, a # b, NEW n \in Int,
           g[a] = f[a] - n, g[b] = f[b] + n, \A x \in S : x \notin {a, b} => g[x] = f[x]
    PROVE  SumOn(g, S) = SumOn(f, S)
<1>1. IsFiniteSet(S \ {b}) /\ Integral(f, S \ {b}) /\ Integral(g, S)
  BY FS_RemoveElement DEF Integral
<1>2. -n \in Int /\ g[a] = f[a] + (-n) /\ f[b] \in Int
  BY DEF Integral
<1>3. SumOn(g, S \ {b}) = SumOn(f, S \ {b}) + (-n)
  BY <1>1, <1>2, SumGain
<1>4. SumOn(f, S) = f[b] + SumOn(f, S \ {b}) /\ SumOn(g, S) = g[b] + SumOn(g, S \ {b})
  BY <1>1, SumRemove
<1>5. SumOn(f, S \ {b}) \in Int
  BY <1>1, SumType
<1>6. QED
  BY <1>2, <1>3, <1>4, <1>5

\* A new element adds its summand.
LEMMA SumAdd ==
    ASSUME NEW f, NEW S, IsFiniteSet(S), NEW x, x \notin S, Integral(f, S \cup {x})
    PROVE  SumOn(f, S \cup {x}) = SumOn(f, S) + f[x]
<1>1. IsFiniteSet(S \cup {x}) /\ (S \cup {x}) \ {x} = S /\ Integral(f, S)
  BY FS_AddElement DEF Integral
<1>2. SumOn(f, S) \in Int /\ f[x] \in Int
  BY <1>1, SumType DEF Integral
<1>3. SumOn(f, S \cup {x}) = f[x] + SumOn(f, S)
  BY <1>1, SumRemove
<1>4. QED
  BY <1>2, <1>3

\* Where no summand is negative, dropping some makes no sum larger.
LEMMA SumSubset ==
    ASSUME NEW f, NEW S, IsFiniteSet(S), \A x \in S : f[x] \in Nat, NEW R \in SUBSET S
    PROVE  SumOn(f, R) <= SumOn(f, S)
<1> DEFINE B == {T \in SUBSET S : R \subseteq T /\ ~ (SumOn(f, R) <= SumOn(f, T))}
<1>1. SUFFICES ASSUME B # {} PROVE FALSE
  OBVIOUS
<1>2. PICK T \in B : \A U \in SUBSET T : U \in B => U = T
  <2>1. B \in SUBSET SUBSET S
    OBVIOUS
  <2> HIDE DEF B
  <2>2. QED
    BY <1>1, <2>1, Smallest
<1>3. \A U \in SUBSET S : IsFiniteSet(U) /\ Integral(f, U) /\ SumOn(f, U) \in Int
  BY FS_Subset, SumType DEF Integral
<1>4. R \subseteq T /\ R # T
  BY <1>2, <1>3
<1>5. PICK x \in T : x \notin R
  <2> HIDE DEF B
  <2>1. QED
    BY <1>4
<1>6. SumOn(f, R) <= SumOn(f, T \ {x})
  BY <1>2, <1>5
<1>7. SumOn(f, T) = f[x] + SumOn(f, T \ {x}) /\ f[x] \in Nat
  BY <1>3, <1>5, SumRemove
<1>8. SumOn(f, T) \in Int /\ SumOn(f, T \ {x}) \in Int /\ SumOn(f, R) \in Int
  BY <1>3
<1>9. QED
  BY <1>2, <1>6, <1>7, <1>8

\* Nothing but zeros adds up to zero.
LEMMA SumZero ==
    ASSUME NEW f, NEW S, IsFiniteSet(S), \A x \in S : f[x] = 0
    PROVE  SumOn(f, S) = 0
<1> DEFINE B == {T \in SUBSET S : SumOn(f, T) # 0}
<1>1. SUFFICES ASSUME B # {} PROVE FALSE
  OBVIOUS
<1>2. PICK T \in B : \A U \in SUBSET T : U \in B => U = T
  <2>1. B \in SUBSET SUBSET S
    OBVIOUS
  <2> HIDE DEF B
  <2>2. QED
    BY <1>1, <2>1, Smallest
<1>3. T # {}
  BY SumEmpty
<1>4. Pick(T) \in T /\ IsFiniteSet(T)
  BY <1>3, PickIn, FS_Subset
<1>5. SumOn(f, T \ {Pick(T)}) = 0
  BY <1>2, <1>4
<1>6. SumOn(f, T) = f[Pick(T)] + SumOn(f, T \ {Pick(T)}) /\ f[Pick(T)] = 0
  BY <1>3, <1>4, SumPick
<1>7. QED
  BY <1>5, <1>6
=============================================================================
