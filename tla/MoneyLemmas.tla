----------------------------- MODULE MoneyLemmas -----------------------------
(***************************************************************************)
(* Lemmas about the operators that compute with money, used by the proofs  *)
(* about the wallet, the commission and the disbursement: induction over   *)
(* numbers and finite sets, sums, the changes of the wallet row, and the   *)
(* commission.                                                             *)
(***************************************************************************)
EXTENDS WalletRows, Commission, Functions, FiniteSetTheorems, TLAPS

-----------------------------------------------------------------------------
(* Induction.  The library's induction theorems take an operator; these two *)
(* say the same of a set, so that any prover can use them.                  *)

\* A set of natural numbers with 0 and the successor of each member is Nat.
LEMMA NatSetInduction ==
    ASSUME NEW K, K \subseteq Nat, 0 \in K, \A n \in K : n + 1 \in K
    PROVE  K = Nat
<1> SUFFICES ASSUME K # Nat PROVE FALSE
  OBVIOUS
<1> DEFINE T == Nat \ K
           R == OpToRel(<, Nat)
<1>1. T \subseteq Nat /\ T # {}
  OBVIOUS
<1>2. IsWellFoundedOn(R, Nat)
  BY NatLessThanWellFounded, Zenon
<1>3. PICK x \in T : \A y \in T : ~ (<<y, x>> \in R)
  <2> HIDE DEF T, R
  <2> QED BY <1>1, <1>2, WFMin
<1>4. \A y \in T : ~(y < x)
  BY <1>3 DEF OpToRel
<1>5. x # 0 /\ x - 1 \in Nat /\ x - 1 \notin T
  BY <1>4
<1> QED BY <1>5

\* A family with the empty set and every set that is in it less any one of its
\* elements has all the subsets of a finite set.
LEMMA SubsetInduction ==
    ASSUME NEW S, IsFiniteSet(S), NEW G, {} \in G,
           \A T \in SUBSET S : T # {} /\ (\A x \in T : T \ {x} \in G) => T \in G
    PROVE  \A T \in SUBSET S : T \in G
<1> DEFINE K == {n \in Nat : \A T \in SUBSET S : Cardinality(T) = n => T \in G}
<1>1. 0 \in K
  BY FS_Subset, FS_EmptySet
<1>2. \A n \in K : n + 1 \in K
  <2> SUFFICES ASSUME NEW n \in K, NEW T \in SUBSET S, Cardinality(T) = n + 1
               PROVE  T \in G
    OBVIOUS
  <2>1. IsFiniteSet(T) /\ T # {}
    BY FS_Subset, FS_EmptySet
  <2>2. ASSUME NEW x \in T PROVE T \ {x} \in G
    <3>1. Cardinality(T \ {x}) = Cardinality(T) - 1
      BY <2>1, FS_RemoveElement
    <3> QED BY <3>1
  <2> QED BY <2>1, <2>2
<1>3. K = Nat
  <2>1. K \subseteq Nat
    OBVIOUS
  <2> HIDE DEF K
  <2> QED BY <1>1, <1>2, <2>1, NatSetInduction
<1> QED BY <1>3, FS_Subset, FS_CardinalityType

-----------------------------------------------------------------------------
(* Sums.  SumFunctionOnSet takes the elements out one by one, as CHOOSE has *)
(* it; the lemmas show that the recursion defines a function and that the   *)
(* order does not matter.                                                   *)

Picked(s) == CHOOSE x \in s : TRUE

IsIter(f, S, g) ==
    g = [s \in SUBSET S |-> IF s = {} THEN 0 ELSE f[Picked(s)] + g[s \ {Picked(s)}]]

\* CHOOSE takes an element of a set that has one.
LEMMA PickedIn ==
    ASSUME NEW S, S # {}
    PROVE  Picked(S) \in S
BY DEF Picked

\* The recursion equation, at one subset.
LEMMA IterStep ==
    ASSUME NEW f, NEW S, NEW g, IsIter(f, S, g), NEW s \in SUBSET S
    PROVE  g[s] = IF s = {} THEN 0 ELSE f[Picked(s)] + g[s \ {Picked(s)}]
<1>1. g = [t \in SUBSET S |-> IF t = {} THEN 0 ELSE f[Picked(t)] + g[t \ {Picked(t)}]]
  BY DEF IsIter
<1> QED BY <1>1

\* Two solutions of the recursion agree where both are defined.
LEMMA IterUnique ==
    ASSUME NEW f, NEW S, NEW T, NEW g, NEW h, IsIter(f, S, g), IsIter(f, T, h),
           IsFiniteSet(S)
    PROVE  \A s \in SUBSET S : s \subseteq T => g[s] = h[s]
<1> DEFINE G == {s \in SUBSET S : s \subseteq T => g[s] = h[s]}
<1>1. {} \in G
  BY IterStep
<1>2. \A s \in SUBSET S : s # {} /\ (\A x \in s : s \ {x} \in G) => s \in G
  <2> SUFFICES ASSUME NEW s \in SUBSET S, s # {}, \A x \in s : s \ {x} \in G, s \subseteq T
               PROVE  g[s] = h[s]
    OBVIOUS
  <2>1. g[s \ {Picked(s)}] = h[s \ {Picked(s)}]
    BY PickedIn
  <2> QED BY <2>1, IterStep
<1>3. \A s \in SUBSET S : s \in G
  <2> HIDE DEF G
  <2> QED BY <1>1, <1>2, SubsetInduction
<1> QED BY <1>3

\* The recursion has a solution on the subsets of any finite set: put together
\* from the solutions on the subsets of its proper subsets.
LEMMA IterExists ==
    ASSUME NEW f, NEW U, IsFiniteSet(U)
    PROVE  \A S \in SUBSET U : \E g : IsIter(f, S, g)
<1> DEFINE G == {S \in SUBSET U : \A s \in SUBSET S : \E g : IsIter(f, s, g)}
<1>1. {} \in G
  <2>1. IsIter(f, {}, [s \in SUBSET {} |-> 0])
    BY DEF IsIter
  <2> QED BY <2>1
<1>2. \A S \in SUBSET U : S # {} /\ (\A x \in S : S \ {x} \in G) => S \in G
  <2> SUFFICES ASSUME NEW S \in SUBSET U, S # {}, \A x \in S : S \ {x} \in G
               PROVE  \E g : IsIter(f, S, g)
    <3>1. \A S \in SUBSET U : \A s \in SUBSET S : s # S => \E x \in S : s \subseteq S \ {x}
      OBVIOUS
    <3> QED BY <3>1
  <2>0. IsFiniteSet(S)
    BY FS_Subset
  <2> DEFINE Own(s) == CHOOSE h : IsIter(f, s, h)
             Rest(s) == s \ {Picked(s)}
             g == [s \in SUBSET S |-> IF s = {} THEN 0
                                      ELSE f[Picked(s)] + Own(Rest(s))[Rest(s)]]
  <2>1. \A s \in SUBSET S : s # S => IsIter(f, s, Own(s))
    <3> SUFFICES ASSUME NEW s \in SUBSET S, s # S PROVE IsIter(f, s, Own(s))
      OBVIOUS
    <3>1. PICK x \in S : s \subseteq S \ {x}
      OBVIOUS
    <3>2. \E h : IsIter(f, s, h)
      BY <3>1
    <3> QED BY <3>2
  <2>2. \A s \in SUBSET S : s # {} => Rest(s) \in SUBSET S /\ Rest(s) # S
    BY PickedIn
  <2>3. ASSUME NEW s \in SUBSET S, s # S PROVE g[s] = Own(s)[s]
    <3>1. CASE s = {}
      BY <2>1, <2>3, <3>1, IterStep
    <3>2. CASE s # {}
      <4> DEFINE d == Rest(s)
      <4>1. IsIter(f, s, Own(s)) /\ IsIter(f, d, Own(d)) /\ IsFiniteSet(d)
        BY <2>0, <2>1, <2>2, <2>3, <3>2, FS_Subset
      <4> HIDE DEF Own
      <4>2. Own(s)[d] = Own(d)[d]
        BY <4>1, IterUnique
      <4>3. Own(s)[s] = f[Picked(s)] + Own(s)[d]
        BY <4>1, <3>2, IterStep
      <4> QED BY <3>2, <4>2, <4>3
    <3> QED BY <3>1, <3>2
  <2> HIDE DEF Own
  <2>4. \A s \in SUBSET S : g[s] = IF s = {} THEN 0 ELSE f[Picked(s)] + Own(Rest(s))[Rest(s)]
    OBVIOUS
  <2>5. g = [s \in SUBSET S |-> g[s]]
    OBVIOUS
  <2> HIDE DEF g
  <2>6. \A s \in SUBSET S : g[s] = IF s = {} THEN 0 ELSE f[Picked(s)] + g[Rest(s)]
    BY <2>2, <2>3, <2>4
  <2>7. IsIter(f, S, g)
    BY <2>5, <2>6 DEF IsIter
  <2> QED BY <2>7
<1>3. \A S \in SUBSET U : S \in G
  <2> HIDE DEF G
  <2> QED BY <1>1, <1>2, SubsetInduction
<1> QED BY <1>3

\* The recursion equation of the sum.
LEMMA SumStep ==
    ASSUME NEW f, NEW S, IsFiniteSet(S)
    PROVE  SumFunctionOnSet(f, S) =
              IF S = {} THEN 0
              ELSE f[Picked(S)] + SumFunctionOnSet(f, S \ {Picked(S)})
<1> DEFINE Own(s) == CHOOSE h : IsIter(f, s, h)
           d == S \ {Picked(S)}
<1>1. \A T \in SUBSET S : IsIter(f, T, Own(T))
  BY IterExists
<1>2. \A T : SumFunctionOnSet(f, T) = Own(T)[T]
  BY DEF SumFunctionOnSet, FoldFunctionOnSet, MapThenFoldSet, IsIter, Picked
<1>3. IsFiniteSet(d) /\ d \in SUBSET S
  BY FS_Subset
<1> HIDE DEF Own
<1>4. Own(S)[d] = Own(d)[d]
  BY <1>1, <1>3, IterUnique
<1>5. Own(S)[S] = IF S = {} THEN 0 ELSE f[Picked(S)] + Own(S)[d]
  BY <1>1, IterStep
<1> QED BY <1>2, <1>4, <1>5

\* A sum of nothing is zero, a sum of integers an integer, of naturals a natural.
LEMMA SumType ==
    ASSUME NEW f, NEW S, IsFiniteSet(S)
    PROVE  /\ SumFunctionOnSet(f, {}) = 0
           /\ (\A x \in S : f[x] \in Int) => SumFunctionOnSet(f, S) \in Int
           /\ (\A x \in S : f[x] \in Nat) => SumFunctionOnSet(f, S) \in Nat
<1> DEFINE G == {s \in SUBSET S :
                   /\ (\A x \in s : f[x] \in Int) => SumFunctionOnSet(f, s) \in Int
                   /\ (\A x \in s : f[x] \in Nat) => SumFunctionOnSet(f, s) \in Nat}
<1>1. SumFunctionOnSet(f, {}) = 0
  BY SumStep, FS_EmptySet
<1>2. {} \in G
  BY <1>1
<1>3. \A s \in SUBSET S : s # {} /\ (\A x \in s : s \ {x} \in G) => s \in G
  <2> SUFFICES ASSUME NEW s \in SUBSET S, s # {}, \A x \in s : s \ {x} \in G
               PROVE  s \in G
    OBVIOUS
  <2>1. Picked(s) \in s /\ IsFiniteSet(s)
    BY PickedIn, FS_Subset
  <2>2. SumFunctionOnSet(f, s) = f[Picked(s)] + SumFunctionOnSet(f, s \ {Picked(s)})
    BY <2>1, SumStep
  <2> QED BY <2>1, <2>2
<1>4. \A s \in SUBSET S : s \in G
  <2> HIDE DEF G
  <2> QED BY <1>2, <1>3, SubsetInduction
<1> QED BY <1>1, <1>4

\* Any element can be taken out first.
LEMMA SumRemove ==
    ASSUME NEW f, NEW S, IsFiniteSet(S), \A x \in S : f[x] \in Int, NEW e \in S
    PROVE  SumFunctionOnSet(f, S) = f[e] + SumFunctionOnSet(f, S \ {e})
<1> DEFINE G == {s \in SUBSET S : \A x \in s :
                   SumFunctionOnSet(f, s) = f[x] + SumFunctionOnSet(f, s \ {x})}
<1>1. {} \in G
  OBVIOUS
<1>2. \A s \in SUBSET S : s # {} /\ (\A x \in s : s \ {x} \in G) => s \in G
  <2> SUFFICES ASSUME NEW s \in SUBSET S, s # {}, \A y \in s : s \ {y} \in G, NEW x \in s
               PROVE  SumFunctionOnSet(f, s) = f[x] + SumFunctionOnSet(f, s \ {x})
    OBVIOUS
  <2> DEFINE c == Picked(s)
  <2>1. IsFiniteSet(s) /\ c \in s
    BY FS_Subset, PickedIn
  <2>2. SumFunctionOnSet(f, s) = f[c] + SumFunctionOnSet(f, s \ {c})
    BY <2>1, SumStep
  <2> HIDE DEF c
  <2>3. CASE x = c
    BY <2>2, <2>3
  <2>4. CASE x # c
    <3>1. x \in s \ {c} /\ c \in s \ {x} /\ (s \ {c}) \ {x} = (s \ {x}) \ {c}
      BY <2>1, <2>4
    <3>2. /\ SumFunctionOnSet(f, s \ {c}) = f[x] + SumFunctionOnSet(f, (s \ {c}) \ {x})
          /\ SumFunctionOnSet(f, s \ {x}) = f[c] + SumFunctionOnSet(f, (s \ {c}) \ {x})
      BY <2>1, <3>1
    <3>3. SumFunctionOnSet(f, (s \ {c}) \ {x}) \in Int
      BY <2>1, SumType, FS_Subset
    <3>4. f[x] \in Int /\ f[c] \in Int
      BY <2>1
    <3> QED BY <2>2, <3>2, <3>3, <3>4
  <2> QED BY <2>3, <2>4
<1>3. \A s \in SUBSET S : s \in G
  <2> HIDE DEF G
  <2> QED BY <1>1, <1>2, SubsetInduction
<1> QED BY <1>3

\* Functions that agree on a set have the same sum over it.
LEMMA SumCongruent ==
    ASSUME NEW f, NEW g, NEW S, IsFiniteSet(S), \A x \in S : f[x] = g[x]
    PROVE  SumFunctionOnSet(f, S) = SumFunctionOnSet(g, S)
<1> DEFINE G == {s \in SUBSET S : SumFunctionOnSet(f, s) = SumFunctionOnSet(g, s)}
<1>1. {} \in G
  BY SumType
<1>2. \A s \in SUBSET S : s # {} /\ (\A x \in s : s \ {x} \in G) => s \in G
  <2> SUFFICES ASSUME NEW s \in SUBSET S, s # {}, \A x \in s : s \ {x} \in G
               PROVE  SumFunctionOnSet(f, s) = SumFunctionOnSet(g, s)
    OBVIOUS
  <2>1. Picked(s) \in s /\ IsFiniteSet(s)
    BY PickedIn, FS_Subset
  <2>2. /\ SumFunctionOnSet(f, s) = f[Picked(s)] + SumFunctionOnSet(f, s \ {Picked(s)})
        /\ SumFunctionOnSet(g, s) = g[Picked(s)] + SumFunctionOnSet(g, s \ {Picked(s)})
    BY <2>1, SumStep
  <2> QED BY <2>1, <2>2
<1>3. \A s \in SUBSET S : s \in G
  <2> HIDE DEF G
  <2> QED BY <1>1, <1>2, SubsetInduction
<1> QED BY <1>3

\* The sum of a function given by an expression is that of any function with the
\* same values.
LEMMA SumOfValues ==
    ASSUME NEW g, IsFiniteSet(DOMAIN g), NEW f, \A x \in DOMAIN g : g[x] = f[x]
    PROVE  SumFunction(g) = SumFunctionOnSet(f, DOMAIN g)
BY SumCongruent DEF SumFunction

\* One more element.
LEMMA SumInsert ==
    ASSUME NEW f, NEW S, IsFiniteSet(S), NEW e, e \notin S,
           \A x \in S \cup {e} : f[x] \in Int
    PROVE  SumFunctionOnSet(f, S \cup {e}) = f[e] + SumFunctionOnSet(f, S)
<1>1. IsFiniteSet(S \cup {e})
  BY FS_AddElement
<1>2. (S \cup {e}) \ {e} = S
  OBVIOUS
<1> QED BY <1>1, <1>2, SumRemove

\* A function changed at one element of the set.
LEMMA SumUpdate ==
    ASSUME NEW f, NEW g, NEW S, IsFiniteSet(S), NEW e \in S,
           \A x \in S : f[x] \in Int /\ g[x] \in Int,
           \A x \in S \ {e} : f[x] = g[x]
    PROVE  SumFunctionOnSet(g, S) = SumFunctionOnSet(f, S) - f[e] + g[e]
<1>1. IsFiniteSet(S \ {e})
  BY FS_RemoveElement
<1>2. /\ SumFunctionOnSet(f, S) = f[e] + SumFunctionOnSet(f, S \ {e})
      /\ SumFunctionOnSet(g, S) = g[e] + SumFunctionOnSet(g, S \ {e})
  BY SumRemove
<1>3. SumFunctionOnSet(f, S \ {e}) = SumFunctionOnSet(g, S \ {e})
  BY <1>1, SumCongruent
<1>4. SumFunctionOnSet(f, S \ {e}) \in Int
  BY <1>1, SumType
<1> QED BY <1>2, <1>3, <1>4

\* Two sets with no element in common.
LEMMA SumUnion ==
    ASSUME NEW f, NEW S, IsFiniteSet(S), NEW T, IsFiniteSet(T), S \cap T = {},
           \A x \in S \cup T : f[x] \in Int
    PROVE  SumFunctionOnSet(f, S \cup T) = SumFunctionOnSet(f, S) + SumFunctionOnSet(f, T)
<1> DEFINE G == {t \in SUBSET T : SumFunctionOnSet(f, S \cup t) =
                                    SumFunctionOnSet(f, S) + SumFunctionOnSet(f, t)}
<1>1. SumFunctionOnSet(f, S) \in Int /\ SumFunctionOnSet(f, {}) = 0
  BY SumType
<1>2. {} \in G
  <2>1. S \cup {} = S
    OBVIOUS
  <2> QED BY <1>1, <2>1
<1>3. \A t \in SUBSET T : t # {} /\ (\A x \in t : t \ {x} \in G) => t \in G
  <2> SUFFICES ASSUME NEW t \in SUBSET T, t # {}, \A x \in t : t \ {x} \in G
               PROVE  SumFunctionOnSet(f, S \cup t) =
                        SumFunctionOnSet(f, S) + SumFunctionOnSet(f, t)
    OBVIOUS
  <2>1. PICK e \in t : TRUE
    OBVIOUS
  <2>2. IsFiniteSet(t) /\ IsFiniteSet(t \ {e}) /\ IsFiniteSet(S \cup t)
    BY FS_Subset, FS_Union
  <2>3. (S \cup t) \ {e} = S \cup (t \ {e}) /\ e \in S \cup t
    BY <2>1
  <2>4. SumFunctionOnSet(f, S \cup t) = f[e] + SumFunctionOnSet(f, S \cup (t \ {e}))
    BY <2>2, <2>3, SumRemove
  <2>5. SumFunctionOnSet(f, t) = f[e] + SumFunctionOnSet(f, t \ {e})
    BY <2>2, SumRemove
  <2>6. SumFunctionOnSet(f, t \ {e}) \in Int /\ f[e] \in Int
    BY <2>2, SumType
  <2>7. SumFunctionOnSet(f, S \cup (t \ {e})) =
          SumFunctionOnSet(f, S) + SumFunctionOnSet(f, t \ {e})
    BY <2>1
  <2> HIDE DEF G
  <2> QED BY <1>1, <2>4, <2>5, <2>6, <2>7
<1>4. \A t \in SUBSET T : t \in G
  <2> HIDE DEF G
  <2> QED BY <1>2, <1>3, SubsetInduction
<1> QED BY <1>4

\* Nothing but zeros.
LEMMA SumOfZeros ==
    ASSUME NEW f, NEW S, IsFiniteSet(S), \A x \in S : f[x] = 0
    PROVE  SumFunctionOnSet(f, S) = 0
<1> DEFINE G == {T \in SUBSET S : SumFunctionOnSet(f, T) = 0}
<1>1. {} \in G
  BY SumType, FS_EmptySet
<1>2. \A T \in SUBSET S : T # {} /\ (\A x \in T : T \ {x} \in G) => T \in G
  <2> SUFFICES ASSUME NEW T \in SUBSET S, T # {}, \A x \in T : T \ {x} \in G
               PROVE  SumFunctionOnSet(f, T) = 0
    OBVIOUS
  <2>1. PICK e \in T : TRUE
    OBVIOUS
  <2>2. IsFiniteSet(T) /\ \A x \in T : f[x] \in Int
    BY FS_Subset
  <2>3. SumFunctionOnSet(f, T) = f[e] + SumFunctionOnSet(f, T \ {e})
    BY <2>2, SumRemove
  <2> QED BY <2>3
<1>3. S \in G
  <2> HIDE DEF G
  <2> QED BY <1>1, <1>2, SubsetInduction
<1> QED BY <1>3

\* The same terms under other names.
LEMMA SumReindex ==
    ASSUME NEW f, NEW g, NEW h, NEW S, IsFiniteSet(S),
           \A x \in S : f[x] \in Int /\ g[h[x]] = f[x],
           \A x, y \in S : h[x] = h[y] => x = y
    PROVE  SumFunctionOnSet(g, {h[x] : x \in S}) = SumFunctionOnSet(f, S)
<1> DEFINE Im(T) == {h[x] : x \in T}
           G == {T \in SUBSET S : /\ IsFiniteSet(Im(T))
                                  /\ SumFunctionOnSet(g, Im(T)) = SumFunctionOnSet(f, T)}
<1>1. {} \in G
  <2>1. Im({}) = {} /\ IsFiniteSet({})
    BY FS_EmptySet
  <2>2. SumFunctionOnSet(g, {}) = 0 /\ SumFunctionOnSet(f, {}) = 0
    BY <2>1, SumType
  <2> QED BY <2>1, <2>2
<1>2. \A T \in SUBSET S : T # {} /\ (\A x \in T : T \ {x} \in G) => T \in G
  <2> SUFFICES ASSUME NEW T \in SUBSET S, T # {}, \A x \in T : T \ {x} \in G
               PROVE  /\ IsFiniteSet(Im(T))
                      /\ SumFunctionOnSet(g, Im(T)) = SumFunctionOnSet(f, T)
    OBVIOUS
  <2>1. PICK e \in T : TRUE
    OBVIOUS
  <2>2. IsFiniteSet(T) /\ \A x \in T : f[x] \in Int
    BY FS_Subset
  <2>3. Im(T) = Im(T \ {e}) \cup {h[e]} /\ h[e] \notin Im(T \ {e})
    OBVIOUS
  <2>4. /\ IsFiniteSet(Im(T \ {e}))
        /\ SumFunctionOnSet(g, Im(T \ {e})) = SumFunctionOnSet(f, T \ {e})
    OBVIOUS
  <2>5. \A y \in Im(T \ {e}) \cup {h[e]} : g[y] \in Int
    OBVIOUS
  <2> HIDE DEF Im, G
  <2>6. IsFiniteSet(Im(T))
    <3>1. PICK U : U = Im(T \ {e})
      OBVIOUS
    <3>2. IsFiniteSet(U \cup {h[e]})
      BY <2>4, <3>1, FS_AddElement
    <3> QED BY <2>3, <3>1, <3>2
  <2>7. SumFunctionOnSet(g, Im(T)) = g[h[e]] + SumFunctionOnSet(g, Im(T \ {e}))
    BY <2>3, <2>4, <2>5, SumInsert
  <2>8. SumFunctionOnSet(f, T) = f[e] + SumFunctionOnSet(f, T \ {e})
    BY <2>2, SumRemove
  <2> QED BY <2>4, <2>6, <2>7, <2>8
<1>3. S \in G
  <2> HIDE DEF G
  <2> QED BY <1>1, <1>2, SubsetInduction
<1> QED BY <1>3

\* Sums add up term by term, and a larger term makes a larger sum.
LEMMA SumOfSums ==
    ASSUME NEW f, NEW g, NEW h, NEW S, IsFiniteSet(S),
           \A x \in S : f[x] \in Int /\ g[x] \in Int /\ h[x] = f[x] + g[x]
    PROVE  SumFunctionOnSet(h, S) = SumFunctionOnSet(f, S) + SumFunctionOnSet(g, S)
<1> DEFINE G == {s \in SUBSET S : SumFunctionOnSet(h, s) =
                                    SumFunctionOnSet(f, s) + SumFunctionOnSet(g, s)}
<1>1. {} \in G
  BY SumType
<1>2. \A s \in SUBSET S : s # {} /\ (\A x \in s : s \ {x} \in G) => s \in G
  <2> SUFFICES ASSUME NEW s \in SUBSET S, s # {}, \A x \in s : s \ {x} \in G
               PROVE  s \in G
    OBVIOUS
  <2> DEFINE e == Picked(s)
  <2>1. e \in s /\ IsFiniteSet(s) /\ IsFiniteSet(s \ {e})
    BY PickedIn, FS_Subset
  <2>2. /\ SumFunctionOnSet(f, s) = f[e] + SumFunctionOnSet(f, s \ {e})
        /\ SumFunctionOnSet(g, s) = g[e] + SumFunctionOnSet(g, s \ {e})
        /\ SumFunctionOnSet(h, s) = h[e] + SumFunctionOnSet(h, s \ {e})
    BY <2>1, SumStep
  <2>3. SumFunctionOnSet(f, s \ {e}) \in Int /\ SumFunctionOnSet(g, s \ {e}) \in Int
    BY <2>1, SumType
  <2> HIDE DEF e
  <2> QED BY <2>1, <2>2, <2>3
<1>3. \A s \in SUBSET S : s \in G
  <2> HIDE DEF G
  <2> QED BY <1>1, <1>2, SubsetInduction
<1> QED BY <1>3

-----------------------------------------------------------------------------
(* The wallet row.                                                         *)

\* The type of a moved row, its liquid balance, and what it holds in all.
LEMMA MovedRowFields ==
    ASSUME NEW w \in WalletRow, NEW da \in Int, NEW dr \in Int, NEW dd \in Int,
           NEW dc \in Int, NEW df \in Int
    PROVE  /\ MovedRow(w, da, dr, dd, dc, df) \in WalletRow
           /\ MovedRow(w, da, dr, dd, dc, df).available = w.available + da
           /\ Holdings(MovedRow(w, da, dr, dd, dc, df)) =
                 Holdings(w) + da + dr + dd + dc
           /\ w.available \in Int /\ Holdings(w) \in Int
BY DEF WalletRow, MovedRow, Holdings

\* What each operation does to the sum of the four places money can be in: only
\* a recharge changes it, by its amount.
LEMMA HoldingsPosted ==
    ASSUME NEW w \in WalletRow, NEW op \in WalletOps, NEW a \in Nat, NEW c \in Nat
    PROVE  /\ PostedRow(op, w, a, c) \in WalletRow
           /\ Holdings(PostedRow(op, w, a, c)) =
                 Holdings(w) + (IF op = "recharge" THEN a ELSE 0)
           /\ (op = "reserve" => Sufficient(w, a)) /\ w.available >= 0
                 => PostedRow(op, w, a, c).available >= 0
<1>1. CASE op = "recharge"
  <2>1. PostedRow(op, w, a, c) = MovedRow(w, a, 0, 0, 0, 0)
    BY <1>1 DEF PostedRow, RechargedRow
  <2> QED BY <1>1, <2>1, MovedRowFields DEF Sufficient
<1>2. CASE op = "reserve"
  <2>1. PostedRow(op, w, a, c) = MovedRow(w, -a, a, 0, 0, 0)
    BY <1>2 DEF PostedRow, ReservedRow
  <2> QED BY <1>2, <2>1, MovedRowFields DEF Sufficient
<1>3. CASE op = "charge"
  <2>1. PostedRow(op, w, a, c) = MovedRow(w, 0, -(a + c), a, c, 0)
    BY <1>3 DEF PostedRow, ChargedRow
  <2> QED BY <1>3, <2>1, MovedRowFields DEF Sufficient
<1>4. CASE op = "refund"
  <2>1. PostedRow(op, w, a, c) = MovedRow(w, a + c, -(a + c), 0, 0, a + c)
    BY <1>4 DEF PostedRow, RefundedRow
  <2> QED BY <1>4, <2>1, MovedRowFields DEF Sufficient
<1> QED BY <1>1, <1>2, <1>3, <1>4 DEF WalletOps

\* Where each operation moves the blocked balance and the historical totals.
LEMMA PostedFields ==
    ASSUME NEW w \in WalletRow, NEW op \in WalletOps, NEW a \in Nat, NEW c \in Nat,
           NEW new, new = PostedRow(op, w, a, c)
    PROVE  /\ op = "recharge" =>
                  /\ new.reserved = w.reserved /\ new.totalDebited = w.totalDebited
                  /\ new.totalCommission = w.totalCommission
                  /\ new.totalRefunded = w.totalRefunded
           /\ op = "reserve" =>
                  /\ new.reserved = w.reserved + a /\ new.totalDebited = w.totalDebited
                  /\ new.totalCommission = w.totalCommission
                  /\ new.totalRefunded = w.totalRefunded
           /\ op = "charge" =>
                  /\ new.reserved = w.reserved - (a + c)
                  /\ new.totalDebited = w.totalDebited + a
                  /\ new.totalCommission = w.totalCommission + c
                  /\ new.totalRefunded = w.totalRefunded
           /\ op = "refund" =>
                  /\ new.reserved = w.reserved - (a + c) /\ new.totalDebited = w.totalDebited
                  /\ new.totalCommission = w.totalCommission
                  /\ new.totalRefunded = w.totalRefunded + (a + c)
<1>1. op = "recharge" => new = MovedRow(w, a, 0, 0, 0, 0)
  BY DEF PostedRow, RechargedRow
<1>2. op = "reserve" => new = MovedRow(w, -a, a, 0, 0, 0)
  BY DEF PostedRow, ReservedRow
<1>3. op = "charge" => new = MovedRow(w, 0, -(a + c), a, c, 0)
  BY DEF PostedRow, ChargedRow
<1>4. op = "refund" => new = MovedRow(w, a + c, -(a + c), 0, 0, a + c)
  BY DEF PostedRow, RefundedRow
<1> QED BY <1>1, <1>2, <1>3, <1>4 DEF MovedRow, WalletRow

-----------------------------------------------------------------------------
(* The commission.                                                         *)

\* Rounded-down division of naturals gives a natural.
LEMMA DivNat ==
    ASSUME NEW a \in Nat, NEW d \in Nat \ {0}
    PROVE  a \div d \in Nat
OBVIOUS

\* The product of naturals is one.
LEMMA ProductNat ==
    ASSUME NEW a \in Nat, NEW b \in Nat
    PROVE  a * b \in Nat
OBVIOUS

\* The commission of a batch is a natural number (batch.go:100).
LEMMA BatchCommissionType ==
    ASSUME NEW total \in Nat, NEW num \in Nat, NEW den \in Nat \ {0}
    PROVE  BatchCommission(total, num, den) \in Nat
BY ProductNat, DivNat DEF BatchCommission

\* A share is never negative and never more than what remains of the commission,
\* which the last item gets whole (batch.go:260-273).
LEMMA AllocateBounds ==
    ASSUME NEW total \in Nat, NEW commission \in Nat, NEW amount \in Nat,
           NEW remaining \in Nat, NEW isLast \in BOOLEAN
    PROVE  /\ AllocateItemCommission(total, commission, amount, remaining, isLast)
                 \in 0..remaining
           /\ isLast => AllocateItemCommission(total, commission, amount, remaining, isLast)
                          = remaining
<1> DEFINE quotient == (amount * commission) \div total
<1>1. CASE isLast
  BY <1>1 DEF AllocateItemCommission
<1>2. CASE ~isLast /\ total = 0
  BY <1>2 DEF AllocateItemCommission
<1>3. CASE ~isLast /\ total # 0
  <2>1. quotient \in Nat
    BY <1>3, ProductNat, DivNat
  <2> HIDE DEF quotient
  <2>2. AllocateItemCommission(total, commission, amount, remaining, isLast) \in
           {0, remaining} \cup (IF quotient > remaining THEN {} ELSE {quotient})
    BY <1>3 DEF AllocateItemCommission, quotient
  <2> QED BY <1>3, <2>1, <2>2
<1> QED BY <1>1, <1>2, <1>3

\* What rounding down loses: nothing to less than one.
LEMMA FloorBounds ==
    ASSUME NEW x \in Nat, NEW d \in Nat \ {0}
    PROVE  /\ x \div d \in Nat
           /\ d * (x \div d) <= x
           /\ x <= d * (x \div d) + (d - 1)
OBVIOUS

\* Multiplication distributes.
LEMMA Distributes ==
    ASSUME NEW a \in Int, NEW b \in Int, NEW c \in Int
    PROVE  /\ a * (b + c) = a * b + a * c /\ a * b \in Int
           /\ a * (b - c) = a * b - a * c
           /\ a * b = b * a
OBVIOUS

\* A larger factor makes a larger product, and back.
LEMMA Multiplies ==
    ASSUME NEW a \in Nat \ {0}, NEW b \in Int, NEW c \in Int
    PROVE  a * b <= a * c <=> b <= c
OBVIOUS

\* The sum of the first numbers of a function, number by number.
LEMMA SumOfFirst ==
    ASSUME NEW f, NEW n \in Nat, \A k \in 1..n : f[k] \in Int
    PROVE  /\ SumFunctionOnSet(f, 1..0) = 0
           /\ \A m \in 0..n : SumFunctionOnSet(f, 1..m) \in Int
           /\ \A m \in 1..n : SumFunctionOnSet(f, 1..m) = f[m] + SumFunctionOnSet(f, 1..(m - 1))
<1>1. \A m \in 0..n : IsFiniteSet(1..m) /\ 1..m \subseteq 1..n
  BY FS_Interval
<1>2. 1..0 = {}
  OBVIOUS
<1>3. SumFunctionOnSet(f, 1..0) = 0
  BY <1>2, SumType, FS_EmptySet
<1>4. \A m \in 0..n : SumFunctionOnSet(f, 1..m) \in Int
  BY <1>1, SumType
<1>5. ASSUME NEW m \in 1..n
      PROVE  SumFunctionOnSet(f, 1..m) = f[m] + SumFunctionOnSet(f, 1..(m - 1))
  <2>1. (1..m) \ {m} = 1..(m - 1) /\ m \in 1..m
    OBVIOUS
  <2>2. IsFiniteSet(1..m) /\ \A k \in 1..m : f[k] \in Int
    BY <1>1
  <2>3. SumFunctionOnSet(f, 1..m) = f[m] + SumFunctionOnSet(f, (1..m) \ {m})
    BY <2>1, <2>2, SumRemove
  <2> QED BY <2>1, <2>3
<1> QED BY <1>3, <1>4, <1>5

\* The parts of a commission C, each proportional to its amount of the total A
\* and rounded down, lose less than one franc each.
LEMMA FloorSums ==
    ASSUME NEW n \in Nat, NEW a, NEW f, NEW A \in Nat \ {0}, NEW C \in Nat,
           \A k \in 1..n : a[k] \in Nat /\ f[k] = (a[k] * C) \div A
    PROVE  \A m \in 0..n :
              /\ A * SumFunctionOnSet(f, 1..m) <= C * SumFunctionOnSet(a, 1..m)
              /\ C * SumFunctionOnSet(a, 1..m) <= A * SumFunctionOnSet(f, 1..m) + m * (A - 1)
<1> DEFINE Sf(m) == SumFunctionOnSet(f, 1..m)
           Sa(m) == SumFunctionOnSet(a, 1..m)
           K == {m \in Nat : m \in 0..n => /\ A * Sf(m) <= C * Sa(m)
                                           /\ C * Sa(m) <= A * Sf(m) + m * (A - 1)}
<1>1. ASSUME NEW k \in 1..n
      PROVE  /\ f[k] \in Nat /\ a[k] \in Nat
             /\ A * f[k] <= C * a[k] /\ C * a[k] <= A * f[k] + (A - 1)
  <2>1. a[k] \in Nat /\ a[k] * C \in Nat /\ a[k] * C = C * a[k]
    BY ProductNat, Distributes
  <2> QED BY <2>1, FloorBounds
<1>2. /\ Sf(0) = 0 /\ Sa(0) = 0
      /\ \A m \in 0..n : Sf(m) \in Int /\ Sa(m) \in Int
      /\ \A m \in 1..n : Sf(m) = f[m] + Sf(m - 1) /\ Sa(m) = a[m] + Sa(m - 1)
  <2>1. \A k \in 1..n : f[k] \in Int
    BY <1>1
  <2>2. \A k \in 1..n : a[k] \in Int
    BY <1>1
  <2>3. /\ Sf(0) = 0 /\ \A m \in 0..n : Sf(m) \in Int
        /\ \A m \in 1..n : Sf(m) = f[m] + Sf(m - 1)
    BY <2>1, SumOfFirst
  <2>4. /\ Sa(0) = 0 /\ \A m \in 0..n : Sa(m) \in Int
        /\ \A m \in 1..n : Sa(m) = a[m] + Sa(m - 1)
    BY <2>2, SumOfFirst
  <2> QED BY <2>3, <2>4
<1> HIDE DEF Sf, Sa
<1>3. 0 \in K
  BY <1>2
<1>4. \A m \in K : m + 1 \in K
  <2> SUFFICES ASSUME NEW m \in Nat, m + 1 \in 0..n,
                      A * Sf(m) <= C * Sa(m), C * Sa(m) <= A * Sf(m) + m * (A - 1)
               PROVE  /\ A * Sf(m + 1) <= C * Sa(m + 1)
                      /\ C * Sa(m + 1) <= A * Sf(m + 1) + (m + 1) * (A - 1)
    OBVIOUS
  <2>1. m + 1 \in 1..n /\ m \in 0..n /\ (m + 1) - 1 = m
    OBVIOUS
  <2>2. /\ Sf(m + 1) = f[m + 1] + Sf(m) /\ Sa(m + 1) = a[m + 1] + Sa(m)
        /\ Sf(m) \in Int /\ Sa(m) \in Int
    BY <1>2, <2>1
  <2>3. /\ f[m + 1] \in Int /\ a[m + 1] \in Int /\ A * f[m + 1] <= C * a[m + 1]
        /\ C * a[m + 1] <= A * f[m + 1] + (A - 1)
    BY <1>1, <2>1
  <2>4. /\ A * Sf(m + 1) = A * f[m + 1] + A * Sf(m)
        /\ C * Sa(m + 1) = C * a[m + 1] + C * Sa(m)
    <3>1. A \in Int /\ C \in Int
      OBVIOUS
    <3>2. A * (f[m + 1] + Sf(m)) = A * f[m + 1] + A * Sf(m)
      BY <2>2, <2>3, <3>1, Distributes
    <3>3. C * (a[m + 1] + Sa(m)) = C * a[m + 1] + C * Sa(m)
      BY <2>2, <2>3, <3>1, Distributes
    <3> QED BY <2>2, <3>2, <3>3
  <2>5. /\ A * f[m + 1] \in Int /\ A * Sf(m) \in Int /\ C * a[m + 1] \in Int /\ C * Sa(m) \in Int
        /\ m * (A - 1) \in Int
    BY <2>2, <2>3, Distributes
  <2>6. (m + 1) * (A - 1) = m * (A - 1) + (A - 1)
    OBVIOUS
  <2> QED BY <2>3, <2>4, <2>5, <2>6
<1>5. K = Nat
  <2>1. K \subseteq Nat
    OBVIOUS
  <2> HIDE DEF K
  <2> QED BY <1>3, <1>4, <2>1, NatSetInduction
<1> QED BY <1>5 DEF Sf, Sa

\* Hence they never make more than the commission, and what they leave of it is
\* less than one franc for each item.
LEMMA FloorsFit ==
    ASSUME NEW n \in Nat \ {0}, NEW a, NEW f, NEW A \in Nat \ {0}, NEW C \in Nat,
           \A k \in 1..n : a[k] \in Nat /\ f[k] = (a[k] * C) \div A,
           A = SumFunctionOnSet(a, 1..n)
    PROVE  /\ \A m \in 0..n : SumFunctionOnSet(f, 1..m) \in 0..C
           /\ C - SumFunctionOnSet(f, 1..n) \in 0..(n - 1)
<1> DEFINE Sf(m) == SumFunctionOnSet(f, 1..m)
           Sa(m) == SumFunctionOnSet(a, 1..m)
<1>0. ASSUME NEW k \in 1..n PROVE f[k] \in Nat /\ a[k] \in Nat
  <2>1. a[k] \in Nat /\ a[k] * C \in Nat
    BY ProductNat
  <2> QED BY <2>1, FloorBounds
<1>1. \A m \in 0..n : IsFiniteSet(1..m) /\ \A k \in 1..m : f[k] \in Nat /\ a[k] \in Nat
  <2> SUFFICES ASSUME NEW m \in 0..n
               PROVE  IsFiniteSet(1..m) /\ \A k \in 1..m : f[k] \in Nat /\ a[k] \in Nat
    OBVIOUS
  <2>1. m \in Int /\ 1 \in Int /\ 1..m \subseteq 1..n
    OBVIOUS
  <2>2. IsFiniteSet(1..m)
    BY <2>1, FS_Interval
  <2> QED BY <1>0, <2>1, <2>2
<1>2. \A m \in 0..n : Sf(m) \in Nat /\ Sa(m) \in Nat
  BY <1>1, SumType
<1>3. A * Sf(n) <= C * A /\ C * A <= A * Sf(n) + n * (A - 1)
  <2>1. n \in Nat /\ n \in 0..n
    OBVIOUS
  <2>2. \A m \in 0..n : /\ A * Sf(m) <= C * Sa(m)
                       /\ C * Sa(m) <= A * Sf(m) + m * (A - 1)
    BY <2>1, FloorSums
  <2>3. Sa(n) = A
    OBVIOUS
  <2> HIDE DEF Sf, Sa
  <2> QED BY <2>1, <2>2, <2>3
<1>4. \A k \in 1..n : /\ f[k] \in Int
  BY <1>0
<1>5. \A m \in 1..n : Sf(m) = f[m] + Sf(m - 1)
  BY <1>4, SumOfFirst
<1>6. \A m \in 0..n : Sf(m) <= Sf(n)
  <2> DEFINE K == {d \in Nat : d \in 0..n => Sf(n - d) <= Sf(n)}
  <2> HIDE DEF Sf
  <2>1. 0 \in K
    BY <1>2
  <2>2. \A d \in K : d + 1 \in K
    <3> SUFFICES ASSUME NEW d \in Nat, d + 1 \in 0..n, Sf(n - d) <= Sf(n)
                 PROVE  Sf(n - (d + 1)) <= Sf(n)
      OBVIOUS
    <3>1. n - d \in 1..n /\ (n - d) - 1 = n - (d + 1) /\ n - (d + 1) \in 0..n
      OBVIOUS
    <3>2. Sf(n - d) = f[n - d] + Sf(n - (d + 1))
      BY <1>5, <3>1
    <3>3. Sf(n - d) \in Nat /\ Sf(n - (d + 1)) \in Nat /\ Sf(n) \in Nat /\ f[n - d] \in Nat
      BY <1>0, <1>2, <3>1
    <3> QED BY <3>2, <3>3
  <2>3. K = Nat
    <3>1. K \subseteq Nat
      OBVIOUS
    <3> HIDE DEF K
    <3> QED BY <2>1, <2>2, <3>1, NatSetInduction
  <2>4. \A m \in 0..n : n - m \in Nat /\ n - m \in 0..n /\ n - (n - m) = m
    OBVIOUS
  <2> QED BY <2>3, <2>4
<1> HIDE DEF Sf
<1>7. Sf(n) <= C
  <2>1. C * A = A * C /\ Sf(n) \in Int
    BY <1>2, Distributes
  <2> QED BY <1>3, <2>1, Multiplies
<1>8. C < Sf(n) + n
  <2> SUFFICES ASSUME Sf(n) + n <= C PROVE FALSE
    BY <1>2
  <2>0. Sf(n) \in Int /\ n \in Int /\ A \in Int /\ C \in Int /\ Sf(n) + n \in Int
    BY <1>2
  <2>1. A * (Sf(n) + n) <= A * C
    BY <2>0, Multiplies
  <2>4. A * (Sf(n) + n) = A * Sf(n) + A * n
    BY <2>0, Distributes
  <2>2. n * (A - 1) = A * n - n /\ C * A = A * C
    <3>1. n * (A - 1) = n * A - n * 1 /\ n * A = A * n /\ n * 1 = n
      BY <2>0, Distributes
    <3> QED BY <2>0, <3>1, Distributes
  <2>3. A * Sf(n) \in Int /\ A * n \in Int /\ A * C \in Int
    BY <2>0, Distributes
  <2>5. PICK x \in Int, y \in Int, z \in Int :
           x = A * Sf(n) /\ y = A * n /\ z = A * C /\ n * (A - 1) = y - n
    BY <2>2, <2>3
  <2>6. z <= x + (y - n) /\ x + y <= z
    BY <1>3, <2>1, <2>2, <2>4, <2>5
  <2> QED BY <2>6
<1>9. \A m \in 0..n : Sf(m) \in 0..C
  BY <1>2, <1>6, <1>7
<1> QED BY <1>2, <1>7, <1>8, <1>9 DEF Sf

\* A share that is left of the commission is given as it is computed.
LEMMA AllocateFits ==
    ASSUME NEW total \in Nat \ {0}, NEW commission \in Nat, NEW amount \in Nat,
           NEW remaining \in Nat, (amount * commission) \div total <= remaining
    PROVE  AllocateItemCommission(total, commission, amount, remaining, FALSE)
             = (amount * commission) \div total
<1> DEFINE quotient == (amount * commission) \div total
<1>1. amount * commission \in Nat /\ (commission = 0 \/ amount = 0 => amount * commission = 0)
  BY ProductNat, Distributes
<1>2. quotient \in Nat /\ (commission = 0 \/ amount = 0 => quotient = 0)
  BY <1>1, FloorBounds
<1>3. remaining = 0 => quotient = 0
  BY <1>2
<1> HIDE DEF quotient
<1> QED BY <1>2, <1>3 DEF AllocateItemCommission, quotient

\* A batch of positive amounts has a positive total.
LEMMA TotalPositive ==
    ASSUME NEW n \in Nat \ {0}, NEW a, \A k \in 1..n : a[k] \in Nat \ {0}
    PROVE  SumFunctionOnSet(a, 1..n) \in Nat \ {0}
<1>1. n \in Nat /\ \A k \in 1..n : a[k] \in Int
  OBVIOUS
<1>2. SumFunctionOnSet(a, 1..n) = a[n] + SumFunctionOnSet(a, 1..(n - 1)) /\ a[n] \in Nat \ {0}
  <2>1. \A m \in 1..n : SumFunctionOnSet(a, 1..m) = a[m] + SumFunctionOnSet(a, 1..(m - 1))
    BY <1>1, SumOfFirst
  <2>2. n \in 1..n
    OBVIOUS
  <2> QED BY <2>1, <2>2
<1>3. IsFiniteSet(1..(n - 1))
  <2>1. n - 1 \in Int /\ 1 \in Int
    OBVIOUS
  <2> QED BY <2>1, FS_Interval
<1>4. \A k \in 1..(n - 1) : a[k] \in Nat
  OBVIOUS
<1>5. SumFunctionOnSet(a, 1..(n - 1)) \in Nat
  BY <1>3, <1>4, SumType
<1> QED BY <1>2, <1>5

\* The commission C of a batch of total A is to be divided among n items of amounts
\* a, f being their parts rounded down.
Division(n, a, f, A, C) ==
    /\ A = SumFunctionOnSet(a, 1..n)
    /\ \A k \in 1..n : a[k] \in Nat \ {0} /\ f[k] = (a[k] * C) \div A

\* What the code answers for an item but the last, when those before it have
\* got their parts rounded down.
PartOf(k, a, f, A, C) ==
    AllocateItemCommission(A, C, a[k], C - SumFunctionOnSet(f, 1..(k - 1)), FALSE)

Divided(n, a, f, A, C) ==
    /\ \A k \in 1..n : f[k] \in Nat /\ C - SumFunctionOnSet(f, 1..(k - 1)) \in Nat
    /\ \A k \in 1..(n - 1) : PartOf(k, a, f, A, C) = f[k]
    /\ C - SumFunctionOnSet(f, 1..(n - 1)) - f[n] \in 0..(n - 1)

\* Every item but the last gets its part rounded down, the last one what remains,
\* which is its own part and less than one franc for each item
\* (batch.go:226-235, 260-273).
LEMMA SharesFit ==
    ASSUME NEW n \in Nat \ {0}, NEW a, NEW f, NEW A \in Nat \ {0}, NEW C \in Nat,
           Division(n, a, f, A, C)
    PROVE  Divided(n, a, f, A, C)
<1> DEFINE Sf(m) == SumFunctionOnSet(f, 1..m)
<1>1. A \in Nat \ {0} /\ A = SumFunctionOnSet(a, 1..n)
  BY DEF Division
<1>2. \A k \in 1..n : a[k] \in Nat /\ f[k] = (a[k] * C) \div A
  BY DEF Division
<1>3. /\ \A m \in 0..n : Sf(m) \in 0..C
      /\ C - Sf(n) \in 0..(n - 1)
  BY <1>1, <1>2, FloorsFit
<1>4. ASSUME NEW k \in 1..n PROVE f[k] \in Nat
  <2>1. a[k] \in Nat /\ a[k] * C \in Nat /\ f[k] = (a[k] * C) \div A
    BY <1>2, ProductNat
  <2> QED BY <1>1, <2>1, FloorBounds
<1>5. \A k \in 1..n : Sf(k) = f[k] + Sf(k - 1)
  <2>1. n \in Nat /\ \A k \in 1..n : f[k] \in Int
    BY <1>4
  <2> QED BY <2>1, SumOfFirst
<1> HIDE DEF Sf
<1>6. \A k \in 1..n : C - Sf(k - 1) \in Nat
  BY <1>3
<1>7. ASSUME NEW k \in 1..(n - 1)
      PROVE  AllocateItemCommission(A, C, a[k], C - Sf(k - 1), FALSE) = f[k]
  <2>1. k \in 1..n /\ k \in 0..n /\ k - 1 \in 0..n
    OBVIOUS
  <2>2. f[k] <= C - Sf(k - 1)
    <3>1. Sf(k) \in 0..C /\ Sf(k - 1) \in 0..C /\ f[k] \in Nat
      BY <1>3, <1>4, <2>1
    <3>2. Sf(k) = f[k] + Sf(k - 1)
      BY <1>5, <2>1
    <3> QED BY <3>1, <3>2
  <2>3. C - Sf(k - 1) \in Nat /\ a[k] \in Nat /\ f[k] = (a[k] * C) \div A
    BY <1>2, <1>6, <2>1
  <2>4. PICK r \in Nat : r = C - Sf(k - 1)
    BY <2>3
  <2>5. PICK x \in Nat : x = a[k]
    BY <2>3
  <2>6. f[k] = (x * C) \div A /\ (x * C) \div A <= r
    BY <2>2, <2>3, <2>4, <2>5
  <2>7. AllocateItemCommission(A, C, x, r, FALSE) = (x * C) \div A
    BY <1>1, <2>6, AllocateFits
  <2> QED BY <2>4, <2>5, <2>6, <2>7
<1>8. C - Sf(n - 1) - f[n] \in 0..(n - 1)
  <2>1. n \in 1..n /\ n - 1 \in 0..n /\ n \in 0..n
    OBVIOUS
  <2>2. C - Sf(n - 1) - f[n] = C - Sf(n)
    BY <1>3, <1>4, <1>5, <2>1
  <2> QED BY <1>3, <2>2
<1> QED BY <1>4, <1>6, <1>7, <1>8 DEF Sf, Divided, PartOf
=============================================================================
