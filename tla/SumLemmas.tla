----------------------------- MODULE SumLemmas ------------------------------
(***************************************************************************)
(* What a sum over a finite set obeys (SumFunctionOnSet of the community   *)
(* modules), and the least number of a set.  The fold under the sum is a   *)
(* recursive function; that it exists, and what it computes, is proved by  *)
(* least counterexamples, with the well-founded orderings of the library.  *)
(***************************************************************************)
EXTENDS Integers, FiniteSets, Functions, FiniteSetTheorems, WellFoundedInduction, TLAPS

\* Every set of natural numbers with a member has a least one.
LEMMA NatMin ==
  ASSUME NEW T \in SUBSET Nat, T # {}
  PROVE  \E m \in T : \A k \in T : m <= k
<1>1. PICK m \in T : \A k \in T : <<k, m>> \notin OpToRel(<, Nat)
  BY NatLessThanWellFounded, WFMin
<1>2. \A k \in T : ~(k < m)
  BY <1>1 DEF OpToRel
<1>3. m \in Nat /\ \A k \in T : k \in Nat
  OBVIOUS
<1> HIDE DEF OpToRel
<1> QED
  BY <1>2, <1>3

\* Among subsets of a finite set there is one with none below it.
LEMMA SubsetMin ==
  ASSUME NEW S, IsFiniteSet(S), NEW C \in SUBSET SUBSET S, C # {}
  PROVE  \E T \in C : \A R \in C : R \subseteq T => R = T
<1>1. C \subseteq FiniteSubsetsOf(S)
  BY FS_Subset DEF FiniteSubsetsOf
<1>2. PICK T \in C : \A R \in C : <<R, T>> \notin StrictSubsetOrdering(S)
  BY <1>1, FS_StrictSubsetOrderingWellFounded, WFMin
<1>3. \A R \in C : ~(R \subseteq T /\ R # T)
  BY <1>2 DEF StrictSubsetOrdering
<1> QED
  BY <1>3

----------------------------------------------------------------------------
(* The recursive function under a sum.                                     *)

Pick(s) == CHOOSE x \in s : TRUE
Summing(it, f, S) ==
    it = [s \in SUBSET S |-> IF s = {} THEN 0 ELSE f[Pick(s)] + it[s \ {Pick(s)}]]

LEMMA SumByIter ==
  ASSUME NEW f, NEW S
  PROVE  SumFunctionOnSet(f, S) = (CHOOSE it : Summing(it, f, S))[S]
  BY Zenon DEF SumFunctionOnSet, FoldFunctionOnSet, MapThenFoldSet, Pick, Summing

LEMMA SummingAt ==
  ASSUME NEW it, NEW f, NEW S, Summing(it, f, S), NEW s \in SUBSET S
  PROVE  /\ s = {} => it[s] = 0
         /\ s # {} => /\ Pick(s) \in s /\ s \ {Pick(s)} \in SUBSET S
                      /\ it[s] = f[Pick(s)] + it[s \ {Pick(s)}]
<1>1. it[s] = IF s = {} THEN 0 ELSE f[Pick(s)] + it[s \ {Pick(s)}]
  BY DEF Summing
<1>2. s # {} => Pick(s) \in s
  BY DEF Pick
<1> QED
  BY <1>1, <1>2

\* Two of them agree where both are defined.
LEMMA SummingAgree ==
  ASSUME NEW f, NEW A, NEW B, NEW g, NEW h, Summing(g, f, A), Summing(h, f, B),
         NEW S, IsFiniteSet(S), S \subseteq A, S \subseteq B
  PROVE  g[S] = h[S]
<1> DEFINE C == {s \in SUBSET S : g[s] # h[s]}
<1>1. SUFFICES ASSUME g[S] # h[S] PROVE FALSE
  OBVIOUS
<1>a. S \in C /\ C \in SUBSET SUBSET S
  BY <1>1
<1>2. PICK T \in C : \A R \in C : R \subseteq T => R = T
  <2> HIDE DEF C
  <2> QED
    BY <1>a, SubsetMin
<1>3. T \in SUBSET S /\ T \in SUBSET A /\ T \in SUBSET B /\ g[T] # h[T]
  OBVIOUS
<1>4. T # {}
  BY <1>3, SummingAt
<1> DEFINE R == T \ {Pick(T)}
<1>5. /\ Pick(T) \in T /\ g[T] = f[Pick(T)] + g[R] /\ h[T] = f[Pick(T)] + h[R]
  BY <1>3, <1>4, SummingAt
<1>6. R \subseteq T /\ R # T /\ R \in SUBSET S
  BY <1>3, <1>5
<1>7. g[R] = h[R]
  BY <1>2, <1>6
<1> QED
  BY <1>3, <1>5, <1>7

\* There is one on every finite set.
LEMMA SummingExists ==
  ASSUME NEW f, NEW S, IsFiniteSet(S)
  PROVE  \E it : Summing(it, f, S)
<1> DEFINE C == {s \in SUBSET S : ~\E it : Summing(it, f, s)}
<1>1. SUFFICES ASSUME ~\E it : Summing(it, f, S) PROVE FALSE
  OBVIOUS
<1>a. S \in C /\ C \in SUBSET SUBSET S
  BY <1>1
<1>2. PICK T \in C : \A R \in C : R \subseteq T => R = T
  <2> HIDE DEF C
  <2> QED
    BY <1>a, SubsetMin
<1> DEFINE On(r) == CHOOSE it : Summing(it, f, r)
           Less(s) == s \ {Pick(s)}
           G == [s \in SUBSET T |-> IF s = {} THEN 0 ELSE f[Pick(s)] + On(Less(s))[Less(s)]]
<1>3. \A r \in SUBSET T : r # T => Summing(On(r), f, r)
  <2> SUFFICES ASSUME NEW r \in SUBSET T, r # T PROVE Summing(On(r), f, r)
    OBVIOUS
  <2>1. r \notin C /\ r \in SUBSET S
    BY <1>2
  <2>2. \E it : Summing(it, f, r)
    BY <2>1
  <2> QED
    BY <2>2
<1> HIDE DEF On
<1>4. ASSUME NEW r \in SUBSET T, r # T
      PROVE  G[r] = On(r)[r]
  <2>1. Summing(On(r), f, r)
    BY <1>3, <1>4
  <2>2. CASE r = {}
    BY <2>1, <2>2, SummingAt
  <2>3. CASE r # {}
    <3>1. Pick(r) \in r /\ On(r)[r] = f[Pick(r)] + On(r)[Less(r)]
      BY <2>1, <2>3, SummingAt
    <3>2. Less(r) \in SUBSET T /\ Less(r) # T /\ Less(r) \subseteq r
      BY <3>1
    <3>3. Summing(On(Less(r)), f, Less(r))
      BY <1>3, <3>2
    <3>4. IsFiniteSet(Less(r))
      BY <3>2, FS_Subset
    <3>5. On(r)[Less(r)] = On(Less(r))[Less(r)]
      BY <2>1, <3>2, <3>3, <3>4, SummingAgree
    <3>6. G[r] = f[Pick(r)] + On(Less(r))[Less(r)]
      BY <2>3
    <3> QED
      BY <3>1, <3>5, <3>6
  <2> QED
    BY <2>2, <2>3
<1>5. ASSUME NEW s \in SUBSET T, s # {}
      PROVE  On(Less(s))[Less(s)] = G[Less(s)]
  <2>1. Pick(s) \in s
    BY <1>5 DEF Pick
  <2>2. Less(s) \in SUBSET T /\ Less(s) # T
    BY <1>5, <2>1
  <2> QED
    BY <1>4, <2>2
<1>6. G = [s \in SUBSET T |-> IF s = {} THEN 0 ELSE f[Pick(s)] + G[Less(s)]]
  <2> DEFINE H == [s \in SUBSET T |-> IF s = {} THEN 0 ELSE f[Pick(s)] + G[Less(s)]]
  <2>1. \A s \in SUBSET T : G[s] = H[s]
    BY <1>5
  <2> HIDE DEF G
  <2> QED
    BY <2>1 DEF G
<1>7. Summing(G, f, T)
  BY <1>6 DEF Summing
<1> QED
  BY <1>2, <1>7

----------------------------------------------------------------------------
(* The laws of a sum.                                                      *)

LEMMA SumEmpty ==
  ASSUME NEW f
  PROVE  SumFunctionOnSet(f, {}) = 0
<1>1. IsFiniteSet({})
  BY FS_EmptySet
<1>2. Summing(CHOOSE it : Summing(it, f, {}), f, {})
  BY <1>1, SummingExists
<1> QED
  BY <1>2, SummingAt, SumByIter

LEMMA SumPick ==
  ASSUME NEW f, NEW S, IsFiniteSet(S), S # {}
  PROVE  /\ Pick(S) \in S
         /\ SumFunctionOnSet(f, S) = f[Pick(S)] + SumFunctionOnSet(f, S \ {Pick(S)})
<1> DEFINE On(r) == CHOOSE it : Summing(it, f, r)
           R == S \ {Pick(S)}
<1>1. IsFiniteSet(R)
  BY FS_Subset
<1>2. Summing(On(S), f, S) /\ Summing(On(R), f, R)
  BY <1>1, SummingExists
<1>3. SumFunctionOnSet(f, S) = On(S)[S] /\ SumFunctionOnSet(f, R) = On(R)[R]
  BY SumByIter
<1> HIDE DEF On
<1>4. S \in SUBSET S
  OBVIOUS
<1>5. Pick(S) \in S /\ On(S)[S] = f[Pick(S)] + On(S)[R]
  BY <1>2, <1>4, SummingAt
<1>6. On(S)[R] = On(R)[R]
  <2>1. R \subseteq S /\ R \subseteq R
    OBVIOUS
  <2> HIDE DEF R
  <2> QED
    BY <1>1, <1>2, <2>1, SummingAgree
<1> QED
  BY <1>3, <1>5, <1>6

\* Functions that agree on a set have the same sum over it.
LEMMA SumAgree ==
  ASSUME NEW S, IsFiniteSet(S), NEW f, NEW g, \A x \in S : f[x] = g[x]
  PROVE  SumFunctionOnSet(f, S) = SumFunctionOnSet(g, S)
<1> DEFINE C == {s \in SUBSET S : SumFunctionOnSet(f, s) # SumFunctionOnSet(g, s)}
<1>1. SUFFICES ASSUME SumFunctionOnSet(f, S) # SumFunctionOnSet(g, S) PROVE FALSE
  OBVIOUS
<1>2. S \in C /\ C \in SUBSET SUBSET S
  BY <1>1
<1>3. PICK T \in C : \A R \in C : R \subseteq T => R = T
  <2> HIDE DEF C
  <2> QED
    BY <1>2, SubsetMin
<1>4. T \subseteq S /\ IsFiniteSet(T) /\ SumFunctionOnSet(f, T) # SumFunctionOnSet(g, T)
  BY <1>3, FS_Subset
<1>5. T # {}
  BY <1>4, SumEmpty
<1> DEFINE R == T \ {Pick(T)}
<1>6. /\ Pick(T) \in T
      /\ SumFunctionOnSet(f, T) = f[Pick(T)] + SumFunctionOnSet(f, R)
      /\ SumFunctionOnSet(g, T) = g[Pick(T)] + SumFunctionOnSet(g, R)
  BY <1>4, <1>5, SumPick
<1>7. R \subseteq T /\ R # T /\ R \subseteq S
  BY <1>4, <1>6
<1>8. SumFunctionOnSet(f, R) = SumFunctionOnSet(g, R)
  BY <1>3, <1>7
<1>9. f[Pick(T)] = g[Pick(T)]
  BY <1>4, <1>6
<1> QED
  BY <1>4, <1>6, <1>8, <1>9

\* A sum of natural numbers is one.
LEMMA SumNat ==
  ASSUME NEW S, IsFiniteSet(S), NEW f, \A x \in S : f[x] \in Nat
  PROVE  SumFunctionOnSet(f, S) \in Nat
<1> DEFINE C == {s \in SUBSET S : SumFunctionOnSet(f, s) \notin Nat}
<1>1. SUFFICES ASSUME SumFunctionOnSet(f, S) \notin Nat PROVE FALSE
  OBVIOUS
<1>2. S \in C /\ C \in SUBSET SUBSET S
  BY <1>1
<1>3. PICK T \in C : \A R \in C : R \subseteq T => R = T
  <2> HIDE DEF C
  <2> QED
    BY <1>2, SubsetMin
<1>4. T \subseteq S /\ IsFiniteSet(T) /\ SumFunctionOnSet(f, T) \notin Nat
  BY <1>3, FS_Subset
<1>5. T # {}
  BY <1>4, SumEmpty
<1> DEFINE R == T \ {Pick(T)}
<1>6. Pick(T) \in T /\ SumFunctionOnSet(f, T) = f[Pick(T)] + SumFunctionOnSet(f, R)
  BY <1>4, <1>5, SumPick
<1>7. R \subseteq T /\ R # T /\ R \subseteq S
  BY <1>4, <1>6
<1>8. SumFunctionOnSet(f, R) \in Nat
  BY <1>3, <1>7
<1>9. f[Pick(T)] \in Nat
  BY <1>4, <1>6
<1> QED
  BY <1>4, <1>6, <1>8, <1>9

\* Any member may be taken out first.
LEMMA SumRemove ==
  ASSUME NEW S, IsFiniteSet(S), NEW f, \A x \in S : f[x] \in Nat, NEW y \in S
  PROVE  SumFunctionOnSet(f, S) = f[y] + SumFunctionOnSet(f, S \ {y})
<1> DEFINE Wrong(s, x) == SumFunctionOnSet(f, s) # f[x] + SumFunctionOnSet(f, s \ {x})
           C == {s \in SUBSET S : \E x \in s : Wrong(s, x)}
<1>1. SUFFICES ASSUME Wrong(S, y) PROVE FALSE
  OBVIOUS
<1>2. S \in C /\ C \in SUBSET SUBSET S
  <2> HIDE DEF Wrong
  <2> QED
    BY <1>1
<1>3. PICK T \in C : \A R \in C : R \subseteq T => R = T
  <2> HIDE DEF C
  <2> QED
    BY <1>2, SubsetMin
<1>4. T \subseteq S /\ IsFiniteSet(T)
  BY <1>3, FS_Subset
<1>5. PICK x \in T : Wrong(T, x)
  <2> HIDE DEF Wrong
  <2> QED
    BY <1>3
<1> DEFINE p == Pick(T)
           R == T \ {p}
           Q == T \ {x}
           Rest == R \ {x}
<1>6. p \in T /\ SumFunctionOnSet(f, T) = f[p] + SumFunctionOnSet(f, R)
  BY <1>4, <1>5, SumPick
<1>7. p # x
  BY <1>5, <1>6
<1>8. /\ R \subseteq S /\ R \subseteq T /\ R # T /\ x \in R
      /\ Q \subseteq S /\ Q \subseteq T /\ Q # T /\ p \in Q
      /\ Rest = Q \ {p} /\ Rest \subseteq S /\ IsFiniteSet(Rest)
  <2>1. IsFiniteSet(Rest)
    BY <1>4, FS_Subset
  <2> QED
    BY <1>4, <1>5, <1>6, <1>7, <2>1
<1>9. ~Wrong(R, x) /\ ~Wrong(Q, p)
  <2> HIDE DEF Wrong, R, Q, Rest, p
  <2>1. R \notin C /\ Q \notin C
    BY <1>3, <1>8
  <2> QED
    BY <1>8, <2>1
<1>10. /\ SumFunctionOnSet(f, R) = f[x] + SumFunctionOnSet(f, Rest)
       /\ SumFunctionOnSet(f, Q) = f[p] + SumFunctionOnSet(f, Rest)
  BY <1>8, <1>9
<1>11. SumFunctionOnSet(f, Rest) \in Nat
  <2>1. \A z \in Rest : f[z] \in Nat
    BY <1>8
  <2> HIDE DEF Rest
  <2> QED
    BY <1>8, <2>1, SumNat
<1>12. f[x] \in Nat /\ f[p] \in Nat
  BY <1>4, <1>5, <1>6
<1>13. SumFunctionOnSet(f, T) # f[x] + SumFunctionOnSet(f, Q)
  BY <1>5
<1> HIDE DEF R, Q, Rest, p
<1> QED
  BY <1>6, <1>10, <1>11, <1>12, <1>13

LEMMA SumAdd ==
  ASSUME NEW S, IsFiniteSet(S), NEW f, NEW y, y \notin S, \A x \in S \cup {y} : f[x] \in Nat
  PROVE  SumFunctionOnSet(f, S \cup {y}) = f[y] + SumFunctionOnSet(f, S)
<1> DEFINE W == S \cup {y}
<1>1. IsFiniteSet(W) /\ y \in W /\ W \ {y} = S /\ \A x \in W : f[x] \in Nat
  <2>1. IsFiniteSet(W)
    BY FS_AddElement
  <2> QED
    BY <2>1
<1> HIDE DEF W
<1>2. SumFunctionOnSet(f, W) = f[y] + SumFunctionOnSet(f, W \ {y})
  BY <1>1, SumRemove
<1> QED
  BY <1>1, <1>2 DEF W

\* A larger set has no smaller sum.
LEMMA SumMonotone ==
  ASSUME NEW S, IsFiniteSet(S), NEW f, \A x \in S : f[x] \in Nat, NEW A \in SUBSET S
  PROVE  SumFunctionOnSet(f, A) <= SumFunctionOnSet(f, S)
<1> DEFINE C == {s \in SUBSET S : A \subseteq s /\ ~(SumFunctionOnSet(f, A) <= SumFunctionOnSet(f, s))}
<1>1. SUFFICES ASSUME ~(SumFunctionOnSet(f, A) <= SumFunctionOnSet(f, S)) PROVE FALSE
  OBVIOUS
<1>2. S \in C /\ C \in SUBSET SUBSET S
  BY <1>1
<1>3. PICK T \in C : \A R \in C : R \subseteq T => R = T
  <2> HIDE DEF C
  <2> QED
    BY <1>2, SubsetMin
<1>4. T \subseteq S /\ IsFiniteSet(T) /\ IsFiniteSet(A) /\ A \subseteq T
      /\ ~(SumFunctionOnSet(f, A) <= SumFunctionOnSet(f, T))
  BY <1>3, FS_Subset
<1>5. SumFunctionOnSet(f, A) \in Nat
  BY <1>4, SumNat
<1>6. PICK x \in T : x \notin A
  BY <1>4, <1>5
<1> DEFINE R == T \ {x}
<1>7. R \subseteq T /\ R # T /\ R \subseteq S /\ A \subseteq R /\ IsFiniteSet(R)
  <2>1. IsFiniteSet(R)
    BY <1>4, FS_Subset
  <2> QED
    BY <1>4, <1>6, <2>1
<1>8. SumFunctionOnSet(f, A) <= SumFunctionOnSet(f, R)
  BY <1>3, <1>7
<1>9. \A z \in T : f[z] \in Nat
  BY <1>4
<1>10. SumFunctionOnSet(f, T) = f[x] + SumFunctionOnSet(f, R)
  BY <1>4, <1>9, SumRemove
<1>11. SumFunctionOnSet(f, R) \in Nat
  <2>1. \A z \in R : f[z] \in Nat
    BY <1>9
  <2> HIDE DEF R
  <2> QED
    BY <1>7, <2>1, SumNat
<1>12. f[x] \in Nat
  BY <1>9
<1> QED
  BY <1>4, <1>5, <1>8, <1>10, <1>11, <1>12

\* A function changed at one place.
LEMMA SumChange ==
  ASSUME NEW S, IsFiniteSet(S), NEW f, NEW g, NEW y \in S,
         \A x \in S : f[x] \in Nat /\ g[x] \in Nat,
         \A x \in S : x # y => g[x] = f[x]
  PROVE  SumFunctionOnSet(g, S) = SumFunctionOnSet(f, S) - f[y] + g[y]
<1> DEFINE R == S \ {y}
<1>1. IsFiniteSet(R)
  BY FS_Subset
<1>2. SumFunctionOnSet(f, S) = f[y] + SumFunctionOnSet(f, R)
  BY SumRemove
<1>3. SumFunctionOnSet(g, S) = g[y] + SumFunctionOnSet(g, R)
  BY SumRemove
<1>4. SumFunctionOnSet(f, R) = SumFunctionOnSet(g, R)
  <2>1. \A x \in R : f[x] = g[x]
    OBVIOUS
  <2> HIDE DEF R
  <2> QED
    BY <1>1, <2>1, SumAgree
<1>5. SumFunctionOnSet(f, R) \in Nat
  <2>1. \A x \in R : f[x] \in Nat
    OBVIOUS
  <2> HIDE DEF R
  <2> QED
    BY <1>1, <2>1, SumNat
<1>6. f[y] \in Nat /\ g[y] \in Nat
  OBVIOUS
<1> QED
  BY <1>2, <1>3, <1>4, <1>5, <1>6
\* Where a function is nothing, it adds nothing.
LEMMA SumSupport ==
  ASSUME NEW S, IsFiniteSet(S), NEW f, \A x \in S : f[x] \in Nat,
         NEW A \in SUBSET S, \A x \in S \ A : f[x] = 0
  PROVE  SumFunctionOnSet(f, S) = SumFunctionOnSet(f, A)
<1> DEFINE C == {s \in SUBSET S : A \subseteq s /\ SumFunctionOnSet(f, s) # SumFunctionOnSet(f, A)}
<1>1. SUFFICES ASSUME SumFunctionOnSet(f, S) # SumFunctionOnSet(f, A) PROVE FALSE
  OBVIOUS
<1>2. S \in C /\ C \in SUBSET SUBSET S
  BY <1>1
<1>3. PICK T \in C : \A R \in C : R \subseteq T => R = T
  <2> HIDE DEF C
  <2> QED
    BY <1>2, SubsetMin
<1>4. T \subseteq S /\ IsFiniteSet(T) /\ A \subseteq T
      /\ SumFunctionOnSet(f, T) # SumFunctionOnSet(f, A)
  BY <1>3, FS_Subset
<1>5. PICK x \in T : x \notin A
  BY <1>4
<1> DEFINE R == T \ {x}
<1>6. R \subseteq T /\ R # T /\ R \subseteq S /\ A \subseteq R /\ IsFiniteSet(R)
  <2>1. IsFiniteSet(R)
    BY <1>4, FS_Subset
  <2> QED
    BY <1>4, <1>5, <2>1
<1>7. SumFunctionOnSet(f, R) = SumFunctionOnSet(f, A)
  BY <1>3, <1>6
<1>8. \A z \in T : f[z] \in Nat
  BY <1>4
<1>9. SumFunctionOnSet(f, T) = f[x] + SumFunctionOnSet(f, R)
  BY <1>4, <1>8, SumRemove
<1>10. SumFunctionOnSet(f, R) \in Nat
  <2>1. \A z \in R : f[z] \in Nat
    BY <1>8
  <2> HIDE DEF R
  <2> QED
    BY <1>6, <2>1, SumNat
<1>11. f[x] = 0
  BY <1>4, <1>5
<1> QED
  BY <1>4, <1>7, <1>9, <1>10, <1>11

\* A sum of bounded numbers is bounded by how many there are.
LEMMA SumAtMost ==
  ASSUME NEW S, IsFiniteSet(S), NEW f, NEW m \in Nat, \A x \in S : f[x] \in Nat /\ f[x] <= m
  PROVE  SumFunctionOnSet(f, S) <= Cardinality(S) * m
<1> DEFINE C == {s \in SUBSET S : ~(SumFunctionOnSet(f, s) <= Cardinality(s) * m)}
<1>1. SUFFICES ASSUME ~(SumFunctionOnSet(f, S) <= Cardinality(S) * m) PROVE FALSE
  OBVIOUS
<1>2. S \in C /\ C \in SUBSET SUBSET S
  BY <1>1
<1>3. PICK T \in C : \A R \in C : R \subseteq T => R = T
  <2> HIDE DEF C
  <2> QED
    BY <1>2, SubsetMin
<1>4. T \subseteq S /\ IsFiniteSet(T) /\ ~(SumFunctionOnSet(f, T) <= Cardinality(T) * m)
  BY <1>3, FS_Subset
<1>5. T # {}
  <2>1. Cardinality({}) = 0 /\ 0 <= 0 * m
    BY FS_EmptySet
  <2> QED
    BY <1>4, <2>1, SumEmpty
<1>6. PICK x \in T : TRUE
  BY <1>5
<1> DEFINE R == T \ {x}
<1>7. R \subseteq T /\ R # T /\ R \subseteq S /\ IsFiniteSet(R)
      /\ Cardinality(R) = Cardinality(T) - 1 /\ Cardinality(R) \in Nat /\ Cardinality(T) \in Nat
  BY <1>4, <1>6, FS_RemoveElement, FS_CardinalityType
<1>8. SumFunctionOnSet(f, R) <= Cardinality(R) * m
  BY <1>3, <1>7
<1>9. \A z \in T : f[z] \in Nat /\ f[z] <= m
  BY <1>4
<1>10. SumFunctionOnSet(f, T) = f[x] + SumFunctionOnSet(f, R)
  BY <1>4, <1>6, <1>9, SumRemove
<1>11. SumFunctionOnSet(f, R) \in Nat /\ f[x] \in Nat /\ f[x] <= m
  <2>1. \A z \in R : f[z] \in Nat
    BY <1>9
  <2> HIDE DEF R
  <2>2. SumFunctionOnSet(f, R) \in Nat
    BY <1>7, <2>1, SumNat
  <2> QED
    BY <1>6, <1>9, <2>2
<1>12. Cardinality(T) * m = Cardinality(R) * m + m
  <2>1. Cardinality(T) = Cardinality(R) + 1
    BY <1>7
  <2>2. \A n \in Nat : (n + 1) * m = n * m + m
    OBVIOUS
  <2> QED
    BY <1>7, <2>1, <2>2
<1>13. Cardinality(R) * m \in Nat
  BY <1>7
<1> HIDE DEF R
<1> QED
  BY <1>4, <1>8, <1>10, <1>11, <1>12, <1>13
=============================================================================
