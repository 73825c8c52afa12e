---------------------------- MODULE SumTheorems -----------------------------
(***************************************************************************)
(* Sums over a finite set of indices, as the contracts' loops compute      *)
(* them: SumFunctionOnSet(f, S) of the community module Functions.  The    *)
(* operator picks elements with CHOOSE; the lemmas show that the order     *)
(* makes no difference, and what a step that changes some terms does to    *)
(* the sum.  Induction is by a minimal counterexample in the strict subset *)
(* ordering, which is well founded on the subsets of a finite set.         *)
(***************************************************************************)
EXTENDS Integers, Functions, FiniteSetTheorems, WellFoundedInduction, TLAPS

\* What passes from all smaller subsets of a finite set to a subset holds of all.
LEMMA SubsetInduction ==
    ASSUME NEW S, IsFiniteSet(S), NEW T,
           \A U \in SUBSET S : (\A V \in SUBSET U : V # U => V \in T) => U \in T
    PROVE  \A U \in SUBSET S : U \in T
<1>. DEFINE Missing == {U \in SUBSET S : U \notin T}
<1>. SUFFICES ASSUME Missing # {} PROVE FALSE
  OBVIOUS
<1>1. IsWellFoundedOn(StrictSubsetOrdering(S), SUBSET S)
  <2>1. FiniteSubsetsOf(S) = SUBSET S
    BY FS_FiniteSubsetsOfFinite
  <2>2. IsWellFoundedOn(StrictSubsetOrdering(S), FiniteSubsetsOf(S))
    BY FS_StrictSubsetOrderingWellFounded
  <2>. QED
    BY ONLY <2>1, <2>2
<1>2. PICK U \in Missing : \A V \in Missing : ~(<<V, U>> \in StrictSubsetOrdering(S))
  <2>1. Missing \subseteq SUBSET S
    OBVIOUS
  <2>. HIDE DEF Missing
  <2>. QED
    BY <1>1, <2>1, WFMin
<1>3. ASSUME NEW V \in SUBSET U, V # U PROVE V \in T
  <2>1. <<V, U>> \in StrictSubsetOrdering(S)
    BY <1>3 DEF StrictSubsetOrdering
  <2>. QED
    BY <1>2, <2>1
<1>. QED
  BY <1>3

\* The element that the recursion takes first.
AnElement(t) == CHOOSE x \in t : TRUE

\* g is the function that SumFunctionOnSet(f, S) unrolls to.
SumUnrolls(g, f, S) ==
    g = [t \in SUBSET S |->
            IF t = {} THEN 0 ELSE f[AnElement(t)] + g[t \ {AnElement(t)}]]

\* CHOOSE takes an element of a set that has one.
LEMMA ElementOfSet == \A t : t # {} => AnElement(t) \in t
BY DEF AnElement

\* What the recursion says of a set with elements.
LEMMA SumUnrollsAt ==
    ASSUME NEW g, NEW f, NEW S, SumUnrolls(g, f, S), NEW t \in SUBSET S, t # {}
    PROVE  g[t] = f[AnElement(t)] + g[t \ {AnElement(t)}]
BY DEF SumUnrolls

\* What the recursion says of the empty set.
LEMMA SumUnrollsAtEmpty ==
    ASSUME NEW g, NEW f, NEW S, SumUnrolls(g, f, S)
    PROVE  g[{}] = 0
BY Zenon DEF SumUnrolls

\* f and k have the same terms on S.
SameOn(f, k, S) == \A x \in S : f[x] = k[x]

\* Two unrollings agree on the subsets of S when their terms agree on S, whatever
\* larger sets they were made for.
LEMMA SumUnrollingsAgree ==
    ASSUME NEW S, IsFiniteSet(S), NEW A, NEW B, S \subseteq A, S \subseteq B,
           NEW f, NEW k, SameOn(f, k, S),
           NEW g, NEW h, SumUnrolls(g, f, A), SumUnrolls(h, k, B)
    PROVE  \A t \in SUBSET S : g[t] = h[t]
<1>. DEFINE T == {t \in SUBSET S : g[t] = h[t]}
<1>1. ASSUME NEW U \in SUBSET S, \A V \in SUBSET U : V # U => V \in T
      PROVE  U \in T
  <2>1. CASE U = {}
    BY <2>1, SumUnrollsAtEmpty
  <2>2. CASE U # {}
    <3>. DEFINE x == AnElement(U)
    <3>1. x \in U /\ x \in S
      BY <2>2, ElementOfSet
    <3>. HIDE DEF x
    <3>2. U \ {x} \in T
      BY <1>1, <3>1
    <3>3. g[U] = f[x] + g[U \ {x}]
      <4>1. U \in SUBSET A
        OBVIOUS
      <4>. QED
        BY ONLY <2>2, <4>1, SumUnrolls(g, f, A), SumUnrollsAt DEF x
    <3>4. h[U] = k[x] + h[U \ {x}]
      <4>1. U \in SUBSET B
        OBVIOUS
      <4>. QED
        BY ONLY <2>2, <4>1, SumUnrolls(h, k, B), SumUnrollsAt DEF x
    <3>. QED
      BY <3>1, <3>2, <3>3, <3>4 DEF SameOn
  <2>. QED
    BY <2>1, <2>2
<1>. HIDE DEF T
<1>2. \A U \in SUBSET S : U \in T
  BY <1>1, SubsetInduction
<1>. QED
  BY <1>2 DEF T

\* Every finite set has an unrolling.
LEMMA SumUnrollingExists ==
    ASSUME NEW S, IsFiniteSet(S), NEW f
    PROVE  \E g : SumUnrolls(g, f, S)
<1>. DEFINE T == {t \in SUBSET S : \E g : SumUnrolls(g, f, t)}
<1>1. ASSUME NEW U \in SUBSET S, \A V \in SUBSET U : V # U => V \in T
      PROVE  U \in T
  <2>. DEFINE of(t) == CHOOSE g : SumUnrolls(g, f, t)
              rest(t) == t \ {AnElement(t)}
              G == [t \in SUBSET U |->
                      IF t = {} THEN 0 ELSE f[AnElement(t)] + of(rest(t))[rest(t)]]
  <2>1. ASSUME NEW V \in SUBSET U, V # U PROVE SumUnrolls(of(V), f, V)
    BY <1>1, <2>1
  <2>2. ASSUME NEW t \in SUBSET U, t # U PROVE G[t] = of(t)[t]
    <3>1. SumUnrolls(of(t), f, t)
      BY <2>1, <2>2
    <3>2. CASE t = {}
      BY <3>1, <3>2, SumUnrollsAtEmpty
    <3>3. CASE t # {}
      <4>1. rest(t) \in SUBSET t /\ rest(t) \in SUBSET U /\ rest(t) # U /\ t \in SUBSET t
        BY <3>3, ElementOfSet
      <4>2. SumUnrolls(of(rest(t)), f, rest(t))
        BY <2>1, <4>1, Zenon
      <4>3. IsFiniteSet(rest(t))
        BY <4>1, FS_Subset
      <4>4. of(rest(t))[rest(t)] = of(t)[rest(t)]
        <5>. HIDE DEF of, rest
        <5>1. SameOn(f, f, rest(t))
          BY DEF SameOn
        <5>2. rest(t) \subseteq t /\ rest(t) \subseteq rest(t)
          BY <4>1
        <5>3. \A u \in SUBSET rest(t) : of(rest(t))[u] = of(t)[u]
          BY ONLY <3>1, <4>2, <4>3, <5>1, <5>2, SumUnrollingsAgree
        <5>. QED
          BY <5>3
      <4>5. of(t)[t] = f[AnElement(t)] + of(t)[rest(t)]
        <5>. HIDE DEF of
        <5>. QED
          BY <3>1, <3>3, <4>1, SumUnrollsAt
      <4>6. G[t] = f[AnElement(t)] + of(rest(t))[rest(t)]
        BY <3>3
      <4>. HIDE DEF of, rest, G
      <4>. QED
        BY <4>4, <4>5, <4>6
    <3>. QED
      BY <3>2, <3>3
  <2>3. ASSUME NEW t \in SUBSET U
        PROVE  G[t] = IF t = {} THEN 0 ELSE f[AnElement(t)] + G[t \ {AnElement(t)}]
    <3>1. CASE t = {}
      BY <3>1
    <3>2. CASE t # {}
      <4>1. rest(t) \in SUBSET U /\ rest(t) # U
        BY <3>2, ElementOfSet
      <4>2. G[rest(t)] = of(rest(t))[rest(t)]
        BY <2>2, <4>1, Zenon
      <4>3. G[t] = f[AnElement(t)] + of(rest(t))[rest(t)]
        BY <3>2
      <4>4. rest(t) = t \ {AnElement(t)}
        OBVIOUS
      <4>. HIDE DEF of, rest, G
      <4>. QED
        BY <3>2, <4>2, <4>3, <4>4
    <3>. QED
      BY <3>1, <3>2
  <2>4. G = [t \in SUBSET U |-> G[t]]
    OBVIOUS
  <2>. HIDE DEF G
  <2>5. SumUnrolls(G, f, U)
    BY <2>3, <2>4, Zenon DEF SumUnrolls
  <2>. QED
    BY <2>5
<1>. HIDE DEF T
<1>2. \A U \in SUBSET S : U \in T
  BY <1>1, SubsetInduction, Zenon
<1>3. S \in T
  BY <1>2
<1>. QED
  BY <1>3 DEF T

\* SumFunctionOnSet is the value of an unrolling.
LEMMA SumIsUnrolling ==
    ASSUME NEW S, IsFiniteSet(S), NEW f
    PROVE  \E g : SumUnrolls(g, f, S) /\ SumFunctionOnSet(f, S) = g[S]
<1>. DEFINE it == CHOOSE g : SumUnrolls(g, f, S)
<1>1. SumUnrolls(it, f, S)
  BY SumUnrollingExists
<1>2. SumFunctionOnSet(f, S) = it[S]
  BY DEF SumFunctionOnSet, FoldFunctionOnSet, MapThenFoldSet, SumUnrolls, AnElement
<1>. QED
  BY <1>1, <1>2, Zenon

\* The sum over nothing.
LEMMA SumEmpty == \A f : SumFunctionOnSet(f, {}) = 0
<1>. TAKE f
<1>1. PICK g : SumUnrolls(g, f, {}) /\ SumFunctionOnSet(f, {}) = g[{}]
  BY FS_EmptySet, SumIsUnrolling
<1>. QED
  BY <1>1, SumUnrollsAtEmpty

\* The sum depends on the values at the indices only.
LEMMA SumSame ==
    ASSUME NEW S, IsFiniteSet(S), NEW f, NEW k, \A x \in S : f[x] = k[x]
    PROVE  SumFunctionOnSet(f, S) = SumFunctionOnSet(k, S)
<1>1. PICK g : SumUnrolls(g, f, S) /\ SumFunctionOnSet(f, S) = g[S]
  BY SumIsUnrolling
<1>2. PICK h : SumUnrolls(h, k, S) /\ SumFunctionOnSet(k, S) = h[S]
  BY SumIsUnrolling
<1>3. \A t \in SUBSET S : g[t] = h[t]
  <2>1. SameOn(f, k, S) /\ S \subseteq S
    BY DEF SameOn
  <2>. QED
    BY <1>1, <1>2, <2>1, SumUnrollingsAgree
<1>. QED
  BY <1>1, <1>2, <1>3

\* The sum takes the element that CHOOSE gives first.
LEMMA SumUnrolledOnce ==
    ASSUME NEW S, IsFiniteSet(S), NEW f, S # {}
    PROVE  SumFunctionOnSet(f, S) = f[AnElement(S)] + SumFunctionOnSet(f, S \ {AnElement(S)})
<1>. DEFINE R == S \ {AnElement(S)}
<1>1. PICK g : SumUnrolls(g, f, S) /\ SumFunctionOnSet(f, S) = g[S]
  BY SumIsUnrolling
<1>2. IsFiniteSet(R) /\ R \in SUBSET S
  BY FS_RemoveElement
<1>. HIDE DEF R
<1>3. PICK h : SumUnrolls(h, f, R) /\ SumFunctionOnSet(f, R) = h[R]
  BY <1>2, SumIsUnrolling
<1>4. \A t \in SUBSET R : h[t] = g[t]
  <2>1. SameOn(f, f, R) /\ R \subseteq R /\ R \subseteq S
    BY <1>2 DEF SameOn
  <2>. QED
    BY <1>1, <1>2, <1>3, <2>1, SumUnrollingsAgree
<1>5. g[S] = f[AnElement(S)] + g[R]
  BY <1>1, SumUnrollsAt, S \in SUBSET S, ZenonT(60) DEF R
<1>6. SumFunctionOnSet(f, R) = g[R]
  BY <1>3, <1>4
<1>. QED
  BY <1>1, <1>5, <1>6 DEF R

\* A sum of integers is an integer.
LEMMA SumInt ==
    ASSUME NEW S, IsFiniteSet(S), NEW f, \A x \in S : f[x] \in Int
    PROVE  SumFunctionOnSet(f, S) \in Int
<1>. DEFINE T == {t \in SUBSET S : SumFunctionOnSet(f, t) \in Int}
<1>1. ASSUME NEW U \in SUBSET S, \A V \in SUBSET U : V # U => V \in T
      PROVE  U \in T
  <2>1. CASE U = {}
    BY <2>1, SumEmpty
  <2>2. CASE U # {}
    <3>. DEFINE x == AnElement(U)
    <3>1. x \in U /\ IsFiniteSet(U)
      BY <2>2, ElementOfSet, FS_Subset
    <3>2. SumFunctionOnSet(f, U) = f[x] + SumFunctionOnSet(f, U \ {x})
      BY <2>2, <3>1, SumUnrolledOnce, Zenon
    <3>. HIDE DEF x
    <3>3. SumFunctionOnSet(f, U \ {x}) \in Int
      BY <1>1, <3>1
    <3>. QED
      BY <3>1, <3>2, <3>3
  <2>. QED
    BY <2>1, <2>2
<1>. HIDE DEF T
<1>2. \A U \in SUBSET S : U \in T
  BY <1>1, SubsetInduction, Zenon
<1>. QED
  BY <1>2 DEF T

\* A sum of naturals is a natural.
LEMMA SumNat ==
    ASSUME NEW S, IsFiniteSet(S), NEW f, \A x \in S : f[x] \in Nat
    PROVE  SumFunctionOnSet(f, S) \in Nat
<1>. DEFINE T == {t \in SUBSET S : SumFunctionOnSet(f, t) \in Nat}
<1>1. ASSUME NEW U \in SUBSET S, \A V \in SUBSET U : V # U => V \in T
      PROVE  U \in T
  <2>1. CASE U = {}
    BY <2>1, SumEmpty
  <2>2. CASE U # {}
    <3>. DEFINE x == AnElement(U)
    <3>1. x \in U /\ IsFiniteSet(U)
      BY <2>2, ElementOfSet, FS_Subset
    <3>2. SumFunctionOnSet(f, U) = f[x] + SumFunctionOnSet(f, U \ {x})
      BY <2>2, <3>1, SumUnrolledOnce, Zenon
    <3>. HIDE DEF x
    <3>3. SumFunctionOnSet(f, U \ {x}) \in Nat
      BY <1>1, <3>1
    <3>. QED
      BY <3>1, <3>2, <3>3
  <2>. QED
    BY <2>1, <2>2
<1>. HIDE DEF T
<1>2. \A U \in SUBSET S : U \in T
  BY <1>1, SubsetInduction
<1>. QED
  BY <1>2 DEF T

\* The order in which the elements are taken makes no difference: any of them
\* can be the first.
LEMMA SumTake ==
    ASSUME NEW S, IsFiniteSet(S), NEW f, \A x \in S : f[x] \in Int
    PROVE  \A x \in S : SumFunctionOnSet(f, S) = f[x] + SumFunctionOnSet(f, S \ {x})
<1>. DEFINE Sm(t) == SumFunctionOnSet(f, t)
            T == {t \in SUBSET S : \A x \in t : Sm(t) = f[x] + Sm(t \ {x})}
<1>i. \A t \in SUBSET S : Sm(t) \in Int
  BY FS_Subset, SumInt
<1>1. ASSUME NEW U \in SUBSET S, \A V \in SUBSET U : V # U => V \in T,
             NEW x \in U
      PROVE  Sm(U) = f[x] + Sm(U \ {x})
  <2>. DEFINE y == AnElement(U)
  <2>1. y \in U /\ IsFiniteSet(U)
    BY ElementOfSet, FS_Subset
  <2>2. Sm(U) = f[y] + Sm(U \ {y})
    BY <2>1, SumUnrolledOnce, Zenon
  <2>. HIDE DEF y, Sm
  <2>3. CASE x = y
    BY <2>2, <2>3
  <2>4. CASE x # y
    <3>1. U \ {y} \in T /\ U \ {x} \in T
      BY <1>1, <2>1
    <3>2. x \in U \ {y} /\ y \in U \ {x}
      BY <2>1, <2>4
    <3>3. Sm(U \ {y}) = f[x] + Sm((U \ {y}) \ {x})
      BY <3>1, <3>2
    <3>4. Sm(U \ {x}) = f[y] + Sm((U \ {x}) \ {y})
      BY <3>1, <3>2, Zenon
    <3>5. (U \ {y}) \ {x} = (U \ {x}) \ {y}
      OBVIOUS
    <3>6. f[x] \in Int /\ f[y] \in Int /\ Sm((U \ {x}) \ {y}) \in Int
      BY <2>1, <1>i
    <3>7. Sm((U \ {y}) \ {x}) = Sm((U \ {x}) \ {y})
      BY <3>5
    <3>. QED
      BY ONLY <2>2, <3>3, <3>4, <3>6, <3>7
  <2>. QED
    BY <2>3, <2>4
<1>2. \A U \in SUBSET S : (\A V \in SUBSET U : V # U => V \in T) => U \in T
  BY <1>1
<1>. HIDE DEF T
<1>3. \A U \in SUBSET S : U \in T
  BY <1>2, SubsetInduction, Zenon
<1>. QED
  BY <1>3 DEF T

\* Induction over the subsets of a finite set, one element at a time.
LEMMA ElementInduction ==
    ASSUME NEW S, IsFiniteSet(S), NEW T, {} \in T,
           \A U \in SUBSET S : \A x \in U : U \ {x} \in T => U \in T
    PROVE  \A U \in SUBSET S : U \in T
<1>1. ASSUME NEW U \in SUBSET S, \A V \in SUBSET U : V # U => V \in T
      PROVE  U \in T
  <2>1. CASE U = {}
    BY <2>1
  <2>2. CASE U # {}
    <3>1. PICK x \in U : TRUE
      BY <2>2
    <3>2. U \ {x} \in T
      BY <1>1, <3>1
    <3>. QED
      BY <3>1, <3>2
  <2>. QED
    BY <2>1, <2>2
<1>. QED
  BY <1>1, SubsetInduction, ZenonT(60)

\* Two sums are added term by term.
LEMMA SumAdd ==
    ASSUME NEW S, IsFiniteSet(S), NEW f, NEW k, NEW g,
           \A x \in S : f[x] \in Int /\ k[x] \in Int /\ g[x] = f[x] + k[x]
    PROVE  SumFunctionOnSet(g, S) = SumFunctionOnSet(f, S) + SumFunctionOnSet(k, S)
<1>. DEFINE F(t) == SumFunctionOnSet(f, t)
            K(t) == SumFunctionOnSet(k, t)
            G(t) == SumFunctionOnSet(g, t)
            T == {t \in SUBSET S : G(t) = F(t) + K(t)}
<1>1. {} \in T
  BY SumEmpty
<1>2. ASSUME NEW U \in SUBSET S, NEW x \in U, U \ {x} \in T
      PROVE  U \in T
  <2>0. IsFiniteSet(U) /\ IsFiniteSet(U \ {x}) /\ x \in S
    BY FS_Subset
  <2>1. F(U) = f[x] + F(U \ {x}) /\ F(U \ {x}) \in Int
    BY <2>0, SumTake, SumInt
  <2>2. K(U) = k[x] + K(U \ {x}) /\ K(U \ {x}) \in Int
    BY <2>0, SumTake, SumInt
  <2>3. G(U) = g[x] + G(U \ {x})
    BY <2>0, SumTake
  <2>4. f[x] \in Int /\ k[x] \in Int /\ g[x] = f[x] + k[x]
    BY <2>0
  <2>. HIDE DEF F, K, G
  <2>. QED
    BY <1>2, <2>1, <2>2, <2>3, <2>4
<1>. HIDE DEF T
<1>3. \A U \in SUBSET S : U \in T
  BY <1>1, <1>2, ElementInduction, Zenon
<1>4. S \in T
  BY <1>3
<1>. QED
  BY <1>4 DEF T

\* A sum grows with its terms.
LEMMA SumMonotone ==
    ASSUME NEW S, IsFiniteSet(S), NEW f, NEW g,
           \A x \in S : f[x] \in Int /\ g[x] \in Int /\ f[x] <= g[x]
    PROVE  SumFunctionOnSet(f, S) <= SumFunctionOnSet(g, S)
<1>. DEFINE F(t) == SumFunctionOnSet(f, t)
            G(t) == SumFunctionOnSet(g, t)
            T == {t \in SUBSET S : F(t) <= G(t)}
<1>1. {} \in T
  BY SumEmpty
<1>2. ASSUME NEW U \in SUBSET S, NEW x \in U, U \ {x} \in T
      PROVE  U \in T
  <2>0. IsFiniteSet(U) /\ IsFiniteSet(U \ {x}) /\ x \in S
    BY FS_Subset
  <2>1. F(U) = f[x] + F(U \ {x}) /\ F(U \ {x}) \in Int
    BY <2>0, SumTake, SumInt
  <2>2. G(U) = g[x] + G(U \ {x}) /\ G(U \ {x}) \in Int
    BY <2>0, SumTake, SumInt
  <2>3. f[x] \in Int /\ g[x] \in Int /\ f[x] <= g[x]
    BY <2>0
  <2>. HIDE DEF F, G
  <2>. QED
    BY <1>2, <2>1, <2>2, <2>3
<1>. HIDE DEF T
<1>3. \A U \in SUBSET S : U \in T
  BY <1>1, <1>2, ElementInduction, Zenon
<1>4. S \in T
  BY <1>3
<1>. QED
  BY <1>4 DEF T

\* The sum over a set is the sum over a part and over the rest.
LEMMA SumSplit ==
    ASSUME NEW S, IsFiniteSet(S), NEW f, \A x \in S : f[x] \in Int, NEW A \in SUBSET S
    PROVE  SumFunctionOnSet(f, S) = SumFunctionOnSet(f, A) + SumFunctionOnSet(f, S \ A)
<1>. DEFINE F(t) == SumFunctionOnSet(f, t)
            T == {t \in SUBSET S : F(S) = F(t) + F(S \ t)}
<1>0. \A U \in SUBSET S : IsFiniteSet(U) /\ F(U) \in Int
  BY FS_Subset, SumInt
<1>1. {} \in T
  <2>1. F({}) = 0 /\ S \ {} = S /\ F(S) \in Int
    BY <1>0, SumEmpty
  <2>. QED
    BY <2>1
<1>2. ASSUME NEW U \in SUBSET S, NEW x \in U, U \ {x} \in T
      PROVE  U \in T
  <2>0. /\ U \ {x} \in SUBSET S /\ S \ (U \ {x}) \in SUBSET S /\ S \ U \in SUBSET S
        /\ x \in S /\ x \in S \ (U \ {x}) /\ f[x] \in Int
        /\ (S \ (U \ {x})) \ {x} = S \ U
    OBVIOUS
  <2>1. F(U) = f[x] + F(U \ {x})
    BY <1>0, SumTake
  <2>2. F(S \ (U \ {x})) = f[x] + F((S \ (U \ {x})) \ {x})
    BY <1>0, <2>0, SumTake
  <2>3. F(S) = F(U \ {x}) + F(S \ (U \ {x}))
    BY <1>2
  <2>. HIDE DEF F
  <2>4. F(U \ {x}) \in Int /\ F(S \ U) \in Int
    BY <1>0, <2>0
  <2>5. F((S \ (U \ {x})) \ {x}) = F(S \ U)
    BY <2>0
  <2>6. f[x] \in Int
    BY <2>0
  <2>7. F(S) = F(U) + F(S \ U)
    BY ONLY <2>1, <2>2, <2>3, <2>4, <2>5, <2>6
  <2>. QED
    BY <2>7
<1>. HIDE DEF T
<1>3. \A U \in SUBSET S : U \in T
  BY <1>1, <1>2, ElementInduction, Zenon
<1>4. A \in T
  BY <1>3
<1>. QED
  BY <1>4 DEF T

\* Terms of zero add nothing.
LEMMA SumZero ==
    ASSUME NEW S, IsFiniteSet(S), NEW f, \A x \in S : f[x] = 0
    PROVE  SumFunctionOnSet(f, S) = 0
<1>1. SumFunctionOnSet(f, S) \in Int
  BY SumInt
<1>2. SumFunctionOnSet(f, S) = SumFunctionOnSet(f, S) + SumFunctionOnSet(f, S)
  BY SumAdd
<1>3. \A n \in Int : n = n + n => n = 0
  OBVIOUS
<1>. QED
  BY ONLY <1>1, <1>2, <1>3, Zenon

\* No two indices of D name the same element.
Names(g, D) == \A i, j \in D : g[i] = g[j] => i = j

\* A sum over what the indices of D name is the sum over the indices.
LEMMA SumNamed ==
    ASSUME NEW D, IsFiniteSet(D), NEW g, Names(g, D), NEW f, NEW k,
           \A i \in D : f[i] \in Int /\ k[g[i]] = f[i]
    PROVE  SumFunctionOnSet(k, {g[i] : i \in D}) = SumFunctionOnSet(f, D)
<1>. DEFINE Image(t) == {g[i] : i \in t}
            T == {t \in SUBSET D :
                    /\ IsFiniteSet(Image(t))
                    /\ SumFunctionOnSet(k, Image(t)) = SumFunctionOnSet(f, t)}
<1>1. {} \in T
  <2>1. Image({}) = {}
    OBVIOUS
  <2>. QED
    BY <2>1, SumEmpty, FS_EmptySet
<1>2. ASSUME NEW U \in SUBSET D, NEW x \in U, U \ {x} \in T
      PROVE  U \in T
  <2>0. IsFiniteSet(U) /\ x \in D
    BY FS_Subset
  <2>1. SumFunctionOnSet(f, U) = f[x] + SumFunctionOnSet(f, U \ {x})
    BY <2>0, SumTake
  <2>2. IsFiniteSet(Image(U))
    <3>1. Image(U) = Image(U \ {x}) \union {g[x]}
      OBVIOUS
    <3>2. IsFiniteSet(Image(U \ {x}))
      BY <1>2
    <3>. HIDE DEF Image
    <3>3. IsFiniteSet(Image(U \ {x}) \union {g[x]})
      BY ONLY <3>2, FS_AddElement, ZenonT(60)
    <3>. QED
      BY ONLY <3>1, <3>3
  <2>3. \A y \in Image(U) : k[y] \in Int
    OBVIOUS
  <2>4. g[x] \in Image(U) /\ Image(U) \ {g[x]} = Image(U \ {x})
    BY DEF Names
  <2>5. SumFunctionOnSet(k, Image(U)) = k[g[x]] + SumFunctionOnSet(k, Image(U) \ {g[x]})
    <3>. HIDE DEF Image
    <3>. QED
      BY <2>2, <2>3, <2>4, SumTake
  <2>6. SumFunctionOnSet(k, Image(U \ {x})) = SumFunctionOnSet(f, U \ {x})
    BY <1>2
  <2>7. k[g[x]] = f[x]
    BY <2>0
  <2>. HIDE DEF Image
  <2>. QED
    BY <2>1, <2>2, <2>4, <2>5, <2>6, <2>7, Zenon
<1>. HIDE DEF T
<1>3. \A U \in SUBSET D : U \in T
  BY <1>1, <1>2, ElementInduction, ZenonT(60)
<1>4. D \in T
  BY <1>3
<1>. QED
  BY <1>4 DEF T

\* Changing one term changes the sum by as much.
LEMMA SumUpdate ==
    ASSUME NEW S, IsFiniteSet(S), NEW f, NEW g, NEW x \in S,
           \A y \in S : f[y] \in Int /\ g[y] \in Int,
           \A y \in S \ {x} : g[y] = f[y]
    PROVE  SumFunctionOnSet(g, S) = SumFunctionOnSet(f, S) - f[x] + g[x]
<1>1. SumFunctionOnSet(g, S) = g[x] + SumFunctionOnSet(g, S \ {x})
  BY SumTake
<1>2. SumFunctionOnSet(f, S) = f[x] + SumFunctionOnSet(f, S \ {x})
  BY SumTake
<1>3. IsFiniteSet(S \ {x})
  BY FS_RemoveElement
<1>4. SumFunctionOnSet(f, S \ {x}) = SumFunctionOnSet(g, S \ {x})
  BY <1>3, SumSame
<1>5. SumFunctionOnSet(f, S \ {x}) \in Int /\ f[x] \in Int /\ g[x] \in Int
  BY <1>3, SumInt
<1>. QED
  BY ONLY <1>1, <1>2, <1>4, <1>5
=============================================================================
