---------------------------- MODULE FoldTheorems ----------------------------
(***************************************************************************)
(* What FoldLeft computes, for the proofs about the loops the models write *)
(* as folds (replaying a log, applying a resolved batch).  FoldLeft is     *)
(* defined by a recursive function on the subsets of 1..n, so the proofs   *)
(* go through the unrollings of that function.                             *)
(*                                                                         *)
(* Op is the loop's body, with a parameter the loop does not change, its   *)
(* accumulator and an element; Alike relates the accumulators of two loops *)
(* after the same number of elements.  A module that reasons about a loop  *)
(* instantiates this one with both.                                        *)
(***************************************************************************)
EXTENDS Integers, Sequences, Folds
LOCAL INSTANCE TLAPS

CONSTANTS Op(_, _, _), Alike(_, _, _, _)

\* The largest number of a set, Max of FiniteSetsExt.
Top(S) == CHOOSE x \in S : \A y \in S : x >= y

\* FoldLeft of SeqFolds, unfolded.
Fold(p, b, s) ==
    MapThenFoldSet(LAMBDA e, a : Op(p, a, e), b, LAMBDA i : s[i], LAMBDA S : Top(S), DOMAIN s)

\* Induction over the natural numbers.  It is a hypothesis of the lemmas, and proved
\* where this module is instantiated, so that an instance brings no library along.
Induction ==
    \A T : 0 \in T /\ (\A n \in Nat : n \in T => n + 1 \in T) => \A n \in Nat : n \in T

\* The maximum of a set of numbers up to n that holds n.
LEMMA TopOfRange ==
    ASSUME NEW n \in Nat, NEW t \in SUBSET (1..n), n \in t
    PROVE  Top(t) = n
<1>1. \A y \in t : n >= y
  OBVIOUS
<1>2. \A x \in t : (\A y \in t : x >= y) => x = n
  OBVIOUS
<1>. QED
  BY <1>1, <1>2, Zenon DEF Top

\* g is the recursive function of the fold, on the subsets of 1..n.
Unrolls(g, n, p, b, s) ==
    g = [t \in SUBSET (1..n) |->
            IF t = {} THEN b ELSE Op(p, g[t \ {Top(t)}], s[Top(t)])]

\* The recursive function exists, for sequences of any length.
LEMMA UnrollingExists ==
    ASSUME Induction, NEW p, NEW b, NEW s
    PROVE  \A n \in Nat : \E g : Unrolls(g, n, p, b, s)
<1>. DEFINE T == {n \in Nat : \E g : Unrolls(g, n, p, b, s)}
<1>1. 0 \in T
  <2>. DEFINE g == [t \in SUBSET (1..0) |-> b]
  <2>1. SUBSET (1..0) = {{}}
    OBVIOUS
  <2>2. g = [t \in SUBSET (1..0) |-> IF t = {} THEN b ELSE Op(p, g[t \ {Top(t)}], s[Top(t)])]
    BY <2>1
  <2>. HIDE DEF g
  <2>. QED
    BY <2>2, Zenon DEF Unrolls
<1>2. ASSUME NEW n \in Nat, n \in T PROVE n + 1 \in T
  <2>1. PICK g : Unrolls(g, n, p, b, s)
    BY <1>2
  <2>. DEFINE h == [t \in SUBSET (1..(n + 1)) |->
                       IF n + 1 \in t THEN Op(p, g[t \ {n + 1}], s[n + 1]) ELSE g[t]]
  <2>2. ASSUME NEW t \in SUBSET (1..(n + 1))
        PROVE  h[t] = IF t = {} THEN b ELSE Op(p, h[t \ {Top(t)}], s[Top(t)])
    <3>1. CASE n + 1 \in t
      <4>1. Top(t) = n + 1
        BY <3>1, TopOfRange
      <4>2. t \ {n + 1} \in SUBSET (1..n)
        OBVIOUS
      <4>3. h[t \ {n + 1}] = g[t \ {n + 1}]
        BY <4>2
      <4>. QED
        BY <3>1, <4>1, <4>3
    <3>2. CASE n + 1 \notin t
      <4>1. t \in SUBSET (1..n)
        BY <3>2
      <4>2. CASE t = {}
        BY <2>1, <4>1, <4>2 DEF Unrolls
      <4>3. CASE t # {}
        <5>. DEFINE u == t \ {Top(t)}
        <5>1. u \in SUBSET (1..n) /\ u \in SUBSET (1..(n+1)) /\ n + 1 \notin u
          BY <4>1, <3>2, Zenon
        <5>2. h[u] = g[u]
          BY <5>1
        <5>3. g[t] = Op(p, g[u], s[Top(t)])
          BY <2>1, <4>1, <4>3, Zenon DEF Unrolls
        <5>4. h[t] = g[t]
          BY <3>2
        <5>. QED
          BY <4>3, <5>2, <5>3, <5>4, Zenon
      <4>. QED
        BY <4>2, <4>3
    <3>. QED
      BY <3>1, <3>2
  <2>3. Unrolls(h, n + 1, p, b, s)
    <3>1. h = [t \in SUBSET (1..(n + 1)) |-> h[t]]
      OBVIOUS
    <3>. HIDE DEF h
    <3>. QED
      BY <2>2, <3>1, Zenon DEF Unrolls
  <2>. HIDE DEF h
  <2>. QED
    BY <2>3
<1>. HIDE DEF T
<1>3. \A n \in Nat : n \in T
  BY <1>1, <1>2 DEF Induction
<1>. QED
  BY <1>3 DEF T

Agree(s, r, n) == \A i \in 1..n : s[i] = r[i]

\* Two unrollings agree on the subsets of 1..n if the sequences do.
LEMMA UnrollingsAgree ==
    ASSUME Induction, NEW n \in Nat, NEW m \in Nat, n <= m, NEW p, NEW b, NEW s, NEW r,
           Agree(s, r, n),
           NEW g, NEW h, Unrolls(g, n, p, b, s), Unrolls(h, m, p, b, r)
    PROVE  \A t \in SUBSET (1..n) : g[t] = h[t]
<1>. DEFINE T == {k \in Nat : k <= n => \A t \in SUBSET (1..k) : g[t] = h[t]}
<1>g. ASSUME NEW t \in SUBSET (1..n)
      PROVE  g[t] = IF t = {} THEN b ELSE Op(p, g[t \ {Top(t)}], s[Top(t)])
  BY Zenon DEF Unrolls
<1>h. ASSUME NEW t \in SUBSET (1..n)
      PROVE  h[t] = IF t = {} THEN b ELSE Op(p, h[t \ {Top(t)}], r[Top(t)])
  <2>1. t \in SUBSET (1..m)
    OBVIOUS
  <2>. QED
    BY <2>1, Zenon DEF Unrolls
<1>1. 0 \in T
  <2>1. SUFFICES ASSUME NEW t \in SUBSET (1..0) PROVE g[t] = h[t]
    OBVIOUS
  <2>2. t = {} /\ t \in SUBSET (1..n)
    OBVIOUS
  <2>. QED
    BY <2>2, <1>g, <1>h, Zenon
<1>2. ASSUME NEW k \in Nat, k \in T PROVE k + 1 \in T
  <2>. SUFFICES ASSUME k + 1 <= n, NEW t \in SUBSET (1..(k + 1)) PROVE g[t] = h[t]
    OBVIOUS
  <2>1. CASE k + 1 \in t
    <3>1. Top(t) = k + 1
      BY <2>1, TopOfRange
    <3>2. t \ {k + 1} \in SUBSET (1..k) /\ t \in SUBSET (1..n) /\ t # {} /\ k + 1 \in 1..n
      BY <2>1
    <3>3. g[t \ {k + 1}] = h[t \ {k + 1}]
      BY <1>2, <3>2
    <3>4. s[k + 1] = r[k + 1]
      BY <3>2 DEF Agree
    <3>5. g[t] = Op(p, g[t \ {k + 1}], s[k + 1])
      BY ONLY <3>1, <3>2, <1>g, Zenon
    <3>6. h[t] = Op(p, h[t \ {k + 1}], r[k + 1])
      BY ONLY <3>1, <3>2, <1>h, Zenon
    <3>. QED
      BY ONLY <3>3, <3>4, <3>5, <3>6, Zenon
  <2>2. CASE k + 1 \notin t
    <3>1. t \in SUBSET (1..k)
      BY <2>2
    <3>. QED
      BY <3>1, <1>2
  <2>. QED
    BY <2>1, <2>2
<1>. HIDE DEF T
<1>3. \A k \in Nat : k \in T
  BY <1>1, <1>2 DEF Induction
<1>. QED
  BY <1>3 DEF T

\* A fold is the value of an unrolling on all positions.
LEMMA FoldUnrolls ==
    ASSUME Induction, NEW n \in Nat, NEW s, DOMAIN s = 1..n, NEW p, NEW b
    PROVE  \E g : Unrolls(g, n, p, b, s) /\ Fold(p, b, s) = g[1..n]
<1>. DEFINE it == CHOOSE g : Unrolls(g, n, p, b, s)
<1>1. Unrolls(it, n, p, b, s)
  BY UnrollingExists
<1>2. Fold(p, b, s) = it[1..n]
  BY DEF Fold, MapThenFoldSet, Unrolls
<1>. QED
  BY <1>1, <1>2, Zenon

\* The loop over nothing leaves the accumulator as it is.
LEMMA FoldEmpty ==
    ASSUME Induction, NEW p, NEW b
    PROVE  Fold(p, b, <<>>) = b
<1>1. PICK g : Unrolls(g, 0, p, b, <<>>) /\ Fold(p, b, <<>>) = g[1..0]
  <2>1. DOMAIN <<>> = 1..0
    OBVIOUS
  <2>. QED
    BY <2>1, FoldUnrolls
<1>2. 1..0 = {} /\ 1..0 \in SUBSET (1..0)
  OBVIOUS
<1>. QED
  BY <1>1, <1>2 DEF Unrolls

\* The loop over one more element is the loop, and then its body once more.
LEMMA FoldLast ==
    ASSUME Induction, NEW n \in Nat, NEW s, DOMAIN s = 1..n, NEW r, DOMAIN r = 1..(n + 1),
           \A i \in 1..n : s[i] = r[i], NEW p, NEW b
    PROVE  Fold(p, b, r) = Op(p, Fold(p, b, s), r[n + 1])
<1>1. PICK g : Unrolls(g, n, p, b, s) /\ Fold(p, b, s) = g[1..n]
  BY FoldUnrolls
<1>2. PICK h : Unrolls(h, n + 1, p, b, r) /\ Fold(p, b, r) = h[1..(n + 1)]
  BY FoldUnrolls
<1>3. \A t \in SUBSET (1..n) : g[t] = h[t]
  <2>1. n + 1 \in Nat /\ n <= n + 1
    OBVIOUS
  <2>2. Unrolls(g, n, p, b, s) /\ Unrolls(h, n + 1, p, b, r)
    BY <1>1, <1>2
  <2>3. Agree(s, r, n)
    BY DEF Agree
  <2>. QED
    BY ONLY Induction, <2>1, <2>2, <2>3, n \in Nat, UnrollingsAgree
<1>4. Top(1..(n + 1)) = n + 1
  BY TopOfRange
<1>5. 1..(n + 1) \in SUBSET (1..(n + 1)) /\ 1..(n + 1) # {} /\ (1..(n + 1)) \ {n + 1} = 1..n
  OBVIOUS
<1>6. h[1..(n + 1)] = Op(p, h[1..n], r[n + 1])
  <2>1. h[1..(n + 1)] = Op(p, h[(1..(n + 1)) \ {Top(1..(n + 1))}], r[Top(1..(n + 1))])
    BY ONLY <1>2, <1>5, Zenon DEF Unrolls
  <2>. QED
    BY ONLY <1>4, <1>5, <2>1, Zenon
<1>. QED
  BY <1>1, <1>2, <1>3, <1>6, 1..n \in SUBSET (1..n)

\* The same for an element appended to a sequence.
LEMMA FoldAppend ==
    ASSUME Induction, NEW p, NEW b, NEW S, NEW s \in Seq(S), NEW e
    PROVE  Fold(p, b, Append(s, e)) = Op(p, Fold(p, b, s), e)
<1>. DEFINE r == Append(s, e)
<1>1. /\ Len(s) \in Nat /\ DOMAIN s = 1..Len(s) /\ DOMAIN r = 1..(Len(s) + 1)
      /\ (\A i \in 1..Len(s) : s[i] = r[i]) /\ r[Len(s) + 1] = e
  OBVIOUS
<1>. HIDE DEF r
<1>2. Fold(p, b, r) = Op(p, Fold(p, b, s), r[Len(s) + 1])
  BY <1>1, FoldLast
<1>. QED
  BY <1>1, <1>2 DEF r

\* Every step of the loop over the first n elements keeps the relation.
Keeps(x, p, q, s, n) ==
    \A i \in 1..n : \A a, b :
        Alike(x, i - 1, a, b) => Alike(x, i, Op(p, a, s[i]), Op(q, b, s[i]))

\* What holds between two loops' accumulators at the start, and is kept by every
\* step, holds between their results.
LEMMA FoldsAlike ==
    ASSUME Induction, NEW S, NEW s \in Seq(S), NEW p, NEW q, NEW x, NEW a, NEW b,
           Alike(x, 0, a, b), Keeps(x, p, q, s, Len(s))
    PROVE  Alike(x, Len(s), Fold(p, a, s), Fold(q, b, s))
<1>. DEFINE n == Len(s)
            Pre(k) == [i \in 1..k |-> s[i]]
            T == {k \in Nat : k <= n => Alike(x, k, Fold(p, a, Pre(k)), Fold(q, b, Pre(k)))}
<1>0. n \in Nat /\ Pre(n) = s
  OBVIOUS
<1>1. 0 \in T
  <2>1. Pre(0) = << >>
    OBVIOUS
  <2>2. Fold(p, a, Pre(0)) = a /\ Fold(q, b, Pre(0)) = b
    BY <2>1, FoldEmpty
  <2>. QED
    BY <2>2
<1>2. ASSUME NEW k \in Nat, k \in T PROVE k + 1 \in T
  <2>. SUFFICES ASSUME k + 1 <= n
                PROVE  Alike(x, k + 1, Fold(p, a, Pre(k + 1)), Fold(q, b, Pre(k + 1)))
    OBVIOUS
  <2>1. /\ DOMAIN Pre(k) = 1..k /\ DOMAIN Pre(k + 1) = 1..(k + 1)
        /\ \A i \in 1..k : Pre(k)[i] = Pre(k + 1)[i]
        /\ Pre(k + 1)[k + 1] = s[k + 1] /\ k + 1 \in 1..n /\ (k + 1) - 1 = k
    OBVIOUS
  <2>2. Alike(x, k, Fold(p, a, Pre(k)), Fold(q, b, Pre(k)))
    BY <1>0, <1>2
  <2>. HIDE DEF Pre, T
  <2>3. ASSUME NEW c, NEW d
        PROVE  Fold(c, d, Pre(k + 1)) = Op(c, Fold(c, d, Pre(k)), Pre(k + 1)[k + 1])
    <3>. DEFINE u == Pre(k)
                v == Pre(k + 1)
    <3>1. DOMAIN u = 1..k /\ DOMAIN v = 1..(k + 1) /\ \A i \in 1..k : u[i] = v[i]
      BY ONLY <2>1
    <3>. HIDE DEF u, v
    <3>2. Fold(c, d, v) = Op(c, Fold(c, d, u), v[k + 1])
      BY ONLY Induction, <3>1, k \in Nat, FoldLast, Zenon
    <3>. QED
      BY ONLY <3>2, Zenon DEF u, v
  <2>5. Alike(x, k + 1, Op(p, Fold(p, a, Pre(k)), s[k + 1]), Op(q, Fold(q, b, Pre(k)), s[k + 1]))
    <3>0. (k + 1) - 1 = k
      OBVIOUS
    <3>1. Alike(x, (k + 1) - 1, Fold(p, a, Pre(k)), Fold(q, b, Pre(k)))
      BY ONLY <2>2, <3>0, Zenon
    <3>. QED
      BY ONLY Keeps(x, p, q, s, n), <2>1, <3>1, Zenon DEF Keeps
  <2>6. Pre(k + 1)[k + 1] = s[k + 1]
    BY ONLY <2>1
  <2>. QED
    BY ONLY <2>3, <2>5, <2>6, Zenon
<1>. HIDE DEF T
<1>3. \A k \in Nat : k \in T
  BY <1>1, <1>2 DEF Induction
<1>. QED
  BY <1>0, <1>3 DEF T
=============================================================================
