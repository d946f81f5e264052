---------------------------- MODULE FoldTheorems ----------------------------
(***************************************************************************)
(* What a fold over a sequence comes to, and what it keeps.  A theorem     *)
(* cannot be given an operator, but a module can: who has proofs about a   *)
(* fold instantiates this module with what the fold does in each step and  *)
(* with the property it keeps.  Both may depend on a few values that stay  *)
(* the same; the property may also depend on how many steps there were.    *)
(***************************************************************************)
EXTENDS Integers, TLAPS, WellFoundedInduction

CONSTANTS
    Op(_, _, _, _, _, _),   \* four values that stay the same, what there is so far, the next
    Good(_, _, _, _, _, _)  \* the four values, how many steps there were, what there is

Largest(S) == CHOOSE x \in S : \A y \in S : x >= y

\* The fold as FoldLeft has it: a function on the sets of indices of the sequence.
IsFold(p, q, r, t, base, b, I, it) ==
    it = [S \in SUBSET I |-> IF S = {} THEN base
                             ELSE Op(p, q, r, t, it[S \ {Largest(S)}], b[Largest(S)])]

Folded(p, q, r, t, base, b) == (CHOOSE it : IsFold(p, q, r, t, base, b, DOMAIN b, it))[DOMAIN b]

-----------------------------------------------------------------------------
(* Induction over the natural numbers, for the set of those with a property. *)

LEMMA LessIsWellFounded ==
  \E R : IsWellFoundedOn(R, Nat) /\ \A m, n \in Nat : m < n => <<m, n>> \in R
  <1>1. \A m, n \in Nat : m < n => <<m, n>> \in OpToRel(<, Nat)
    BY DEF OpToRel
  <1> QED
    BY <1>1, NatLessThanWellFounded

\* A set of natural numbers that is not empty has a least element.
LEMMA LeastNat ==
  ASSUME NEW T \in SUBSET Nat, T # {}
  PROVE  \E n \in T : \A m \in T : n <= m
  <1>1. PICK R : IsWellFoundedOn(R, Nat) /\ \A m, n \in Nat : m < n => <<m, n>> \in R
    BY LessIsWellFounded
  <1>2. T \subseteq Nat /\ T # {} /\ IsWellFoundedOn(R, Nat)
    BY <1>1
  <1>3. \E n \in T : \A m \in T : ~ (<<m, n>> \in R)
    BY <1>2, WFMin, Zenon
  <1>4. PICK n \in T : \A m \in T : ~ (<<m, n>> \in R)
    BY <1>3
  <1>5. \A m \in T : ~ (m < n)
    BY <1>1, <1>4
  <1> QED
    BY <1>5

LEMMA NatInductionOnSet ==
  ASSUME NEW P, 0 \in P, \A n \in Nat : n \in P => n + 1 \in P
  PROVE  Nat \subseteq P
  <1> DEFINE T == Nat \ P
  <1>1. ASSUME T # {} PROVE FALSE
    <2>1. PICK n \in T : \A m \in T : n <= m
      BY <1>1, LeastNat
    <2>2. n # 0 /\ n - 1 \in Nat /\ n - 1 \notin T
      BY <2>1
    <2>3. n - 1 \in P /\ (n - 1) + 1 = n
      BY <2>1, <2>2
    <2> QED
      BY <2>1, <2>2, <2>3
  <1> QED
    BY <1>1

-----------------------------------------------------------------------------
(* The sets of indices that a fold goes through. *)

\* The greatest of the indices up to n, if n is one of them.
LEMMA LargestIs ==
  ASSUME NEW n \in Nat, NEW S \in SUBSET (1..n), n \in S
  PROVE  Largest(S) = n
  <1>1. \A x \in S : (\A y \in S : x >= y) => x = n
    OBVIOUS
  <1>2. \A y \in S : n >= y
    OBVIOUS
  <1> QED
    BY <1>1, <1>2 DEF Largest

LEMMA IndexSets ==
  ASSUME NEW n \in Nat
  PROVE  /\ \A S \in SUBSET (1..n + 1) : n + 1 \notin S => S \in SUBSET (1..n)
         /\ \A S \in SUBSET (1..n + 1) : S \ {n + 1} \in SUBSET (1..n)
         /\ \A S \in SUBSET (1..n) : S \in SUBSET (1..n + 1) /\ n + 1 \notin S
         /\ \A S \in SUBSET (1..n) : \A x : S \ {x} \in SUBSET (1..n)
  <1>1. \A x \in 1..n + 1 : x # n + 1 => x \in 1..n
    OBVIOUS
  <1>2. \A x \in 1..n : x \in 1..n + 1 /\ x # n + 1
    OBVIOUS
  <1> QED
    BY <1>1, <1>2

LEMMA FirstIndices ==
  ASSUME NEW n \in Nat, NEW j \in 1..n
  PROVE  /\ 1..j \in SUBSET (1..n) /\ 1..j # {}
         /\ Largest(1..j) = j /\ (1..j) \ {j} = 1..j - 1
  <1>1. j \in Nat /\ j \in 1..j /\ \A x \in 1..j : x \in 1..n
    OBVIOUS
  <1>2. Largest(1..j) = j
    BY <1>1, LargestIs
  <1>3. (1..j) \ {j} = 1..j - 1
    OBVIOUS
  <1> QED
    BY <1>1, <1>2, <1>3

-----------------------------------------------------------------------------
(* There is a fold over every sequence: one over n + 1 elements from one over n. *)

LEMMA FoldExists ==
  ASSUME NEW p, NEW q, NEW r, NEW t, NEW base, NEW b
  PROVE  \A n \in Nat : \E it : IsFold(p, q, r, t, base, b, 1..n, it)
  <1> DEFINE P == {n \in Nat : \E it : IsFold(p, q, r, t, base, b, 1..n, it)}
  <1>1. 0 \in P
    <2>1. IsFold(p, q, r, t, base, b, 1..0, [S \in SUBSET (1..0) |-> base])
      BY DEF IsFold
    <2> QED
      BY <2>1
  <1>2. ASSUME NEW n \in Nat, n \in P PROVE n + 1 \in P
    <2>1. PICK it : IsFold(p, q, r, t, base, b, 1..n, it)
      BY <1>2
    <2> DEFINE new == [S \in SUBSET (1..n + 1) |->
                          IF n + 1 \in S THEN Op(p, q, r, t, it[S \ {n + 1}], b[n + 1])
                          ELSE it[S]]
    <2>2. ASSUME NEW S \in SUBSET (1..n + 1)
          PROVE  new[S] = IF S = {} THEN base
                          ELSE Op(p, q, r, t, new[S \ {Largest(S)}], b[Largest(S)])
      <3>1. CASE n + 1 \in S
        <4>1. Largest(S) = n + 1
          BY <3>1, LargestIs
        <4>2. new[S] = Op(p, q, r, t, it[S \ {n + 1}], b[n + 1])
          BY <3>1
        <4>3. new[S \ {n + 1}] = it[S \ {n + 1}]
          OBVIOUS
        <4>4. S # {}
          BY <3>1
        <4> HIDE DEF new
        <4> QED
          BY <4>1, <4>2, <4>3, <4>4
      <3>2. CASE n + 1 \notin S
        <4>1. S \in SUBSET (1..n) /\ S \ {Largest(S)} \in SUBSET (1..n)
          BY <3>2, IndexSets
        <4>2. new[S] = it[S] /\ new[S \ {Largest(S)}] = it[S \ {Largest(S)}]
          BY <3>2, <4>1
        <4>3. it[S] = IF S = {} THEN base
                      ELSE Op(p, q, r, t, it[S \ {Largest(S)}], b[Largest(S)])
          BY <2>1, <4>1 DEF IsFold
        <4> HIDE DEF new
        <4> QED
          BY <4>2, <4>3
      <3> QED
        BY <3>1, <3>2
    <2>3. IsFold(p, q, r, t, base, b, 1..n + 1, new)
      BY <2>2 DEF IsFold
    <2> QED
      BY <2>3
  <1> HIDE DEF P
  <1>3. Nat \subseteq P
    BY <1>1, <1>2, NatInductionOnSet
  <1> QED
    BY <1>3 DEF P

\* What there is after each step.
AreSteps(p, q, r, t, base, b, n, f) ==
    /\ f[0] = base /\ Folded(p, q, r, t, base, b) = f[n]
    /\ \A j \in 1..n : f[j] = Op(p, q, r, t, f[j - 1], b[j])

LEMMA FoldSteps ==
  ASSUME NEW p, NEW q, NEW r, NEW t, NEW base, NEW b, NEW n \in Nat, DOMAIN b = 1..n
  PROVE  \E f : AreSteps(p, q, r, t, base, b, n, f)
  <1>1. PICK it : IsFold(p, q, r, t, base, b, 1..n, it) /\ Folded(p, q, r, t, base, b) = it[1..n]
    BY FoldExists DEF Folded
  <1>2. \A S \in SUBSET (1..n) :
            it[S] = IF S = {} THEN base
                    ELSE Op(p, q, r, t, it[S \ {Largest(S)}], b[Largest(S)])
    BY <1>1 DEF IsFold
  <1>3. ASSUME NEW j \in 1..n PROVE it[1..j] = Op(p, q, r, t, it[1..j - 1], b[j])
    <2>1. 1..j \in SUBSET (1..n) /\ 1..j # {} /\ Largest(1..j) = j /\ (1..j) \ {j} = 1..j - 1
      BY FirstIndices
    <2>2. it[1..j] = Op(p, q, r, t, it[(1..j) \ {Largest(1..j)}], b[Largest(1..j)])
      BY <1>2, <2>1
    <2> QED
      BY <2>1, <2>2
  <1> DEFINE f == [j \in 0..n |-> it[1..j]]
  <1>4. f[0] = base /\ Folded(p, q, r, t, base, b) = f[n]
    <2>1. 1..0 = {} /\ it[{}] = base
      BY <1>2
    <2> QED
      BY <1>1, <2>1
  <1>5. \A j \in 1..n : f[j] = Op(p, q, r, t, f[j - 1], b[j])
    BY <1>3
  <1> HIDE DEF f
  <1>6. AreSteps(p, q, r, t, base, b, n, f)
    BY <1>4, <1>5 DEF AreSteps
  <1> QED
    BY <1>6

\* What holds at first, and is kept by every step, holds at the end.
THEOREM FoldKeeps ==
  ASSUME NEW p, NEW q, NEW r, NEW t, NEW base, NEW b, NEW n \in Nat, DOMAIN b = 1..n,
         Good(p, q, r, t, 0, base),
         \A j \in 0..n - 1 : \A s : Good(p, q, r, t, j, s)
            => Good(p, q, r, t, j + 1, Op(p, q, r, t, s, b[j + 1]))
  PROVE  Good(p, q, r, t, n, Folded(p, q, r, t, base, b))
  <1>0. PICK f : AreSteps(p, q, r, t, base, b, n, f)
    BY FoldSteps
  <1>1. /\ f[0] = base /\ Folded(p, q, r, t, base, b) = f[n]
        /\ \A j \in 1..n : f[j] = Op(p, q, r, t, f[j - 1], b[j])
    BY <1>0 DEF AreSteps
  <1> DEFINE P == {j \in Nat : j <= n => Good(p, q, r, t, j, f[j])}
  <1>2. 0 \in P
    BY <1>1
  <1>3. ASSUME NEW j \in Nat, j \in P PROVE j + 1 \in P
    <2>1. ASSUME j + 1 <= n PROVE Good(p, q, r, t, j + 1, f[j + 1])
      <3>1. j \in 0..n - 1 /\ j + 1 \in 1..n /\ (j + 1) - 1 = j
        BY <2>1
      <3>2. Good(p, q, r, t, j, f[j])
        BY <1>3, <2>1
      <3>3. f[j + 1] = Op(p, q, r, t, f[j], b[j + 1])
        BY <1>1, <3>1
      <3> QED
        BY <3>1, <3>2, <3>3
    <2> QED
      BY <2>1
  <1> HIDE DEF P
  <1>4. n \in P
    BY <1>2, <1>3, NatInductionOnSet
  <1> QED
    BY <1>1, <1>4 DEF P

\* One more element is one more step.
THEOREM FoldAppend ==
  ASSUME NEW p, NEW q, NEW r, NEW t, NEW base, NEW b, NEW n \in Nat,
         DOMAIN b = 1..n, NEW c, DOMAIN c = 1..n + 1, \A j \in 1..n : c[j] = b[j]
  PROVE  Folded(p, q, r, t, base, c) = Op(p, q, r, t, Folded(p, q, r, t, base, b), c[n + 1])
  <1>1. n + 1 \in Nat
    OBVIOUS
  <1>2. PICK f : AreSteps(p, q, r, t, base, b, n, f)
    BY FoldSteps
  <1>3. PICK g : AreSteps(p, q, r, t, base, c, n + 1, g)
    BY <1>1, FoldSteps
  <1>4. /\ f[0] = base /\ Folded(p, q, r, t, base, b) = f[n]
        /\ \A j \in 1..n : f[j] = Op(p, q, r, t, f[j - 1], b[j])
    BY <1>2 DEF AreSteps
  <1>5. /\ g[0] = base /\ Folded(p, q, r, t, base, c) = g[n + 1]
        /\ \A j \in 1..n + 1 : g[j] = Op(p, q, r, t, g[j - 1], c[j])
    BY <1>3 DEF AreSteps
  <1> DEFINE P == {j \in Nat : j <= n => f[j] = g[j]}
  <1>6. 0 \in P
    BY <1>4, <1>5
  <1>7. ASSUME NEW j \in Nat, j \in P PROVE j + 1 \in P
    <2>1. ASSUME j + 1 <= n PROVE f[j + 1] = g[j + 1]
      <3>1. j + 1 \in 1..n /\ j + 1 \in 1..n + 1 /\ (j + 1) - 1 = j
        BY <2>1
      <3>2. f[j] = g[j]
        BY <1>7, <2>1
      <3>3. f[j + 1] = Op(p, q, r, t, f[j], b[j + 1]) /\ g[j + 1] = Op(p, q, r, t, g[j], c[j + 1])
        BY <3>1, <1>4, <1>5
      <3> QED
        BY <3>1, <3>2, <3>3
    <2> QED
      BY <2>1
  <1> HIDE DEF P
  <1>8. f[n] = g[n]
    <2>1. Nat \subseteq P
      BY <1>6, <1>7, NatInductionOnSet
    <2>2. n \in P
      BY <2>1
    <2> QED
      BY <2>2 DEF P
  <1>9. n + 1 \in 1..n + 1 /\ (n + 1) - 1 = n
    OBVIOUS
  <1> QED
    BY <1>8, <1>9, <1>4, <1>5

\* Without an element there is no step.
THEOREM FoldEmpty ==
  ASSUME NEW p, NEW q, NEW r, NEW t, NEW base, NEW b, DOMAIN b = {}
  PROVE  Folded(p, q, r, t, base, b) = base
  <1>1. DOMAIN b = 1..0 /\ 0 \in Nat
    OBVIOUS
  <1> QED
    BY <1>1, FoldSteps DEF AreSteps
=============================================================================
