----------------------------- MODULE Induction -----------------------------
(***************************************************************************)
(* Induction without operator parameters, for proofs about the loops that  *)
(* the modules write as folds.  An inductive argument is made about the    *)
(* set of the numbers for which something holds.                           *)
(***************************************************************************)
EXTENDS Integers, Sequences, SequencesExt, FiniteSetTheorems, TLAPS

(* Every set of numbers that is not empty has a least element.             *)
LEMMA LeastNumber ==
    ASSUME NEW N \in SUBSET Nat, N # {}
    PROVE  \E n \in N : \A m \in N : n =< m
<1> DEFINE R == StrictSubsetOrdering(Nat)
           T == {1 .. n : n \in N}
<1>1. IsWellFoundedOn(R, FiniteSubsetsOf(Nat))
  BY FS_StrictSubsetOrderingWellFounded
<1>2. T \subseteq FiniteSubsetsOf(Nat)
  BY FS_Interval DEF FiniteSubsetsOf
<1>9. T # {}
  OBVIOUS
<1>3. PICK x \in T : \A y \in T : ~ (<<y, x>> \in R)
  <2>. HIDE DEF T, R
  <2>. QED
    BY <1>1, <1>2, <1>9, WFMin
<1>4. PICK n \in N : x = 1 .. n
  OBVIOUS
<1>5. ASSUME NEW m \in N, m < n PROVE FALSE
  <2>0. ~ (<<1 .. m, x>> \in R)
    BY <1>3
  <2>1. ~ (1 .. m \subseteq 1 .. n /\ 1 .. m # 1 .. n)
    BY <2>0, <1>4 DEF StrictSubsetOrdering
  <2>2. 1 .. m \subseteq 1 .. n /\ n \in 1 .. n /\ n \notin 1 .. m
    BY <1>5
  <2>. QED
    BY <2>1, <2>2
<1>. QED
  BY <1>5

(* Induction: a set of numbers that has 0 and all successors has them all. *)
LEMMA SetInduction ==
    ASSUME NEW N \in SUBSET Nat, 0 \in N, \A n \in N : n + 1 \in N
    PROVE  N = Nat
<1>1. ASSUME Nat \ N # {} PROVE FALSE
  <2>1. PICK n \in Nat \ N : \A m \in Nat \ N : n =< m
    BY <1>1, LeastNumber
  <2>2. n - 1 \in Nat
    BY <2>1
  <2>3. n - 1 \in N
    BY <2>1, <2>2
  <2>. QED
    BY <2>1, <2>3
<1>. QED
  BY <1>1

(* Every bounded set of numbers that is not empty has a greatest element.  *)
LEMMA GreatestNumber ==
    ASSUME NEW N \in SUBSET Nat, N # {}, NEW b \in Nat, \A n \in N : n =< b
    PROVE  Max(N) \in N /\ \A n \in N : n =< Max(N)
<1> DEFINE D == {b - n : n \in N}
<1>0. \A n \in N : n \in Nat /\ b - n \in Nat
  OBVIOUS
<1>1. D \in SUBSET Nat /\ D # {}
  BY <1>0
<1>2. PICK d \in D : \A e \in D : d =< e
  <2>. HIDE DEF D
  <2>. QED
    BY <1>1, LeastNumber
<1>3. PICK m \in N : d = b - m
  OBVIOUS
<1>4. \A n \in N : m >= n
  BY <1>0, <1>2, <1>3
<1>5. \E x \in N : \A n \in N : x >= n
  BY <1>4
<1>. QED
  BY <1>5 DEF Max

-----------------------------------------------------------------------------
(* The greatest element, where there is one                                *)
LEMMA GreatestOf ==
    ASSUME NEW N \in SUBSET Nat, NEW m \in N, \A n \in N : m >= n
    PROVE  Max(N) = m
<1>1. \A x \in N : (\A n \in N : x >= n) => x = m
  OBVIOUS
<1>. QED
  BY <1>1 DEF Max

(* The last position of a prefix, and the prefix before it                 *)
LEMMA LastOfPrefix ==
    ASSUME NEW k \in Nat \ {0}
    PROVE  Max(1 .. k) = k /\ (1 .. k) \ {Max(1 .. k)} = 1 .. (k - 1)
<1>1. Max(1 .. k) = k
  BY GreatestOf
<1>. QED
  BY <1>1

(***************************************************************************)
(* FoldLeft over a sequence of length len is the value at 1 .. len of a    *)
(* function on the sets of its positions.  Here g[<<x, k>>] is what step k *)
(* makes of x, and St the set of the values that occur.                    *)
(***************************************************************************)
IsFold(h, St, base, len, g) ==
    /\ h \in [SUBSET (1 .. len) -> St]
    /\ \A s \in SUBSET (1 .. len) :
         h[s] = IF s = {} THEN base ELSE g[<<h[s \ {Max(s)}], Max(s)>>]

(* What a function satisfies that takes these steps on values of St        *)
FoldsOn(h, St, base, len, g) ==
    /\ h[{}] = base
    /\ \A c \in SUBSET (1 .. len) :
         c # {} /\ h[c \ {Max(c)}] \in St => h[c] = g[<<h[c \ {Max(c)}], Max(c)>>]

(* The same, read at the prefixes: the values after 0, 1, ... len steps,   *)
(* each made from the one before.                                          *)
IsRun(acc, St, base, len, g, last) ==
    /\ acc \in [0 .. len -> St]
    /\ acc[0] = base
    /\ acc[len] = last
    /\ \A k \in 1 .. len : acc[k] = g[<<acc[k - 1], k>>]

(* There is such a function when every step leads from St to St.           *)
LEMMA FoldExists ==
    ASSUME NEW St, NEW base \in St, NEW len \in Nat, NEW g \in [St \X (1 .. len) -> St]
    PROVE  \E h : IsFold(h, St, base, len, g)
<1> DEFINE Folds(n, h) == IsFold(h, St, base, n, g)
           N == {n \in Nat : n =< len => \E h : Folds(n, h)}
<1>1. 0 \in N
  <2> DEFINE h == [s \in SUBSET (1 .. 0) |-> base]
  <2>1. \A s \in SUBSET (1 .. 0) : s = {}
    OBVIOUS
  <2>2. Folds(0, h)
    BY <2>1 DEF IsFold
  <2>. QED
    BY <2>2
<1>. HIDE DEF N, Folds
<1>2. ASSUME NEW n \in N PROVE n + 1 \in N
  <2>3. n \in Nat /\ (n =< len => \E h : Folds(n, h))
    BY <1>2 DEF N
  <2>1. SUFFICES ASSUME n + 1 =< len PROVE \E h : Folds(n + 1, h)
    BY <2>3 DEF N
  <2>4. PICK h : Folds(n, h)
    BY <2>1, <2>3
  <2>2. /\ h \in [SUBSET (1 .. n) -> St]
        /\ \A s \in SUBSET (1 .. n) :
             h[s] = IF s = {} THEN base ELSE g[<<h[s \ {Max(s)}], Max(s)>>]
    BY <2>4 DEF Folds, IsFold
  <2> DEFINE new == [s \in SUBSET (1 .. n + 1) |->
                       IF n + 1 \in s THEN g[<<h[s \ {n + 1}], n + 1>>] ELSE h[s]]
  <2>10. \A s \in SUBSET (1 .. n + 1) : s \ {n + 1} \in SUBSET (1 .. n)
    BY <2>3
  <2>5. \A s \in SUBSET (1 .. n + 1) : n + 1 \notin s => s \in SUBSET (1 .. n)
    BY <2>3
  <2>6. n + 1 \in 1 .. len
    BY <2>1, <2>3
  <2>7. new \in [SUBSET (1 .. n + 1) -> St]
    BY <2>2, <2>10, <2>5, <2>6
  <2>8. ASSUME NEW s \in SUBSET (1 .. n + 1)
        PROVE  new[s] = IF s = {} THEN base ELSE g[<<new[s \ {Max(s)}], Max(s)>>]
    <3>1. CASE n + 1 \in s
      <4>0. \A y \in s : n + 1 >= y /\ y \in Nat
        BY <2>3
      <4>1. Max(s) = n + 1
        BY <2>3, <3>1, <4>0, GreatestOf
      <4>2. s \ {n + 1} \in SUBSET (1 .. n + 1) /\ n + 1 \notin s \ {n + 1}
        OBVIOUS
      <4>3. new[s \ {n + 1}] = h[s \ {n + 1}]
        BY <4>2
      <4>. QED
        BY <3>1, <4>1, <4>3
    <3>2. CASE n + 1 \notin s
      <4>1. s \in SUBSET (1 .. n) /\ new[s] = h[s]
        BY <2>5, <3>2
      <4>2. s \ {Max(s)} \in SUBSET (1 .. n + 1) /\ n + 1 \notin s \ {Max(s)}
        BY <3>2
      <4>3. new[s \ {Max(s)}] = h[s \ {Max(s)}]
        BY <4>2
      <4>4. h[s] = IF s = {} THEN base ELSE g[<<h[s \ {Max(s)}], Max(s)>>]
        BY <2>2, <4>1
      <4>. QED
        BY <4>1, <4>3, <4>4
    <3>. QED
      BY <3>1, <3>2
  <2>. HIDE DEF new
  <2>9. Folds(n + 1, new)
    BY <2>7, <2>8 DEF Folds, IsFold
  <2>. QED
    BY <2>9
<1>3. len \in N
  <2>1. N \in SUBSET Nat
    BY DEF N
  <2>. QED
    BY <1>1, <1>2, <2>1, SetInduction
<1>4. \E h : Folds(len, h)
  BY <1>3 DEF N
<1>. QED
  BY <1>4 DEF Folds

(* The last position of any set of positions                               *)
LEMMA LastPosition ==
    ASSUME NEW len \in Nat, NEW c \in SUBSET (1 .. len), c # {}
    PROVE  Max(c) \in 1 .. len /\ c \ {Max(c)} \in SUBSET (1 .. len)
<1>1. c \in SUBSET Nat /\ \A n \in c : n =< len
  OBVIOUS
<1>2. Max(c) \in c
  BY <1>1, GreatestNumber
<1>. QED
  BY <1>2

(* The run that ends in the value of such a function.                      *)
LEMMA FoldPrefixes ==
    ASSUME NEW St, NEW base \in St, NEW len \in Nat, NEW g \in [St \X (1 .. len) -> St],
           NEW h, FoldsOn(h, St, base, len, g)
    PROVE  \E acc : IsRun(acc, St, base, len, g, h[1 .. len])
<1> DEFINE acc == [k \in 0 .. len |-> h[1 .. k]]
           N == {k \in Nat : k =< len => acc[k] \in St}
<1>1. acc[0] = base
  <2>1. 1 .. 0 = {}
    OBVIOUS
  <2>. QED
    BY <2>1 DEF FoldsOn
<1>2. ASSUME NEW k \in 1 .. len, acc[k - 1] \in St
      PROVE  acc[k] = g[<<acc[k - 1], k>>]
  <2>1. k \in Nat \ {0} /\ k - 1 \in 0 .. len /\ k \in 0 .. len
    OBVIOUS
  <2>2. 1 .. k \in SUBSET (1 .. len) /\ 1 .. k # {}
    BY <2>1
  <2>3. Max(1 .. k) = k /\ (1 .. k) \ {Max(1 .. k)} = 1 .. (k - 1)
    BY <2>1, LastOfPrefix
  <2>4. acc[k] = h[1 .. k] /\ acc[k - 1] = h[1 .. (k - 1)]
    BY <2>1
  <2>. QED
    BY <1>2, <2>2, <2>3, <2>4 DEF FoldsOn
<1>. HIDE DEF acc
<1>3. 0 \in N
  BY <1>1
<1>4. ASSUME NEW k \in N PROVE k + 1 \in N
  <2>1. CASE k + 1 =< len
    <3>1. k + 1 \in 1 .. len /\ acc[(k + 1) - 1] \in St
      BY <2>1
    <3>2. acc[k + 1] = g[<<acc[(k + 1) - 1], k + 1>>]
      BY <1>2, <3>1
    <3>3. acc[k + 1] \in St
      BY <3>1, <3>2
    <3>. QED
      BY <3>3
  <2>. QED
    BY <2>1
<1>5. N = Nat
  <2>1. N \in SUBSET Nat
    OBVIOUS
  <2>. HIDE DEF N
  <2>. QED
    BY <1>3, <1>4, <2>1, SetInduction
<1>6. \A k \in 0 .. len : acc[k] \in St
  BY <1>5
<1>7. acc \in [0 .. len -> St]
  BY <1>6 DEF acc
<1>8. \A k \in 1 .. len : acc[k] = g[<<acc[k - 1], k>>]
  BY <1>2, <1>6
<1>9. acc[len] = h[1 .. len]
  BY DEF acc
<1>. QED
  BY <1>1, <1>7, <1>8, <1>9 DEF IsRun
=============================================================================
