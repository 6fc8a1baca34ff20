---------------------------- MODULE FoldTheorems ----------------------------
(***************************************************************************)
(* Induction over finite sets and the values of folds, without operators   *)
(* as parameters: a property is the set of what has it, a fold's operation *)
(* a function.  A fold of the community modules is a recursive function on *)
(* the subsets of a domain; IsFold says that a function is one, and IsSum  *)
(* what it computes when the operation is a sum.                           *)
(***************************************************************************)
EXTENDS SequencesExt, FiniteSetTheorems, TLAPS

(* What holds of the empty set, and of a set whenever it holds of all       *)
(* smaller ones, holds of every subset of a finite set.                     *)
LEMMA SetInduction ==
  ASSUME NEW S, IsFiniteSet(S), NEW T \in SUBSET (SUBSET S),
         \A s \in SUBSET S : (\A r \in SUBSET s : r # s => r \in T) => s \in T
  PROVE  T = SUBSET S
<1> SUFFICES ASSUME T # SUBSET S PROVE FALSE
  OBVIOUS
<1>1. IsWellFoundedOn(StrictSubsetOrdering(S), SUBSET S)
  <2>1. IsWellFoundedOn(StrictSubsetOrdering(S), FiniteSubsetsOf(S))
    BY FS_StrictSubsetOrderingWellFounded
  <2>2. FiniteSubsetsOf(S) = SUBSET S
    BY FS_FiniteSubsetsOfFinite
  <2> QED BY <2>1, <2>2
<1> DEFINE U == (SUBSET S) \ T
<1>2. U # {} /\ U \subseteq SUBSET S
  OBVIOUS
<1>3. PICK x \in U : \A y \in U : ~(<<y, x>> \in StrictSubsetOrdering(S))
  <2> HIDE DEF U
  <2> QED BY <1>1, <1>2, WFMin
<1>4. \A r \in SUBSET x : r # x => r \in T
  BY <1>3 DEF StrictSubsetOrdering
<1> QED BY <1>3, <1>4

(* Induction on the numbers up to n.                                        *)
LEMMA CountInduction ==
  ASSUME NEW n \in Nat, NEW T, 0 \in T, \A i \in 1 .. n : i - 1 \in T => i \in T
  PROVE  \A i \in 0 .. n : i \in T
<1> SUFFICES ASSUME NEW k \in 0 .. n, k \notin T PROVE FALSE
  OBVIOUS
<1> DEFINE U == {i \in 0 .. n : i \notin T}
<1>1. U # {} /\ U \subseteq Nat
  OBVIOUS
<1>2. PICK x \in U : \A y \in U : ~(<<y, x>> \in OpToRel(<, Nat))
  BY ONLY <1>1, NatLessThanWellFounded, WFMin
<1>3. x # 0 /\ x \in 0 .. n
  OBVIOUS
<1>4. x - 1 \in Nat /\ x - 1 < x /\ x - 1 \in 0 .. n /\ x \in 1 .. n
  BY <1>3
<1>5. x - 1 \notin U
  BY <1>1, <1>2, <1>4 DEF OpToRel
<1> QED BY <1>2, <1>4, <1>5

-----------------------------------------------------------------------------
\* The equation of a fold: it takes elements out of a set until none is left.
IsFold(it, S, base, pick, step) ==
  \A s \in SUBSET S : it[s] = IF s = {} THEN base ELSE step[<<pick[s], it[s \ {pick[s]}]>>]

\* Folds on subsets of a finite set agree where both are defined.
LEMMA FoldsAgree ==
  ASSUME NEW S, IsFiniteSet(S), NEW base, NEW pick, NEW step,
         \A s \in SUBSET S : s # {} => pick[s] \in s,
         NEW A \in SUBSET S, NEW B \in SUBSET S, NEW g, NEW h,
         IsFold(g, A, base, pick, step), IsFold(h, B, base, pick, step)
  PROVE  \A s \in SUBSET (A \cap B) : g[s] = h[s]
<1> DEFINE C == A \cap B
           T == {s \in SUBSET C : g[s] = h[s]}
<1>1. IsFiniteSet(C) /\ C \subseteq S
  BY FS_Subset
<1>2. ASSUME NEW s \in SUBSET C, \A r \in SUBSET s : r # s => r \in T
      PROVE  s \in T
  <2>1. CASE s = {}
    BY <2>1 DEF IsFold
  <2>2. CASE s # {}
    <3>1. pick[s] \in s /\ s \ {pick[s]} \in SUBSET s /\ s \ {pick[s]} # s
      BY <1>1, <2>2
    <3>2. g[s \ {pick[s]}] = h[s \ {pick[s]}]
      BY <1>2, <3>1
    <3>3. s \in SUBSET A /\ s \in SUBSET B
      OBVIOUS
    <3>4. g[s] = step[<<pick[s], g[s \ {pick[s]}]>>] /\ h[s] = step[<<pick[s], h[s \ {pick[s]}]>>]
      BY <2>2, <3>3 DEF IsFold
    <3> QED BY <3>2, <3>4
  <2> QED BY <2>1, <2>2
<1>3. T \in SUBSET (SUBSET C)
  OBVIOUS
<1>4. T = SUBSET C
  <2> HIDE DEF C, T
  <2> QED BY <1>1, <1>2, <1>3, SetInduction
<1> QED BY <1>4

\* There is a fold, and it has the type of its operation.
LEMMA FoldExists ==
  ASSUME NEW S, IsFiniteSet(S), NEW V, NEW base \in V, NEW pick, NEW step,
         \A s \in SUBSET S : s # {} => pick[s] \in s,
         \A x \in S, v \in V : step[<<x, v>>] \in V
  PROVE  \E it \in [SUBSET S -> V] : IsFold(it, S, base, pick, step)
<1> DEFINE Folds(s) == {g \in [SUBSET s -> V] : IsFold(g, s, base, pick, step)}
           T == {s \in SUBSET S : Folds(s) # {}}
<1>1. ASSUME NEW s \in SUBSET S, \A r \in SUBSET s : r # s => r \in T
      PROVE  s \in T
  <2> DEFINE of[r \in SUBSET s] == CHOOSE g : g \in Folds(r)
             before == s \ {pick[s]}
             it == [r \in SUBSET s |-> IF r # s THEN of[r][r]
                                       ELSE IF s = {} THEN base ELSE step[<<pick[s], of[before][before]>>]]
  <2>1. \A r \in SUBSET s : r # s => of[r] \in Folds(r)
    BY <1>1
  <2>2. \A r \in SUBSET s : r # s => of[r][r] \in V
    BY <2>1
  <2>3. s # {} => pick[s] \in s /\ before \in SUBSET s /\ before # s
    OBVIOUS
  <2>4. s # {} => step[<<pick[s], of[before][before]>>] \in V
    <3> HIDE DEF of
    <3> QED BY <2>2, <2>3
  <2>5. it \in [SUBSET s -> V]
    <3> HIDE DEF of, before
    <3> QED BY <2>2, <2>4
  <2>6. ASSUME NEW r \in SUBSET s
        PROVE  it[r] = IF r = {} THEN base ELSE step[<<pick[r], it[r \ {pick[r]}]>>]
    <3>1. CASE r = s
      <4> HIDE DEF of
      <4> QED BY <2>3, <3>1
    <3>2. CASE r # s /\ r = {}
      <4>1. it[r] = of[r][r] /\ of[r] \in Folds(r)
        BY <2>1, <3>2
      <4> QED BY <3>2, <4>1 DEF IsFold
    <3>3. CASE r # s /\ r # {}
      <4> DEFINE q == r \ {pick[r]}
      <4>1. pick[r] \in r /\ q \in SUBSET r /\ q \in SUBSET s /\ q # s /\ r \in SUBSET S /\ q \in SUBSET S
        BY <3>3
      <4>2. of[r] \in Folds(r) /\ of[q] \in Folds(q)
        BY <2>1, <3>3, <4>1
      <4>3. of[r][r] = step[<<pick[r], of[r][q]>>]
        <5> HIDE DEF of
        <5> QED BY <3>3, <4>2 DEF IsFold
      <4>4. IsFold(of[r], r, base, pick, step) /\ IsFold(of[q], q, base, pick, step)
        BY <4>2
      <4>5. of[r][q] = of[q][q]
        <5> HIDE DEF of, q
        <5>1. \A z \in SUBSET (r \cap q) : of[r][z] = of[q][z]
          BY <4>1, <4>4, FoldsAgree
        <5> QED BY <5>1, <4>1
      <4>6. it[r] = of[r][r] /\ it[q] = of[q][q]
        <5> HIDE DEF of
        <5> QED BY <3>3, <4>1
      <4> HIDE DEF it, of
      <4> QED BY <3>3, <4>3, <4>5, <4>6
    <3> QED BY <3>1, <3>2, <3>3
  <2>7. IsFold(it, s, base, pick, step)
    <3> HIDE DEF it
    <3> QED BY <2>6 DEF IsFold
  <2> HIDE DEF it
  <2> QED BY <2>5, <2>7
<1>2. T \in SUBSET (SUBSET S)
  OBVIOUS
<1>3. T = SUBSET S
  <2> HIDE DEF T
  <2> QED BY <1>1, <1>2, SetInduction
<1> QED BY <1>3

-----------------------------------------------------------------------------
\* The sums of a function over the subsets of a set, in any order.
IsSum(F, f, S) ==
  /\ F \in [SUBSET S -> Int]
  /\ F[{}] = 0
  /\ \A s \in SUBSET S : \A x \in s : F[s] = F[s \ {x}] + f[x]

\* A fold that adds what it takes out is the sum, whatever it takes first.
LEMMA FoldIsSum ==
  ASSUME NEW S, IsFiniteSet(S), NEW f, \A x \in S : f[x] \in Int,
         NEW pick, \A s \in SUBSET S : s # {} => pick[s] \in s,
         NEW F \in [SUBSET S -> Int], F[{}] = 0,
         \A s \in SUBSET S : s # {} => F[s] = F[s \ {pick[s]}] + f[pick[s]]
  PROVE  IsSum(F, f, S)
<1> DEFINE Adds(s) == \A x \in s : F[s] = F[s \ {x}] + f[x]
           T == {s \in SUBSET S : Adds(s)}
<1>1. ASSUME NEW s \in SUBSET S, \A r \in SUBSET s : r # s => r \in T
      PROVE  s \in T
  <2> SUFFICES ASSUME NEW x \in s PROVE F[s] = F[s \ {x}] + f[x]
    OBVIOUS
  <2> DEFINE y == pick[s]
  <2>1. y \in s /\ F[s] = F[s \ {y}] + f[y]
    OBVIOUS
  <2>2. CASE x = y
    BY <2>1, <2>2
  <2>3. CASE x # y
    <3> HIDE DEF y, T
    <3> DEFINE r == s \ {x}
               q == s \ {y}
               both == s \ {x, y}
    <3>1. r \in T /\ q \in T /\ r \in SUBSET S /\ q \in SUBSET S /\ both \in SUBSET S
      BY <1>1, <2>1
    <3>2. y \in r /\ x \in q /\ r \ {y} = both /\ q \ {x} = both
      BY <2>1, <2>3
    <3>3. F[r] = F[both] + f[y] /\ F[q] = F[both] + f[x]
      <4> HIDE DEF r, q, both
      <4> QED BY <3>1, <3>2 DEF T
    <3>4. F[r] \in Int /\ F[q] \in Int /\ F[both] \in Int /\ f[x] \in Int /\ f[y] \in Int
      BY <3>1, <2>1
    <3> HIDE DEF r, q, both
    <3>5. F[s] = F[q] + f[y]
      BY <2>1 DEF q
    <3>6. F[s] = F[r] + f[x]
      BY <3>3, <3>4, <3>5
    <3> QED BY <3>6 DEF r
  <2> QED BY <2>2, <2>3
<1>2. T \in SUBSET (SUBSET S)
  OBVIOUS
<1>3. T = SUBSET S
  <2> HIDE DEF T
  <2> QED BY <1>1, <1>2, SetInduction
<1> QED BY <1>3 DEF IsSum

\* There are sums, and one only.
LEMMA SumExists ==
  ASSUME NEW S, IsFiniteSet(S), NEW f, \A x \in S : f[x] \in Int
  PROVE  \E F : IsSum(F, f, S)
<1> DEFINE pick == [s \in SUBSET S |-> CHOOSE x : x \in s]
           step == [xv \in S \X Int |-> xv[2] + f[xv[1]]]
<1>1. \A s \in SUBSET S : s # {} => pick[s] \in s
  OBVIOUS
<1>2. \A x \in S, v \in Int : step[<<x, v>>] = v + f[x]
  OBVIOUS
<1> HIDE DEF pick, step
<1>3. ASSUME NEW x \in S, NEW v \in Int PROVE step[<<x, v>>] \in Int
  <2>1. step[<<x, v>>] = v + f[x] /\ f[x] \in Int
    BY <1>2
  <2> QED BY <2>1
<1>4. PICK F \in [SUBSET S -> Int] : IsFold(F, S, 0, pick, step)
  <2> DEFINE V == Int
             base == 0
  <2>1. base \in V /\ \A x \in S, v \in V : step[<<x, v>>] \in V
    BY <1>3
  <2> HIDE DEF V, base
  <2>2. \E F \in [SUBSET S -> V] : IsFold(F, S, base, pick, step)
    BY <1>1, <2>1, FoldExists
  <2> QED BY <2>2 DEF V, base
<1>5. F[{}] = 0
  BY <1>4 DEF IsFold
<1>6. ASSUME NEW s \in SUBSET S, s # {} PROVE F[s] = F[s \ {pick[s]}] + f[pick[s]]
  <2>1. F[s] = step[<<pick[s], F[s \ {pick[s]}]>>]
    BY <1>4, <1>6 DEF IsFold
  <2>2. pick[s] \in S /\ F[s \ {pick[s]}] \in Int
    BY <1>1, <1>6
  <2> QED BY <1>2, <2>1, <2>2
<1>7. IsSum(F, f, S)
  BY <1>1, <1>4, <1>5, <1>6, FoldIsSum
<1> QED BY <1>7

\* Two sums agree on a set if what they add agrees there.
LEMMA SumsAgree ==
  ASSUME NEW S, IsFiniteSet(S), NEW R, NEW f, NEW g, NEW F, NEW G,
         IsSum(F, f, S), IsSum(G, g, R),
         NEW A \in SUBSET (S \cap R), \A x \in A : f[x] = g[x]
  PROVE  F[A] = G[A]
<1> DEFINE T == {s \in SUBSET A : F[s] = G[s]}
<1>1. IsFiniteSet(A)
  BY FS_Subset
<1>2. ASSUME NEW s \in SUBSET A, \A r \in SUBSET s : r # s => r \in T
      PROVE  s \in T
  <2>1. CASE s = {}
    BY <2>1 DEF IsSum
  <2>2. CASE s # {}
    <3>1. PICK x : x \in s
      BY <2>2
    <3>2. F[s \ {x}] = G[s \ {x}]
      BY <1>2, <3>1
    <3>3. s \in SUBSET S /\ s \in SUBSET R /\ f[x] = g[x]
      BY <3>1
    <3>4. F[s] = F[s \ {x}] + f[x] /\ G[s] = G[s \ {x}] + g[x]
      BY <3>1, <3>3 DEF IsSum
    <3> QED BY <3>2, <3>3, <3>4
  <2> QED BY <2>1, <2>2
<1>3. T \in SUBSET (SUBSET A)
  OBVIOUS
<1>4. T = SUBSET A
  <2> HIDE DEF T
  <2> QED BY <1>1, <1>2, <1>3, SetInduction
<1> QED BY <1>4

-----------------------------------------------------------------------------
(* The folds of the community modules.                                     *)

IsFunctionOn(F, S) == F = [s \in S |-> F[s]]
Picks(pick, S) == \A s \in SUBSET S : s # {} => pick[s] \in s
Alike(F, G, pick, S) ==
  /\ F[{}] = G[{}]
  /\ \A s \in SUBSET S : s # {} /\ F[s \ {pick[s]}] = G[s \ {pick[s]}] => F[s] = G[s]

\* Two functions of the subsets that begin alike, and go on alike from what
\* is left when an element is taken out, are the same.
LEMMA RecursionAgrees ==
  ASSUME NEW D, IsFiniteSet(D),
         NEW pick, Picks(pick, D),
         NEW it, IsFunctionOn(it, SUBSET D), NEW F, IsFunctionOn(F, SUBSET D),
         Alike(it, F, pick, D)
  PROVE  it = F
<1> DEFINE T == {s \in SUBSET D : it[s] = F[s]}
<1>1. ASSUME NEW s \in SUBSET D, \A r \in SUBSET s : r # s => r \in T
      PROVE  s \in T
  <2>1. s # {} => pick[s] \in s /\ s \ {pick[s]} \in SUBSET s /\ s \ {pick[s]} # s
    BY DEF Picks
  <2>2. s # {} => it[s \ {pick[s]}] = F[s \ {pick[s]}]
    BY <1>1, <2>1
  <2> QED BY <2>2 DEF Alike
<1>2. T \in SUBSET (SUBSET D)
  OBVIOUS
<1>3. T = SUBSET D
  <2> HIDE DEF T
  <2> QED BY <1>1, <1>2, SetInduction
<1>4. \A s \in SUBSET D : it[s] = F[s]
  BY <1>3
<1> QED BY <1>4 DEF IsFunctionOn

\* The sum of the values of a function.
SumOf(f) == FoldFunction(+, 0, f)

LEMMA SumOfIs ==
  ASSUME NEW D, IsFiniteSet(D), NEW f \in [D -> Int], NEW F, IsSum(F, f, D)
  PROVE  SumOf(f) = F[D]
<1> DEFINE any(s) == CHOOSE x \in s : TRUE
           pick == [s \in SUBSET D |-> any(s)]
           Recursion(it) == it = [s \in SUBSET D |-> IF s = {} THEN 0 ELSE f[any(s)] + it[s \ {any(s)}]]
<1>1. SumOf(f) = (CHOOSE it : Recursion(it))[D]
  BY DEF SumOf, FoldFunction, FoldFunctionOnSet, MapThenFoldSet
<1>2. \A s \in SUBSET D : pick[s] = any(s) /\ (s # {} => any(s) \in s)
  OBVIOUS
<1> HIDE DEF any
<1>3. IsFunctionOn(F, SUBSET D)
  BY DEF IsSum, IsFunctionOn
<1>4. ASSUME NEW s \in SUBSET D, s # {}
      PROVE  F[s] = f[any(s)] + F[s \ {any(s)}]
  <2>1. any(s) \in s /\ any(s) \in D /\ F[s] = F[s \ {any(s)}] + f[any(s)]
    BY <1>2, <1>4 DEF IsSum
  <2>2. F[s \ {any(s)}] \in Int /\ f[any(s)] \in Int
    BY <2>1 DEF IsSum
  <2> QED BY <2>1, <2>2
<1>5. Recursion(F)
  BY <1>3, <1>4 DEF IsSum, IsFunctionOn
<1>6. ASSUME NEW it, Recursion(it) PROVE it = F
  <2>1. IsFunctionOn(it, SUBSET D) /\ it[{}] = F[{}]
    BY <1>6 DEF IsSum, IsFunctionOn
  <2>2. \A s \in SUBSET D : s # {} => it[s] = f[pick[s]] + it[s \ {pick[s]}]
    BY <1>2, <1>6
  <2>3. \A s \in SUBSET D : s # {} => F[s] = f[pick[s]] + F[s \ {pick[s]}]
    BY <1>2, <1>4
  <2>4. Picks(pick, D)
    BY <1>2 DEF Picks
  <2> HIDE DEF pick
  <2>5. Alike(it, F, pick, D)
    BY <2>1, <2>2, <2>3 DEF Alike
  <2> QED BY <1>3, <2>1, <2>4, <2>5, RecursionAgrees
<1> HIDE DEF Recursion
<1> QED BY <1>1, <1>5, <1>6

\* A set of numbers of a list has a greatest, and Max is it.
LEMMA MaxIs ==
  ASSUME NEW n \in Nat, NEW r \in SUBSET (1 .. n), r # {}
  PROVE  Max(r) \in r /\ \A y \in r : y <= Max(r)
<1> DEFINE Has(s) == \E x \in s : \A y \in s : x >= y
           T == {s \in SUBSET (1 .. n) : s = {} \/ Has(s)}
<1>1. ASSUME NEW s \in SUBSET (1 .. n), \A q \in SUBSET s : q # s => q \in T
      PROVE  s \in T
  <2>1. CASE s = {}
    BY <2>1
  <2>2. CASE s # {}
    <3>1. PICK x : x \in s
      BY <2>2
    <3>2. CASE s \ {x} = {}
      BY <3>1, <3>2
    <3>3. CASE s \ {x} # {}
      <4>1. s \ {x} \in T
        BY <1>1, <3>1
      <4>2. PICK z \in s \ {x} : \A y \in s \ {x} : z >= y
        BY <3>3, <4>1
      <4>3. x \in Int /\ \A y \in s : y \in Int
        BY <3>1
      <4>4. CASE z >= x
        BY <4>2, <4>4
      <4>5. CASE x >= z
        <5>1. \A y \in s : x >= y
          BY <4>2, <4>3, <4>5
        <5> QED BY <3>1, <5>1
      <4> QED BY <4>2, <4>3, <4>4, <4>5
    <3> QED BY <3>2, <3>3
  <2> QED BY <2>1, <2>2
<1>2. IsFiniteSet(1 .. n) /\ T \in SUBSET (SUBSET (1 .. n))
  BY FS_Interval
<1>3. T = SUBSET (1 .. n)
  <2> HIDE DEF T
  <2> QED BY <1>1, <1>2, SetInduction
<1>4. Has(r)
  BY <1>3
<1>5. Max(r) \in r /\ \A y \in r : Max(r) >= y
  BY <1>4 DEF Max
<1> QED BY <1>5

\* The sum of a list.
LEMMA FoldLeftIs ==
  ASSUME NEW n \in Nat, NEW f \in [1 .. n -> Int], NEW F, IsSum(F, f, 1 .. n)
  PROVE  FoldLeft(LAMBDA a, b : a + b, 0, f) = F[1 .. n]
<1> DEFINE D == 1 .. n
           pick == [s \in SUBSET D |-> Max(s)]
           Recursion(it) == it = [s \in SUBSET D |-> IF s = {} THEN 0 ELSE it[s \ {Max(s)}] + f[Max(s)]]
<1>1. FoldLeft(LAMBDA a, b : a + b, 0, f) = (CHOOSE it : Recursion(it))[D]
  BY DEF FoldLeft, MapThenFoldSet
<1>2. \A s \in SUBSET D : pick[s] = Max(s) /\ (s # {} => Max(s) \in s)
  BY MaxIs
<1>3. IsFunctionOn(F, SUBSET D)
  BY DEF IsSum, IsFunctionOn
<1>4. \A s \in SUBSET D : s # {} => F[s] = F[s \ {Max(s)}] + f[Max(s)]
  BY <1>2 DEF IsSum
<1>5. Recursion(F)
  BY <1>3, <1>4 DEF IsSum, IsFunctionOn
<1>6. ASSUME NEW it, Recursion(it) PROVE it = F
  <2>1. IsFunctionOn(it, SUBSET D) /\ it[{}] = F[{}]
    BY <1>6 DEF IsSum, IsFunctionOn
  <2>2. \A s \in SUBSET D : s # {} => it[s] = it[s \ {pick[s]}] + f[pick[s]]
    BY <1>2, <1>6
  <2>3. \A s \in SUBSET D : s # {} => F[s] = F[s \ {pick[s]}] + f[pick[s]]
    BY <1>2, <1>4
  <2>4. Picks(pick, D)
    BY <1>2 DEF Picks
  <2>5. IsFiniteSet(D)
    BY FS_Interval
  <2> HIDE DEF pick, D
  <2>6. Alike(it, F, pick, D)
    BY <2>1, <2>2, <2>3 DEF Alike
  <2> QED BY <1>3, <2>1, <2>4, <2>5, <2>6, RecursionAgrees
<1> HIDE DEF Recursion
<1> QED BY <1>1, <1>5, <1>6

Total(s) == FoldLeft(LAMBDA a, b : a + b, 0, s)

LEMMA TotalIs ==
  ASSUME NEW s \in Seq(Int), NEW F, IsSum(F, s, 1 .. Len(s))
  PROVE  Total(s) = F[1 .. Len(s)]
<1>1. Len(s) \in Nat /\ s \in [1 .. Len(s) -> Int]
  OBVIOUS
<1>2. FoldLeft(LAMBDA a, b : a + b, 0, s) = F[1 .. Len(s)]
  BY <1>1, FoldLeftIs
<1> QED BY <1>2 DEF Total

LEMMA TotalExists ==
  ASSUME NEW s \in Seq(Int)
  PROVE  \E F : IsSum(F, s, 1 .. Len(s)) /\ Total(s) = F[1 .. Len(s)] /\ Total(s) \in Int
<1> DEFINE D == 1 .. Len(s)
<1>1. IsFiniteSet(D)
  BY FS_Interval
<1>2. \A i \in D : s[i] \in Int
  OBVIOUS
<1> HIDE DEF D
<1>3. PICK F : IsSum(F, s, D)
  BY <1>1, <1>2, SumExists
<1>4. Total(s) = F[D]
  BY <1>3, TotalIs DEF D
<1>5. F[D] \in Int
  BY <1>3 DEF IsSum
<1> QED BY <1>3, <1>4, <1>5 DEF D

\* The total of a list with one number more.
LEMMA TotalAppend ==
  ASSUME NEW s \in Seq(Int), NEW x \in Int
  PROVE  Total(Append(s, x)) = Total(s) + x
<1> DEFINE t == Append(s, x)
           D == 1 .. Len(s)
           E == 1 .. Len(t)
           n == Len(t)
<1>1. t \in Seq(Int) /\ n \in E /\ t[n] = x /\ E \ {n} = D /\ \A i \in D : s[i] = t[i]
  OBVIOUS
<1>2. IsFiniteSet(D)
  BY FS_Interval
<1> HIDE DEF t, n, D, E
<1>3. PICK F : IsSum(F, s, D) /\ Total(s) = F[D]
  BY TotalExists DEF D
<1>4. PICK G : IsSum(G, t, E) /\ Total(t) = G[E]
  BY <1>1, TotalExists DEF E
<1>5. D \in SUBSET (D \cap E)
  BY <1>1
<1>6. F[D] = G[D]
  BY <1>1, <1>2, <1>3, <1>4, <1>5, SumsAgree
<1>7. G[E] = G[E \ {n}] + t[n]
  BY <1>1, <1>4 DEF IsSum
<1> QED BY <1>1, <1>3, <1>4, <1>6, <1>7 DEF t

LEMMA TotalEmpty == Total(<<>>) = 0
<1> DEFINE s == <<>>
<1>1. s \in Seq(Int) /\ 1 .. Len(s) = {}
  OBVIOUS
<1> HIDE DEF s
<1>2. PICK F : IsSum(F, s, 1 .. Len(s)) /\ Total(s) = F[1 .. Len(s)]
  BY <1>1, TotalExists
<1> QED BY <1>1, <1>2 DEF IsSum, s

\* The total of a list does not depend on its order.
LEMMA TotalRearranged ==
  ASSUME NEW s \in Seq(Int), NEW f \in Bijection(DOMAIN s, DOMAIN s)
  PROVE  /\ [i \in DOMAIN s |-> s[f[i]]] \in Seq(Int)
         /\ Total([i \in DOMAIN s |-> s[f[i]]]) = Total(s)
<1> DEFINE D == 1 .. Len(s)
           t == [i \in DOMAIN s |-> s[f[i]]]
           image(r) == {f[i] : i \in r}
<1>1. /\ f \in [D -> D]
      /\ \A i, j \in D : f[i] = f[j] => i = j
      /\ \A i \in D : \E j \in D : f[j] = i
  <2>1. DOMAIN s = D
    OBVIOUS
  <2> HIDE DEF D
  <2>2. f \in Injection(D, D) /\ f \in Surjection(D, D)
    BY <2>1 DEF Bijection
  <2>3. f \in [D -> D] /\ IsInjective(f)
    BY <2>2 DEF Injection
  <2>4. \A i \in D : \E j \in D : f[j] = i
    BY <2>2 DEF Surjection
  <2> QED BY <2>3, <2>4 DEF IsInjective
<1>2. t \in Seq(Int) /\ Len(t) = Len(s) /\ \A i \in D : t[i] = s[f[i]]
  <2>1. \A i \in D : f[i] \in D /\ s[f[i]] \in Int
    <3>1. \A j \in D : s[j] \in Int
      OBVIOUS
    <3> HIDE DEF D
    <3> QED BY <1>1, <3>1
  <2>2. t \in [1 .. Len(s) -> Int] /\ \A i \in D : t[i] = s[f[i]]
    BY <2>1
  <2>3. Len(s) \in Nat
    OBVIOUS
  <2> HIDE DEF t
  <2> QED BY <2>2, <2>3
<1>3. IsFiniteSet(D)
  BY FS_Interval
<1> HIDE DEF t, D
<1>4. PICK F : IsSum(F, s, D) /\ Total(s) = F[D]
  BY TotalExists DEF D
<1>5. PICK G : IsSum(G, t, D) /\ Total(t) = G[D]
  BY <1>2, TotalExists DEF D
<1> DEFINE H == [r \in SUBSET D |-> F[image(r)]]
<1>6. \A r \in SUBSET D : image(r) \in SUBSET D
  BY <1>1
<1>7. H \in [SUBSET D -> Int]
  BY <1>4, <1>6 DEF IsSum
<1>8. H[{}] = 0
  <2>1. image({}) = {}
    OBVIOUS
  <2> QED BY <1>4, <2>1 DEF IsSum
<1>9. ASSUME NEW r \in SUBSET D, NEW x \in r
      PROVE  H[r] = H[r \ {x}] + t[x]
  <2>1. image(r \ {x}) = image(r) \ {f[x]} /\ f[x] \in image(r)
    BY <1>1
  <2>2. F[image(r)] = F[image(r) \ {f[x]}] + s[f[x]]
    <3> HIDE DEF image
    <3> QED BY <1>4, <1>6, <2>1 DEF IsSum
  <2> HIDE DEF image
  <2> QED BY <1>2, <2>1, <2>2
<1>10. IsSum(H, t, D)
  <2> HIDE DEF H
  <2> QED BY <1>7, <1>8, <1>9 DEF IsSum
<1>11. image(D) = D
  BY <1>1
<1>12. H[D] = F[D]
  BY <1>11
<1>13. D \in SUBSET (D \cap D)
  OBVIOUS
<1> HIDE DEF H
<1>14. G[D] = H[D]
  BY <1>3, <1>5, <1>10, <1>13, SumsAgree
<1> QED BY <1>2, <1>4, <1>5, <1>12, <1>14 DEF t
=============================================================================
