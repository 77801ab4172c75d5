--------------------------- MODULE GovLedgerProofs ---------------------------
(***************************************************************************)
(* The ledgers of a Governor add up.  First sums over finite sets (what    *)
(* MapThenSumSet gives when one entry changes, when entries are zero, when *)
(* the summands are indexed), then that every change of GovChanges moves   *)
(* each total of the state by what it moves the charge of one permit.      *)
(***************************************************************************)
EXTENDS GovChanges, Observation, FiniteSetTheorems, TLAPS

\* The costs a class policy declares.
LEMMA CostTypes ==
  ASSUME NEW c \in Classes
  PROVE  Policy[c].cpu \in Nat /\ Policy[c].mem \in Nat
BY ClassesAssumption, Zenon DEF ClassPolicies

\* The root a submission names.
LEMMA RootType ==
  ASSUME NEW sp \in Specs
  PROVE  sp.root \in Roots /\ sp.child \in BOOLEAN
BY SpecsAssumption, Zenon DEF TaskSpecs

-----------------------------------------------------------------------------
\* Sums

\* The sum of the entries of h at the members of S.
Sum(h, S) == MapThenSumSet(LAMBDA x : h[x], S)

\* A function that computes such sums, the way MapThenSumSet does.
Pick(s) == CHOOSE x \in s : TRUE
IsIter(g, h, S) ==
  g = [s \in SUBSET S |-> IF s = {} THEN 0 ELSE h[Pick(s)] + g[s \ {Pick(s)}]]

\* Induction on finite sets: of a family of subsets of S one is least.
LEMMA LeastSet ==
  ASSUME NEW S, IsFiniteSet(S), NEW B \in SUBSET SUBSET S, B # {}
  PROVE  \E T \in B : \A U \in B : U \subseteq T => U = T
<1>1. IsWellFoundedOn(StrictSubsetOrdering(S), SUBSET S)
  BY FS_StrictSubsetOrderingWellFounded, FS_FiniteSubsetsOfFinite
<1> DEFINE R == StrictSubsetOrdering(S)
<1>2. PICK T \in B : \A U \in B : ~(<<U, T>> \in R)
  <2>1. B \subseteq SUBSET S /\ IsWellFoundedOn(R, SUBSET S)
    BY <1>1
  <2> HIDE DEF R
  <2>2. \E x \in B : \A y \in B : ~(<<y, x>> \in R)
    BY <2>1, WFMin, Zenon
  <2> QED BY <2>2
<1>3. ASSUME NEW U \in B, U \subseteq T, U # T PROVE <<U, T>> \in R
  BY <1>3 DEF StrictSubsetOrdering
<1> HIDE DEF R
<1>4. \A U \in B : U \subseteq T => U = T
  BY <1>2, <1>3
<1> QED BY <1>4

\* The function that sums over the subsets of S sums over those of a part of S.
LEMMA IterRestrict ==
  ASSUME NEW h, NEW S, NEW T \in SUBSET S, NEW f, IsIter(f, h, S)
  PROVE  IsIter([s \in SUBSET T |-> f[s]], h, T)
<1> DEFINE g == [s \in SUBSET T |-> f[s]]
<1>1. ASSUME NEW s \in SUBSET T
      PROVE  g[s] = IF s = {} THEN 0 ELSE h[Pick(s)] + g[s \ {Pick(s)}]
  <2>1. s \in SUBSET S /\ s \ {Pick(s)} \in SUBSET T
    OBVIOUS
  <2>2. f[s] = IF s = {} THEN 0 ELSE h[Pick(s)] + f[s \ {Pick(s)}]
    BY <2>1, Zenon DEF IsIter
  <2> QED BY <2>1, <2>2, Zenon
<1>2. g = [s \in SUBSET T |-> IF s = {} THEN 0 ELSE h[Pick(s)] + g[s \ {Pick(s)}]]
  BY <1>1, Zenon
<1> QED BY <1>2, Zenon DEF IsIter

\* There is one such function.
LEMMA IterUnique ==
  ASSUME NEW h, NEW S, IsFiniteSet(S), NEW f, NEW g, IsIter(f, h, S), IsIter(g, h, S)
  PROVE  \A T \in SUBSET S : f[T] = g[T]
<1> DEFINE B == {T \in SUBSET S : f[T] # g[T]}
<1> SUFFICES ASSUME B # {} PROVE FALSE
  OBVIOUS
<1>1. PICK T \in B : \A U \in B : U \subseteq T => U = T
  <2>1. B \in SUBSET SUBSET S
    OBVIOUS
  <2> HIDE DEF B
  <2>2. \E T \in B : \A U \in B : U \subseteq T => U = T
    BY <2>1, LeastSet
  <2> QED BY <2>2
<1>2. /\ f[T] = IF T = {} THEN 0 ELSE h[Pick(T)] + f[T \ {Pick(T)}]
      /\ g[T] = IF T = {} THEN 0 ELSE h[Pick(T)] + g[T \ {Pick(T)}]
  <2>1. T \in SUBSET S
    OBVIOUS
  <2> QED BY <2>1, Zenon DEF IsIter
<1>3. T # {}
  BY <1>2
<1>4. Pick(T) \in T
  BY <1>3, Zenon DEF Pick
<1>5. T \ {Pick(T)} \notin B
  BY <1>1, <1>4
<1>6. f[T \ {Pick(T)}] = g[T \ {Pick(T)}]
  BY <1>5
<1> QED BY <1>2, <1>6

\* There is such a function: the recursion over a finite set is well founded.
LEMMA IterExists ==
  ASSUME NEW h, NEW S, IsFiniteSet(S)
  PROVE  \E f : IsIter(f, h, S)
<1> DEFINE B == {T \in SUBSET S : ~ \E f : IsIter(f, h, T)}
<1> SUFFICES ASSUME B # {} PROVE FALSE
  OBVIOUS
<1>1. PICK T \in B : \A U \in B : U \subseteq T => U = T
  <2>1. B \in SUBSET SUBSET S
    OBVIOUS
  <2> HIDE DEF B
  <2>2. \E T \in B : \A U \in B : U \subseteq T => U = T
    BY <2>1, LeastSet
  <2> QED BY <2>2
<1> DEFINE it(U) == CHOOSE f : IsIter(f, h, U)
           val(U) == it(U)[U]
<1>2. ASSUME NEW U \in SUBSET T, U # T PROVE IsIter(it(U), h, U)
  <2>1. \E f : IsIter(f, h, U)
    BY <1>1, <1>2
  <2> QED BY <2>1, Zenon
<1>3. ASSUME NEW U \in SUBSET T, U # T, U # {}
      PROVE  val(U) = h[Pick(U)] + val(U \ {Pick(U)})
  <2> DEFINE W == U \ {Pick(U)}
  <2>1. Pick(U) \in U
    BY <1>3, Zenon DEF Pick
  <2>2. W \in SUBSET T /\ W # T /\ W \in SUBSET U
    BY <1>3, <2>1
  <2>3. IsIter(it(U), h, U) /\ IsIter(it(W), h, W)
    BY <1>2, <1>3, <2>2, Zenon
  <2>4. IsIter([s \in SUBSET W |-> it(U)[s]], h, W)
    BY <2>2, <2>3, IterRestrict, Zenon
  <2>5. IsFiniteSet(W)
    <3>1. W \in SUBSET S
      BY <2>2
    <3> HIDE DEF W
    <3> QED BY <3>1, FS_Subset
  <2> DEFINE part == [s \in SUBSET W |-> it(U)[s]]
  <2> HIDE DEF W, it
  <2>6. W \in SUBSET W
    OBVIOUS
  <2>7. it(U)[W] = it(W)[W]
    <3>1. IsIter(part, h, W) /\ part[W] = it(U)[W]
      BY <2>4, <2>6, Zenon
    <3> HIDE DEF part
    <3>2. part[W] = it(W)[W]
      BY <2>3, <2>5, <2>6, <3>1, IterUnique
    <3> QED BY <3>1, <3>2
  <2>8. it(U)[U] = h[Pick(U)] + it(U)[W]
    <3>1. U \in SUBSET U
      OBVIOUS
    <3> QED BY <1>3, <2>3, <3>1, Zenon DEF IsIter, W
  <2> QED BY <2>7, <2>8, Zenon DEF W
<1>4. ASSUME {} # T PROVE val({}) = 0
  <2>1. IsIter(it({}), h, {})
    BY <1>2, <1>4, Zenon
  <2> HIDE DEF it
  <2>2. {} \in SUBSET {}
    OBVIOUS
  <2> QED BY <2>1, <2>2, Zenon DEF IsIter
<1> DEFINE top == IF T = {} THEN 0 ELSE h[Pick(T)] + val(T \ {Pick(T)})
           g == [s \in SUBSET T |-> IF s = T THEN top ELSE val(s)]
<1>5. ASSUME NEW s \in SUBSET T
      PROVE  g[s] = IF s = {} THEN 0 ELSE h[Pick(s)] + g[s \ {Pick(s)}]
  <2> HIDE DEF val
  <2>1. CASE s = {}
    BY <1>4, <2>1
  <2>2. CASE s # {}
    <3>1. Pick(s) \in s
      BY <2>2, Zenon DEF Pick
    <3>2. s \ {Pick(s)} \in SUBSET T /\ s \ {Pick(s)} # T
      BY <3>1
    <3>3. g[s \ {Pick(s)}] = val(s \ {Pick(s)})
      BY <3>2, Zenon
    <3>4. g[s] = h[Pick(s)] + val(s \ {Pick(s)})
      <4>1. CASE s = T
        BY <2>2, <4>1, Zenon
      <4>2. CASE s # T
        BY <1>3, <2>2, <4>2, Zenon
      <4> QED BY <4>1, <4>2
    <3> QED BY <2>2, <3>3, <3>4, Zenon
  <2> QED BY <2>1, <2>2
<1>6. g = [s \in SUBSET T |-> IF s = {} THEN 0 ELSE h[Pick(s)] + g[s \ {Pick(s)}]]
  <2> HIDE DEF top, val
  <2> QED BY <1>5, Zenon
<1>7. IsIter(g, h, T)
  <2> HIDE DEF g
  <2> QED BY <1>6, Zenon DEF IsIter
<1> QED BY <1>7, Zenon

\* MapThenSumSet computes with such a function.
LEMMA SumIsIter ==
  ASSUME NEW h, NEW S, IsFiniteSet(S)
  PROVE  \E f : IsIter(f, h, S) /\ Sum(h, S) = f[S]
<1> DEFINE it == CHOOSE f : IsIter(f, h, S)
<1>1. IsIter(it, h, S)
  BY IterExists, Zenon
<1>2. Sum(h, S) = it[S]
  BY Zenon DEF Sum, MapThenSumSet, MapThenFoldSet, IsIter, Pick
<1> QED BY <1>1, <1>2

\* One member, the one MapThenSumSet picks, is split off a sum.
LEMMA SumUnfold ==
  ASSUME NEW h, NEW S, IsFiniteSet(S)
  PROVE  /\ S = {} => Sum(h, S) = 0
         /\ S # {} => Pick(S) \in S /\ Sum(h, S) = h[Pick(S)] + Sum(h, S \ {Pick(S)})
<1>1. PICK f : IsIter(f, h, S) /\ Sum(h, S) = f[S]
  BY SumIsIter
<1>2. f[S] = IF S = {} THEN 0 ELSE h[Pick(S)] + f[S \ {Pick(S)}]
  <2>1. S \in SUBSET S
    OBVIOUS
  <2> QED BY <1>1, <2>1, Zenon DEF IsIter
<1>3. CASE S = {}
  BY <1>1, <1>2, <1>3
<1>4. CASE S # {}
  <2> DEFINE W == S \ {Pick(S)}
  <2>1. Pick(S) \in S
    BY <1>4, Zenon DEF Pick
  <2>2. W \in SUBSET S /\ W \in SUBSET W
    OBVIOUS
  <2> HIDE DEF W
  <2>7. IsFiniteSet(W)
    BY <2>2, FS_Subset
  <2>3. PICK e : IsIter(e, h, W) /\ Sum(h, W) = e[W]
    BY <2>7, SumIsIter
  <2>4. IsIter([s \in SUBSET W |-> f[s]], h, W)
    BY <1>1, <2>2, IterRestrict, Zenon
  <2> DEFINE part == [s \in SUBSET W |-> f[s]]
  <2>5. IsIter(part, h, W) /\ part[W] = f[W]
    BY <2>2, <2>4, Zenon
  <2> HIDE DEF part
  <2>6. f[W] = e[W]
    BY <2>2, <2>3, <2>5, <2>7, IterUnique
  <2> QED BY <1>1, <1>2, <1>4, <2>1, <2>3, <2>6, Zenon DEF W
<1> QED BY <1>3, <1>4

\* The empty sum is zero.
LEMMA SumEmpty == ASSUME NEW h PROVE Sum(h, {}) = 0
BY SumUnfold, FS_EmptySet

\* A sum of counts may be taken in any order.
LEMMA SumOrder ==
  ASSUME NEW S, IsFiniteSet(S), NEW h, \A x \in S : h[x] \in Nat
  PROVE  \A T \in SUBSET S :
           /\ Sum(h, T) \in Nat
           /\ \A x \in T : Sum(h, T) = h[x] + Sum(h, T \ {x})
<1> DEFINE Q(T) == /\ Sum(h, T) \in Nat
                   /\ \A x \in T : Sum(h, T) = h[x] + Sum(h, T \ {x})
           B == {T \in SUBSET S : ~Q(T)}
<1> SUFFICES ASSUME B # {} PROVE FALSE
  OBVIOUS
<1>1. PICK T \in B : \A U \in B : U \subseteq T => U = T
  <2>1. B \in SUBSET SUBSET S
    OBVIOUS
  <2> HIDE DEF B
  <2>2. \E T \in B : \A U \in B : U \subseteq T => U = T
    BY <2>1, LeastSet
  <2> QED BY <2>2
<1>2. T \in SUBSET S /\ IsFiniteSet(T) /\ ~Q(T)
  BY FS_Subset
<1>3. ASSUME NEW x \in T PROVE Q(T \ {x})
  <2>1. T \ {x} \in SUBSET S /\ T \ {x} # T /\ T \ {x} \subseteq T
    BY <1>2
  <2> QED BY <1>1, <2>1
<1>4. T # {}
  <2>1. Sum(h, {}) = 0
    BY SumEmpty
  <2>2. Q({})
    BY <2>1
  <2> HIDE DEF Q
  <2> QED BY <1>2, <2>2
<1> DEFINE p == Pick(T)
<1>5. p \in T /\ Sum(h, T) = h[p] + Sum(h, T \ {p})
  BY <1>2, <1>4, SumUnfold
<1> HIDE DEF p
<1>6. Sum(h, T \ {p}) \in Nat /\ h[p] \in Nat
  BY <1>2, <1>3, <1>5
<1>7. ASSUME NEW x \in T, x # p PROVE Sum(h, T) = h[x] + Sum(h, T \ {x})
  <2> DEFINE W == (T \ {p}) \ {x}
             sp == Sum(h, T \ {p})
             sx == Sum(h, T \ {x})
             sw == Sum(h, W)
  <2>1. W = (T \ {x}) \ {p} /\ x \in T \ {p} /\ p \in T \ {x}
    BY <1>5, <1>7
  <2>2. sp = h[x] + sw
    BY <1>3, <1>5, <2>1
  <2>3. sx = h[p] + sw /\ sx \in Nat
    BY <1>3, <1>7, <2>1
  <2>4. Q((T \ {p}) \ {x})
    <3>1. (T \ {p}) \ {x} \in SUBSET S /\ (T \ {p}) \ {x} # T /\ (T \ {p}) \ {x} \subseteq T
      BY <1>2, <1>5
    <3> QED BY <1>1, <3>1
  <2>5. sw \in Nat /\ h[x] \in Nat
    BY <1>2, <2>4
  <2> HIDE DEF sp, sx, sw
  <2>6. Sum(h, T) = h[p] + sp
    BY <1>5 DEF sp
  <2>7. Sum(h, T) = h[x] + sx
    BY <1>6, <2>2, <2>3, <2>5, <2>6
  <2> QED BY <2>7 DEF sx
<1>8. Sum(h, T) \in Nat
  BY <1>5, <1>6
<1> QED BY <1>2, <1>5, <1>7, <1>8

\* A sum of counts is a count, any member can be split off it, and no member is
\* larger than the sum.
LEMMA SumSplit ==
  ASSUME NEW S, IsFiniteSet(S), NEW h, \A x \in S : h[x] \in Nat
  PROVE  /\ Sum(h, S) \in Nat
         /\ \A x \in S : /\ Sum(h, S) = h[x] + Sum(h, S \ {x})
                         /\ Sum(h, S \ {x}) \in Nat /\ h[x] <= Sum(h, S)
<1>1. S \in SUBSET S
  OBVIOUS
<1>2. Sum(h, S) \in Nat /\ \A x \in S : Sum(h, S) = h[x] + Sum(h, S \ {x})
  BY <1>1, SumOrder
<1>3. ASSUME NEW x \in S PROVE Sum(h, S \ {x}) \in Nat
  <2>1. S \ {x} \in SUBSET S
    OBVIOUS
  <2> QED BY <2>1, SumOrder
<1>4. ASSUME NEW x \in S PROVE h[x] <= Sum(h, S)
  <2>1. Sum(h, S) = h[x] + Sum(h, S \ {x}) /\ h[x] \in Nat
    BY <1>2
  <2> QED BY <1>3, <2>1
<1> QED BY <1>2, <1>3, <1>4

\* A sum depends only on the entries at the members.
LEMMA SumSame ==
  ASSUME NEW S, IsFiniteSet(S), NEW h, NEW k, \A x \in S : h[x] = k[x]
  PROVE  Sum(h, S) = Sum(k, S)
<1> DEFINE B == {T \in SUBSET S : Sum(h, T) # Sum(k, T)}
<1> SUFFICES ASSUME B # {} PROVE FALSE
  OBVIOUS
<1>1. PICK T \in B : \A U \in B : U \subseteq T => U = T
  <2>1. B \in SUBSET SUBSET S
    OBVIOUS
  <2> HIDE DEF B
  <2>2. \E T \in B : \A U \in B : U \subseteq T => U = T
    BY <2>1, LeastSet
  <2> QED BY <2>2
<1>2. T \in SUBSET S /\ IsFiniteSet(T) /\ Sum(h, T) # Sum(k, T)
  BY FS_Subset
<1>3. T # {}
  BY <1>2, SumEmpty
<1> DEFINE p == Pick(T)
<1>4. /\ p \in T /\ Sum(h, T) = h[p] + Sum(h, T \ {p})
      /\ Sum(k, T) = k[p] + Sum(k, T \ {p})
  BY <1>2, <1>3, SumUnfold
<1> HIDE DEF p
<1>5. Sum(h, T \ {p}) = Sum(k, T \ {p})
  <2>1. T \ {p} \in SUBSET S /\ T \ {p} # T /\ T \ {p} \subseteq T
    BY <1>2, <1>4
  <2> QED BY <1>1, <2>1
<1> QED BY <1>2, <1>4, <1>5

\* A sum of zeros is zero, and only that.
LEMMA SumZero ==
  ASSUME NEW S, IsFiniteSet(S), NEW h, \A x \in S : h[x] \in Nat
  PROVE  Sum(h, S) = 0 <=> \A x \in S : h[x] = 0
<1>1. ASSUME Sum(h, S) = 0, NEW x \in S PROVE h[x] = 0
  <2>1. h[x] \in Nat /\ h[x] <= Sum(h, S)
    BY SumSplit
  <2> QED BY <1>1, <2>1
<1>2. ASSUME \A x \in S : h[x] = 0 PROVE Sum(h, S) = 0
  <2> DEFINE B == {T \in SUBSET S : Sum(h, T) # 0}
  <2> SUFFICES ASSUME B # {} PROVE FALSE
    <3>1. S \in SUBSET S
      OBVIOUS
    <3> QED BY <3>1
  <2>1. PICK T \in B : \A U \in B : U \subseteq T => U = T
    <3>1. B \in SUBSET SUBSET S
      OBVIOUS
    <3> HIDE DEF B
    <3>2. \E T \in B : \A U \in B : U \subseteq T => U = T
      BY <3>1, LeastSet
    <3> QED BY <3>2
  <2>2. T \in SUBSET S /\ IsFiniteSet(T) /\ Sum(h, T) # 0
    BY FS_Subset
  <2>3. T # {}
    BY <2>2, SumEmpty
  <2> DEFINE p == Pick(T)
  <2>4. p \in T /\ Sum(h, T) = h[p] + Sum(h, T \ {p})
    BY <2>2, <2>3, SumUnfold
  <2> HIDE DEF p
  <2>5. Sum(h, T \ {p}) = 0
    <3>1. T \ {p} \in SUBSET S /\ T \ {p} # T /\ T \ {p} \subseteq T
      BY <2>2, <2>4
    <3> QED BY <2>1, <3>1
  <2>6. h[p] = 0
    BY <1>2, <2>2, <2>4
  <2> QED BY <2>2, <2>4, <2>5, <2>6
<1> QED BY <1>1, <1>2

\* Members whose entry is zero need not be counted.
LEMMA SumSupport ==
  ASSUME NEW S, IsFiniteSet(S), NEW h, \A x \in S : h[x] \in Nat,
         NEW R \in SUBSET S, \A x \in S \ R : h[x] = 0
  PROVE  Sum(h, S) = Sum(h, R)
<1> DEFINE B == {T \in SUBSET S : R \subseteq T /\ Sum(h, T) # Sum(h, R)}
<1> SUFFICES ASSUME B # {} PROVE FALSE
  OBVIOUS
<1>1. PICK T \in B : \A U \in B : U \subseteq T => U = T
  <2>1. B \in SUBSET SUBSET S
    OBVIOUS
  <2> HIDE DEF B
  <2>2. \E T \in B : \A U \in B : U \subseteq T => U = T
    BY <2>1, LeastSet
  <2> QED BY <2>2
<1>2. T \in SUBSET S /\ R \subseteq T /\ Sum(h, T) # Sum(h, R)
  OBVIOUS
<1>3. PICK x \in T : x \notin R
  BY <1>2
<1>4. Sum(h, T \ {x}) = Sum(h, R)
  <2>1. T \ {x} \in SUBSET S /\ T \ {x} # T /\ T \ {x} \subseteq T /\ R \subseteq T \ {x}
    BY <1>2, <1>3
  <2> QED BY <1>1, <2>1
<1>5. Sum(h, T) = h[x] + Sum(h, T \ {x})
  BY <1>2, SumOrder
<1>6. h[x] = 0 /\ Sum(h, R) \in Nat
  BY <1>2, <1>3, SumOrder
<1> QED BY <1>2, <1>4, <1>5, <1>6

\* A sum over an indexed family: one entry per index.
LEMMA SumImage ==
  ASSUME NEW S, IsFiniteSet(S), NEW f, \A x, y \in S : f[x] = f[y] => x = y,
         NEW h, NEW k, \A x \in S : k[x] \in Nat /\ h[f[x]] = k[x]
  PROVE  Sum(h, {f[x] : x \in S}) = Sum(k, S)
<1> DEFINE img(T) == {f[x] : x \in T}
           B == {T \in SUBSET S : Sum(h, img(T)) # Sum(k, T)}
<1> SUFFICES ASSUME B # {} PROVE FALSE
  <2>1. S \in SUBSET S
    OBVIOUS
  <2> QED BY <2>1, Zenon
<1>1. PICK T \in B : \A U \in B : U \subseteq T => U = T
  <2>1. B \in SUBSET SUBSET S
    OBVIOUS
  <2> HIDE DEF B
  <2>2. \E T \in B : \A U \in B : U \subseteq T => U = T
    BY <2>1, LeastSet
  <2> QED BY <2>2
<1>2. T \in SUBSET S /\ IsFiniteSet(T) /\ Sum(h, img(T)) # Sum(k, T)
  BY FS_Subset
<1>3. T # {}
  <2>1. img({}) = {}
    OBVIOUS
  <2> HIDE DEF img
  <2> QED BY <1>2, <2>1, SumEmpty
<1>4. PICK x \in T : TRUE
  BY <1>3
<1>5. Sum(h, img(T \ {x})) = Sum(k, T \ {x})
  <2>1. T \ {x} \in SUBSET S /\ T \ {x} # T /\ T \ {x} \subseteq T
    BY <1>2
  <2> HIDE DEF img
  <2> QED BY <1>1, <2>1
<1>6. img(T \ {x}) = img(T) \ {f[x]} /\ f[x] \in img(T)
  BY <1>2
<1>7. IsFiniteSet(img(T)) /\ \A y \in img(T) : h[y] \in Nat
  <2>1. \A y \in img(T) : h[y] \in Nat
    BY <1>2
  <2>2. [y \in T |-> f[y]] \in Surjection(T, img(T))
    BY DEF Surjection
  <2> HIDE DEF img
  <2> QED BY <1>2, <2>1, <2>2, FS_Surjection
<1> HIDE DEF img
<1>8. Sum(h, img(T)) = h[f[x]] + Sum(h, img(T) \ {f[x]})
  BY <1>6, <1>7, SumSplit
<1>9. Sum(k, T) = k[x] + Sum(k, T \ {x})
  BY <1>2, SumSplit
<1>10. h[f[x]] = k[x]
  BY <1>2
<1> QED BY <1>2, <1>5, <1>6, <1>8, <1>9, <1>10

\* Counting is summing ones.
LEMMA SumOnes ==
  ASSUME NEW S, IsFiniteSet(S), NEW R \in SUBSET S
  PROVE  Sum([x \in S |-> IF x \in R THEN 1 ELSE 0], S) = Cardinality(R)
<1> DEFINE h == [x \in S |-> IF x \in R THEN 1 ELSE 0]
           B == {T \in SUBSET R : Sum(h, T) # Cardinality(T)}
<1>1. /\ \A x \in S : h[x] \in Nat
      /\ \A x \in R : h[x] = 1
      /\ \A x \in S \ R : h[x] = 0
  OBVIOUS
<1> HIDE DEF h
<1>2. IsFiniteSet(R)
  BY FS_Subset
<1>3. B = {}
  <2> SUFFICES ASSUME B # {} PROVE FALSE
    OBVIOUS
  <2>1. PICK T \in B : \A U \in B : U \subseteq T => U = T
    <3>1. B \in SUBSET SUBSET R
      OBVIOUS
    <3> HIDE DEF B
    <3>2. \E T \in B : \A U \in B : U \subseteq T => U = T
      BY <1>2, <3>1, LeastSet
    <3> QED BY <3>2
  <2>2. T \in SUBSET R /\ T \in SUBSET S /\ IsFiniteSet(T) /\ Sum(h, T) # Cardinality(T)
    BY <1>2, FS_Subset
  <2>3. T # {}
    BY <2>2, SumEmpty, FS_EmptySet
  <2>4. PICK x \in T : TRUE
    BY <2>3
  <2>5. Sum(h, T \ {x}) = Cardinality(T \ {x})
    <3>1. T \ {x} \in SUBSET R /\ T \ {x} # T /\ T \ {x} \subseteq T
      BY <2>2
    <3> QED BY <2>1, <3>1
  <2>6. Sum(h, T) = h[x] + Sum(h, T \ {x})
    BY <1>1, <2>2, SumSplit
  <2>7. Cardinality(T \ {x}) = Cardinality(T) - 1 /\ Cardinality(T) \in Nat
    BY <2>2, FS_RemoveElement, FS_CardinalityType
  <2>8. h[x] = 1
    BY <1>1, <2>2
  <2> QED BY <2>2, <2>5, <2>6, <2>7, <2>8
<1>4. Sum(h, R) = Cardinality(R)
  <2>1. R \in SUBSET R
    OBVIOUS
  <2> QED BY <1>3, <2>1
<1>5. Sum(h, S) = Sum(h, R)
  BY <1>1, SumSupport
<1> QED BY <1>4, <1>5 DEF h

\* When one summand changes, the sum changes by as much.
OneMoves(h, k, S, x) == Sum(k, S) + h[x] = Sum(h, S) + k[x]

\* A sum of counts follows the one that changes.
LEMMA SumMove ==
  ASSUME NEW S, IsFiniteSet(S), NEW h, NEW k, NEW x \in S,
         \A y \in S : h[y] \in Nat /\ k[y] \in Nat, \A y \in S \ {x} : h[y] = k[y]
  PROVE  OneMoves(h, k, S, x)
<1>1. IsFiniteSet(S \ {x})
  BY FS_Subset
<1>2. Sum(h, S \ {x}) = Sum(k, S \ {x})
  BY <1>1, SumSame
<1>3. /\ Sum(h, S) = h[x] + Sum(h, S \ {x}) /\ Sum(h, S \ {x}) \in Nat
      /\ Sum(k, S) = k[x] + Sum(k, S \ {x}) /\ h[x] \in Nat /\ k[x] \in Nat
  BY SumSplit
<1> QED BY <1>2, <1>3 DEF OneMoves

-----------------------------------------------------------------------------
\* What the live permits are charged

\* The sum of the entries of h at the live permits of the set S.
live(s, S, h) == [i \in Ids |-> IF i \in s.permits \cap S THEN h[i] ELSE 0]
charged(s, S, h) == Sum(live(s, S, h), Ids)

\* What permit i contributes to it.
share(s, S, h, i) == IF i \in s.permits \cap S THEN h[i] ELSE 0

\* What is summed, and over which permits.
ones == [i \in Ids |-> 1]
cpu_of(s) == [i \in Ids |-> Policy[s.class[i]].cpu]
of_class(s, c) == {i \in Ids : s.class[i] = c}
in_phase(s, c, p) == {i \in Ids : s.class[i] = c /\ s.phase[i] = p}
begun(s, c) == {i \in Ids : s.class[i] = c /\ has_started(s.phase[i])}
waiting(s, c) == {i \in Ids : s.class[i] = c /\ ~has_started(s.phase[i])}
of_pool(s, k) == {i \in Ids : k \in s.spec[i].caps}
of_root(s, r) == {i \in Ids : s.spec[i].child /\ s.spec[i].root = r}

\* Every total of the state is what the live permits are charged.
GlobalTotals(s) ==
  /\ s.cpu = charged(s, Ids, cpu_of(s)) /\ s.mem = charged(s, Ids, s.units)
  /\ s.cpu = Sum(s.cpu_held, Classes) /\ s.mem = Sum(s.mem_held, Classes)

ClassTotals(s) ==
  \A c \in Classes :
    /\ s.inflight[c] = charged(s, of_class(s, c), ones)
    /\ s.cpu_held[c] = charged(s, of_class(s, c), cpu_of(s))
    /\ s.mem_held[c] = charged(s, of_class(s, c), s.units)

\* Permits that started were counted, and those that did not were not.
PhaseTotals(s) ==
  \A c \in Classes :
    /\ \A p \in Phases : s.gauge[c][p] = charged(s, in_phase(s, c, p), ones)
    /\ s.inflight[c] = Sum(s.gauge[c], Phases)
    /\ s.admitted[c] = s.inflight[c] + s.terminated[c]
    /\ s.started[c] + charged(s, waiting(s, c), ones) <= s.admitted[c]
    /\ charged(s, begun(s, c), ones) <= s.started[c]

PoolTotals(s) == \A k \in Caps : s.in_use[k] = charged(s, of_pool(s, k), ones)

RootTotals(s) ==
  \A r \in Roots :
    /\ s.child_inflight[r] = charged(s, of_root(s, r), ones)
    /\ s.root_cpu[r] = charged(s, of_root(s, r), cpu_of(s))
    /\ s.root_mem[r] = charged(s, of_root(s, r), s.units)

LedgerSound(s) ==
  /\ GlobalTotals(s) /\ ClassTotals(s) /\ PhaseTotals(s) /\ PoolTotals(s) /\ RootTotals(s)

\* A total and its next value differ by what permit i contributes.
DiffersBy(g, R, k, s, S, h, i) ==
  /\ charged(g, R, k) \in Nat /\ charged(s, S, h) \in Nat
  /\ share(g, R, k, i) \in Nat /\ share(s, S, h, i) \in Nat
  /\ charged(g, R, k) + share(s, S, h, i) = charged(s, S, h) + share(g, R, k, i)
  /\ share(s, S, h, i) <= charged(s, S, h)

\* Only what permit i is charged may have changed.
Moved(g, s, i) ==
  /\ g.permits \ {i} = s.permits \ {i}
  /\ \A j \in s.permits \ {i} :
       /\ g.spec[j] = s.spec[j] /\ g.class[j] = s.class[j]
       /\ g.phase[j] = s.phase[j] /\ g.units[j] = s.units[j]

\* The ids are finitely many.
LEMMA IdsFinite == IsFiniteSet(Ids)
BY IdsAssumption, FS_Interval DEF Ids

\* A total is a count and no permit contributes more than all of it.
LEMMA ChargedType ==
  ASSUME NEW s, NEW S, NEW h \in [Ids -> Nat]
  PROVE  /\ charged(s, S, h) \in Nat
         /\ \A i \in Ids : share(s, S, h, i) \in Nat /\ share(s, S, h, i) <= charged(s, S, h)
<1> DEFINE w == live(s, S, h)
<1>1. \A i \in Ids : w[i] \in Nat /\ w[i] = share(s, S, h, i)
  BY DEF live, share
<1> HIDE DEF w
<1>2. Sum(w, Ids) \in Nat /\ \A i \in Ids : w[i] <= Sum(w, Ids)
  BY <1>1, IdsFinite, SumSplit
<1> QED BY <1>1, <1>2 DEF charged, w

\* A total moves with the one permit whose charge changed.
LEMMA ChargedMoves ==
  ASSUME NEW g, NEW s, NEW i \in Ids, NEW R, NEW S, NEW k \in [Ids -> Nat], NEW h \in [Ids -> Nat],
         g.permits \ {i} = s.permits \ {i},
         \A j \in s.permits \ {i} : (j \in R <=> j \in S) /\ k[j] = h[j]
  PROVE  DiffersBy(g, R, k, s, S, h, i)
<1> DEFINE v == live(g, R, k)
           w == live(s, S, h)
<1>1. /\ \A j \in Ids : v[j] \in Nat /\ v[j] = share(g, R, k, j)
      /\ \A j \in Ids : w[j] \in Nat /\ w[j] = share(s, S, h, j)
  BY DEF live, share
<1>2. \A j \in Ids \ {i} : w[j] = v[j]
  BY DEF live
<1> HIDE DEF v, w
<1>3. Sum(v, Ids) + w[i] = Sum(w, Ids) + v[i]
  <2>1. \A j \in Ids : w[j] \in Nat /\ v[j] \in Nat
    BY <1>1, Zenon
  <2>2. OneMoves(w, v, Ids, i)
    BY <1>2, <2>1, IdsFinite, SumMove, Zenon
  <2> QED BY <2>2, Zenon DEF OneMoves
<1>4. charged(g, R, k) + share(s, S, h, i) = charged(s, S, h) + share(g, R, k, i)
  BY <1>1, <1>3 DEF charged, v, w
<1>5. /\ charged(g, R, k) \in Nat /\ share(g, R, k, i) \in Nat
      /\ charged(s, S, h) \in Nat /\ share(s, S, h, i) \in Nat
      /\ share(s, S, h, i) <= charged(s, S, h)
  BY ChargedType
<1> QED BY <1>4, <1>5 DEF DiffersBy

\* The totals of the whole Governor, of class c, of pool k and of root r move with
\* permit i.
GlobalMoves(g, s, i) ==
  /\ DiffersBy(g, Ids, cpu_of(g), s, Ids, cpu_of(s), i)
  /\ DiffersBy(g, Ids, g.units, s, Ids, s.units, i)

ClassMoves(g, s, i, c) ==
  /\ DiffersBy(g, of_class(g, c), ones, s, of_class(s, c), ones, i)
  /\ DiffersBy(g, of_class(g, c), cpu_of(g), s, of_class(s, c), cpu_of(s), i)
  /\ DiffersBy(g, of_class(g, c), g.units, s, of_class(s, c), s.units, i)

PhaseMoves(g, s, i, c) ==
  /\ \A p \in Phases : DiffersBy(g, in_phase(g, c, p), ones, s, in_phase(s, c, p), ones, i)
  /\ DiffersBy(g, begun(g, c), ones, s, begun(s, c), ones, i)
  /\ DiffersBy(g, waiting(g, c), ones, s, waiting(s, c), ones, i)

PoolMoves(g, s, i, k) == DiffersBy(g, of_pool(g, k), ones, s, of_pool(s, k), ones, i)

RootMoves(g, s, i, r) ==
  /\ DiffersBy(g, of_root(g, r), ones, s, of_root(s, r), ones, i)
  /\ DiffersBy(g, of_root(g, r), cpu_of(g), s, of_root(s, r), cpu_of(s), i)
  /\ DiffersBy(g, of_root(g, r), g.units, s, of_root(s, r), s.units, i)

\* What is summed are counts.
LEMMA SummandTypes ==
  ASSUME NEW s, GovernedState(s)
  PROVE  /\ ones \in [Ids -> Nat] /\ cpu_of(s) \in [Ids -> Nat] /\ s.units \in [Ids -> Nat]
         /\ s.permits \subseteq Ids /\ s.class \in [Ids -> Classes] /\ s.spec \in [Ids -> Specs]
         /\ s.phase \in [Ids -> Phases]
<1>1. /\ s.units \in [Ids -> Nat] /\ s.permits \subseteq Ids /\ s.class \in [Ids -> Classes]
      /\ s.spec \in [Ids -> Specs] /\ s.phase \in [Ids -> Phases]
  BY Zenon DEF GovernedState
<1>2. ones \in [Ids -> Nat]
  BY DEF ones
<1>3. \A i \in Ids : Policy[s.class[i]].cpu \in Nat
  BY <1>1, CostTypes, Zenon
<1>4. cpu_of(s) \in [Ids -> Nat]
  BY <1>3, Zenon DEF cpu_of
<1> QED BY <1>1, <1>2, <1>4

\* When only permit i changes, every total moves with it.
LEMMA AllMove ==
  ASSUME NEW g, NEW s, GovernedState(g), GovernedState(s), NEW i \in Ids, Moved(g, s, i)
  PROVE  /\ GlobalMoves(g, s, i)
         /\ \A c \in Classes : ClassMoves(g, s, i, c) /\ PhaseMoves(g, s, i, c)
         /\ \A k \in Caps : PoolMoves(g, s, i, k)
         /\ \A r \in Roots : RootMoves(g, s, i, r)
<1>1. /\ ones \in [Ids -> Nat] /\ cpu_of(s) \in [Ids -> Nat] /\ s.units \in [Ids -> Nat]
      /\ cpu_of(g) \in [Ids -> Nat] /\ g.units \in [Ids -> Nat] /\ s.permits \subseteq Ids
  BY SummandTypes, Zenon
<1>2. g.permits \ {i} = s.permits \ {i}
  BY Zenon DEF Moved
<1>3. ASSUME NEW j \in s.permits \ {i}
      PROVE  /\ j \in Ids /\ g.spec[j] = s.spec[j] /\ g.class[j] = s.class[j]
             /\ g.phase[j] = s.phase[j] /\ g.units[j] = s.units[j]
             /\ cpu_of(g)[j] = cpu_of(s)[j]
  <2>1. /\ j \in Ids /\ g.spec[j] = s.spec[j] /\ g.class[j] = s.class[j]
        /\ g.phase[j] = s.phase[j] /\ g.units[j] = s.units[j]
    BY <1>1, Zenon DEF Moved
  <2> QED BY <2>1, Zenon DEF cpu_of
<1>4. GlobalMoves(g, s, i)
  <2>1. \A j \in s.permits \ {i} : cpu_of(g)[j] = cpu_of(s)[j] /\ g.units[j] = s.units[j]
    BY <1>3, Zenon
  <2> QED BY <1>1, <1>2, <2>1, ChargedMoves, Zenon DEF GlobalMoves
<1>5. ASSUME NEW c \in Classes PROVE ClassMoves(g, s, i, c)
  <2>1. \A j \in s.permits \ {i} : j \in of_class(g, c) <=> j \in of_class(s, c)
    BY <1>3, Zenon DEF of_class
  <2>2. \A j \in s.permits \ {i} : cpu_of(g)[j] = cpu_of(s)[j] /\ g.units[j] = s.units[j]
    BY <1>3, Zenon
  <2> QED BY <1>1, <1>2, <2>1, <2>2, ChargedMoves, Zenon DEF ClassMoves
<1>6. ASSUME NEW c \in Classes PROVE PhaseMoves(g, s, i, c)
  <2>1. ASSUME NEW p \in Phases
        PROVE  DiffersBy(g, in_phase(g, c, p), ones, s, in_phase(s, c, p), ones, i)
    <3>1. \A j \in s.permits \ {i} : j \in in_phase(g, c, p) <=> j \in in_phase(s, c, p)
      BY <1>3, Zenon DEF in_phase
    <3> QED BY <1>1, <1>2, <3>1, ChargedMoves, Zenon
  <2>2. \A j \in s.permits \ {i} : j \in begun(g, c) <=> j \in begun(s, c)
    BY <1>3, Zenon DEF begun
  <2>3. \A j \in s.permits \ {i} : j \in waiting(g, c) <=> j \in waiting(s, c)
    BY <1>3, Zenon DEF waiting
  <2>4. /\ DiffersBy(g, begun(g, c), ones, s, begun(s, c), ones, i)
        /\ DiffersBy(g, waiting(g, c), ones, s, waiting(s, c), ones, i)
    BY <1>1, <1>2, <2>2, <2>3, ChargedMoves, Zenon
  <2> QED BY <2>1, <2>4, Zenon DEF PhaseMoves
<1>7. ASSUME NEW k \in Caps PROVE PoolMoves(g, s, i, k)
  <2>1. \A j \in s.permits \ {i} : j \in of_pool(g, k) <=> j \in of_pool(s, k)
    BY <1>3, Zenon DEF of_pool
  <2> QED BY <1>1, <1>2, <2>1, ChargedMoves, Zenon DEF PoolMoves
<1>8. ASSUME NEW r \in Roots PROVE RootMoves(g, s, i, r)
  <2>1. \A j \in s.permits \ {i} : j \in of_root(g, r) <=> j \in of_root(s, r)
    BY <1>3, Zenon DEF of_root
  <2>2. \A j \in s.permits \ {i} : cpu_of(g)[j] = cpu_of(s)[j] /\ g.units[j] = s.units[j]
    BY <1>3, Zenon
  <2> QED BY <1>1, <1>2, <2>1, <2>2, ChargedMoves, Zenon DEF RootMoves
<1> QED BY <1>4, <1>5, <1>6, <1>7, <1>8

\* What a ledger sums to after an entry is set.
SetSum(f, x, v, S) ==
  /\ Sum(put(f, x, v), S) \in Nat /\ Sum(f, S) \in Nat /\ f[x] \in Nat
  /\ f[x] <= Sum(f, S) /\ Sum(put(f, x, v), S) + f[x] = Sum(f, S) + v

\* A ledger sums to as much more as an entry is set higher.
LEMMA SumPut ==
  ASSUME NEW S, IsFiniteSet(S), NEW f \in [S -> Nat], NEW x \in S, NEW v \in Nat
  PROVE  SetSum(f, x, v, S)
<1> DEFINE k == put(f, x, v)
<1>1. k \in [S -> Nat] /\ k[x] = v /\ \A y \in S \ {x} : f[y] = k[y]
  BY Zenon DEF put
<1> HIDE DEF k
<1>2. \A y \in S : f[y] \in Nat /\ k[y] \in Nat
  BY <1>1, Zenon
<1>3. OneMoves(f, k, S, x)
  BY <1>1, <1>2, SumMove, Zenon
<1>4. Sum(f, S) \in Nat /\ f[x] <= Sum(f, S) /\ Sum(k, S) \in Nat
  BY <1>2, SumSplit
<1>5. Sum(k, S) + f[x] = Sum(f, S) + v
  BY <1>1, <1>3, Zenon DEF OneMoves
<1> QED BY <1>2, <1>4, <1>5, Zenon DEF SetSum, k

\* A ledger sums to as much more as is credited, and to as much less as is debited.
MovedSum(f, x, n, S) ==
  /\ Sum(f, S) \in Nat /\ Sum(credit(f, x, n), S) = Sum(f, S) + n
  /\ n <= f[x] => n <= Sum(f, S) /\ Sum(debit(f, x, n), S) = Sum(f, S) - n

\* What a charge or a refund of n units in one entry does to the sum of a ledger.
LEMMA SumMoved ==
  ASSUME NEW S, IsFiniteSet(S), NEW f \in [S -> Nat], NEW x \in S, NEW n \in Nat
  PROVE  MovedSum(f, x, n, S)
<1>1. f[x] \in Nat /\ f[x] + n \in Nat /\ saturating_sub(f[x], n) \in Nat
  BY DEF saturating_sub
<1>2. SetSum(f, x, f[x] + n, S) /\ SetSum(f, x, saturating_sub(f[x], n), S)
  BY <1>1, SumPut, Zenon
<1>3. credit(f, x, n) = put(f, x, f[x] + n) /\ debit(f, x, n) = put(f, x, saturating_sub(f[x], n))
  BY Zenon DEF credit, debit, put
<1> DEFINE a == Sum(credit(f, x, n), S)
           b == Sum(debit(f, x, n), S)
<1>4. /\ a \in Nat /\ b \in Nat /\ Sum(f, S) \in Nat /\ f[x] <= Sum(f, S)
      /\ a + f[x] = Sum(f, S) + (f[x] + n)
      /\ b + f[x] = Sum(f, S) + saturating_sub(f[x], n)
  BY <1>2, <1>3, Zenon DEF SetSum
<1> HIDE DEF a, b
<1>5. a = Sum(f, S) + n
  BY <1>1, <1>4
<1>6. n <= f[x] => n <= Sum(f, S) /\ b = Sum(f, S) - n
  BY <1>1, <1>4 DEF saturating_sub
<1> QED BY <1>4, <1>5, <1>6 DEF a, b, MovedSum

\* A permit that opens adds its charge to the totals it belongs to.
Joined(g, R, k, s, S, h, i) ==
  /\ charged(s, S, h) \in Nat /\ charged(g, R, k) \in Nat
  /\ i \in R => charged(g, R, k) = charged(s, S, h) + k[i]
  /\ i \notin R => charged(g, R, k) = charged(s, S, h)

\* One that ends takes its charge off them.
Left(g, R, k, s, S, h, i) ==
  /\ charged(s, S, h) \in Nat /\ charged(g, R, k) \in Nat
  /\ i \in S => /\ h[i] \in Nat /\ h[i] <= charged(s, S, h)
                /\ charged(g, R, k) = charged(s, S, h) - h[i]
  /\ i \notin S => charged(g, R, k) = charged(s, S, h)

\* One that stays moves them by the difference.
Stayed(g, R, k, s, S, h, i) ==
  /\ charged(s, S, h) \in Nat /\ charged(g, R, k) \in Nat
  /\ i \in R /\ i \in S => /\ h[i] <= charged(s, S, h) /\ k[i] \in Nat /\ h[i] \in Nat
                           /\ charged(g, R, k) = charged(s, S, h) + (k[i] - h[i])
  /\ i \in R /\ i \notin S => charged(g, R, k) = charged(s, S, h) + k[i]
  /\ i \notin R /\ i \in S => /\ h[i] <= charged(s, S, h) /\ h[i] \in Nat
                              /\ charged(g, R, k) = charged(s, S, h) - h[i]
  /\ i \notin R /\ i \notin S => charged(g, R, k) = charged(s, S, h)

\* How a total moves with a permit that opens, ends or stays.
LEMMA MovesHow ==
  ASSUME NEW g, NEW R, NEW k, NEW s, NEW S, NEW h, NEW i, DiffersBy(g, R, k, s, S, h, i)
  PROVE  /\ i \notin s.permits /\ i \in g.permits => Joined(g, R, k, s, S, h, i)
         /\ i \in s.permits /\ i \notin g.permits => Left(g, R, k, s, S, h, i)
         /\ i \in s.permits /\ i \in g.permits => Stayed(g, R, k, s, S, h, i)
<1>1. /\ share(g, R, k, i) = IF i \in g.permits /\ i \in R THEN k[i] ELSE 0
      /\ share(s, S, h, i) = IF i \in s.permits /\ i \in S THEN h[i] ELSE 0
  BY Zenon DEF share
<1>2. ASSUME i \notin s.permits, i \in g.permits PROVE Joined(g, R, k, s, S, h, i)
  BY <1>1, <1>2 DEF DiffersBy, Joined
<1>3. ASSUME i \in s.permits, i \notin g.permits PROVE Left(g, R, k, s, S, h, i)
  BY <1>1, <1>3 DEF DiffersBy, Left
<1>4. ASSUME i \in s.permits, i \in g.permits PROVE Stayed(g, R, k, s, S, h, i)
  BY <1>1, <1>4 DEF DiffersBy, Stayed
<1> QED BY <1>2, <1>3, <1>4

-----------------------------------------------------------------------------
\* A permit opens

\* What the totals and the permit are after open_permit.
OpenedPermit(g, s, i, sp, c) ==
  /\ Moved(g, s, i) /\ i \in g.permits /\ g.class[i] = c /\ g.spec[i] = sp
  /\ g.phase[i] = "DispatchReserved" /\ g.units[i] = Policy[c].mem
  /\ cpu_of(g)[i] = Policy[c].cpu

\* Opening permit i changes no other.
LEMMA OpenedMoves ==
  ASSUME NEW s, NEW g, GovernedState(s), GovernedState(g), NEW i \in Ids, i \notin s.permits,
         NEW sp \in Specs, NEW c \in Classes, Opened(g, s, i, sp, c)
  PROVE  OpenedPermit(g, s, i, sp, c)
<1>1. /\ s.permits \subseteq Ids /\ s.class \in [Ids -> Classes] /\ s.spec \in [Ids -> Specs]
      /\ s.phase \in [Ids -> Phases] /\ s.units \in [Ids -> Nat]
  BY SummandTypes, Zenon
<1>2. /\ g.spec = put(s.spec, i, sp) /\ g.class = put(s.class, i, c)
      /\ g.permits = s.permits \cup {i} /\ g.phase = put(s.phase, i, "DispatchReserved")
      /\ g.units = put(s.units, i, Policy[c].mem)
  BY Zenon DEF Opened
<1>3. /\ g.class[i] = c /\ g.spec[i] = sp /\ g.phase[i] = "DispatchReserved"
      /\ g.units[i] = Policy[c].mem
  BY <1>1, <1>2 DEF put
<1>4. Moved(g, s, i)
  <2>1. \A j \in s.permits \ {i} :
          /\ g.spec[j] = s.spec[j] /\ g.class[j] = s.class[j]
          /\ g.phase[j] = s.phase[j] /\ g.units[j] = s.units[j]
    BY <1>1, <1>2 DEF put
  <2>2. g.permits \ {i} = s.permits \ {i}
    BY <1>2
  <2> QED BY <2>1, <2>2, Zenon DEF Moved
<1>5. cpu_of(g)[i] = Policy[c].cpu
  BY <1>3, Zenon DEF cpu_of
<1> QED BY <1>2, <1>3, <1>4, <1>5, Zenon DEF OpenedPermit

\* The types of the totals.
LEMMA BookTypes ==
  ASSUME NEW s, GovernedState(s)
  PROVE  /\ s.inflight \in [Classes -> Nat] /\ s.admitted \in [Classes -> Nat]
         /\ s.started \in [Classes -> Nat] /\ s.terminated \in [Classes -> Nat]
         /\ s.gauge \in [Classes -> [Phases -> Nat]] /\ s.cpu_held \in [Classes -> Nat]
         /\ s.mem_held \in [Classes -> Nat] /\ s.cpu \in Nat /\ s.mem \in Nat
         /\ s.in_use \in [Caps -> Nat] /\ s.child_inflight \in [Roots -> Nat]
         /\ s.root_cpu \in [Roots -> Nat] /\ s.root_mem \in [Roots -> Nat]
BY Zenon DEF GovernedState

\* A unit weight.
LEMMA OnesAt == \A i \in Ids : ones[i] = 1
BY DEF ones

\* The totals over everything after a permit opened.
LEMMA OpenedGlobal ==
  ASSUME NEW s, NEW g, GovernedState(s), GovernedState(g), NEW i \in Ids, i \notin s.permits,
         NEW sp \in Specs, NEW c \in Classes, Opened(g, s, i, sp, c), GlobalTotals(s)
  PROVE  GlobalTotals(g)
<1>1. OpenedPermit(g, s, i, sp, c)
  BY OpenedMoves, Zenon
<1>2. GlobalMoves(g, s, i) /\ i \in g.permits
  BY <1>1, AllMove, Zenon DEF OpenedPermit
<1>3. /\ charged(g, Ids, cpu_of(g)) = charged(s, Ids, cpu_of(s)) + cpu_of(g)[i]
      /\ charged(g, Ids, g.units) = charged(s, Ids, s.units) + g.units[i]
  <2>1. /\ Joined(g, Ids, cpu_of(g), s, Ids, cpu_of(s), i)
        /\ Joined(g, Ids, g.units, s, Ids, s.units, i)
    BY <1>2, MovesHow, Zenon DEF GlobalMoves
  <2> QED BY <2>1, Zenon DEF Joined
<1>4. /\ g.cpu = s.cpu + Policy[c].cpu /\ g.mem = s.mem + Policy[c].mem
      /\ g.cpu_held = credit(s.cpu_held, c, Policy[c].cpu)
      /\ g.mem_held = credit(s.mem_held, c, Policy[c].mem)
  BY Zenon DEF Opened
<1>5. /\ s.cpu_held \in [Classes -> Nat] /\ s.mem_held \in [Classes -> Nat]
      /\ Policy[c].cpu \in Nat /\ Policy[c].mem \in Nat
  BY BookTypes, CostTypes, Zenon
<1>6. /\ Sum(g.cpu_held, Classes) = Sum(s.cpu_held, Classes) + Policy[c].cpu
      /\ Sum(g.mem_held, Classes) = Sum(s.mem_held, Classes) + Policy[c].mem
  <2>1. /\ MovedSum(s.cpu_held, c, Policy[c].cpu, Classes)
        /\ MovedSum(s.mem_held, c, Policy[c].mem, Classes)
    BY <1>5, ClassesAssumption, SumMoved, Zenon
  <2> QED BY <1>4, <2>1, Zenon DEF MovedSum
<1> QED BY <1>1, <1>3, <1>4, <1>6, Zenon DEF GlobalTotals, OpenedPermit

\* The totals of the classes.
LEMMA OpenedClass ==
  ASSUME NEW s, NEW g, GovernedState(s), GovernedState(g), NEW i \in Ids, i \notin s.permits,
         NEW sp \in Specs, NEW c \in Classes, Opened(g, s, i, sp, c), ClassTotals(s)
  PROVE  ClassTotals(g)
<1> SUFFICES ASSUME NEW x \in Classes
             PROVE  /\ g.inflight[x] = charged(g, of_class(g, x), ones)
                    /\ g.cpu_held[x] = charged(g, of_class(g, x), cpu_of(g))
                    /\ g.mem_held[x] = charged(g, of_class(g, x), g.units)
  BY Zenon DEF ClassTotals
<1>1. OpenedPermit(g, s, i, sp, c)
  BY OpenedMoves, Zenon
<1>2. ClassMoves(g, s, i, x) /\ i \in g.permits /\ (i \in of_class(g, x) <=> x = c)
  BY <1>1, AllMove, Zenon DEF OpenedPermit, of_class
<1>3. /\ g.inflight = credit(s.inflight, c, 1)
      /\ g.cpu_held = credit(s.cpu_held, c, Policy[c].cpu)
      /\ g.mem_held = credit(s.mem_held, c, Policy[c].mem)
  BY Zenon DEF Opened
<1>4. /\ s.cpu_held \in [Classes -> Nat] /\ s.mem_held \in [Classes -> Nat]
      /\ s.inflight \in [Classes -> Nat] /\ 1 \in Nat
      /\ Policy[c].cpu \in Nat /\ Policy[c].mem \in Nat
  BY BookTypes, CostTypes, Zenon
<1>5. /\ s.inflight[x] = charged(s, of_class(s, x), ones)
      /\ s.cpu_held[x] = charged(s, of_class(s, x), cpu_of(s))
      /\ s.mem_held[x] = charged(s, of_class(s, x), s.units)
  BY Zenon DEF ClassTotals
<1>8. /\ Joined(g, of_class(g, x), ones, s, of_class(s, x), ones, i)
      /\ Joined(g, of_class(g, x), cpu_of(g), s, of_class(s, x), cpu_of(s), i)
      /\ Joined(g, of_class(g, x), g.units, s, of_class(s, x), s.units, i)
  BY <1>2, MovesHow, Zenon DEF ClassMoves
<1>6. CASE x = c
  <2>1. /\ charged(g, of_class(g, x), ones) = charged(s, of_class(s, x), ones) + ones[i]
        /\ charged(g, of_class(g, x), cpu_of(g)) = charged(s, of_class(s, x), cpu_of(s)) + cpu_of(g)[i]
        /\ charged(g, of_class(g, x), g.units) = charged(s, of_class(s, x), s.units) + g.units[i]
    BY <1>2, <1>6, <1>8, Zenon DEF Joined
  <2>2. /\ g.inflight[x] = s.inflight[x] + 1 /\ g.cpu_held[x] = s.cpu_held[x] + Policy[c].cpu
        /\ g.mem_held[x] = s.mem_held[x] + Policy[c].mem
    BY <1>3, <1>4, <1>6 DEF credit
  <2> QED BY <1>1, <1>5, <2>1, <2>2, OnesAt, Zenon DEF OpenedPermit
<1>7. CASE x # c
  <2>1. /\ charged(g, of_class(g, x), ones) = charged(s, of_class(s, x), ones)
        /\ charged(g, of_class(g, x), cpu_of(g)) = charged(s, of_class(s, x), cpu_of(s))
        /\ charged(g, of_class(g, x), g.units) = charged(s, of_class(s, x), s.units)
    BY <1>2, <1>7, <1>8, Zenon DEF Joined
  <2>2. /\ g.inflight[x] = s.inflight[x] /\ g.cpu_held[x] = s.cpu_held[x]
        /\ g.mem_held[x] = s.mem_held[x]
    BY <1>3, <1>4, <1>7 DEF credit
  <2> QED BY <1>5, <2>1, <2>2, Zenon
<1> QED BY <1>6, <1>7

\* The phases are finitely many, and a reserved permit has not started.
LEMMA PhaseFacts ==
  /\ IsFiniteSet(Phases) /\ "DispatchReserved" \in Phases /\ ~has_started("DispatchReserved")
<1>1. Phases = (({"DispatchReserved"} \cup {"Accepted"}) \cup {"Running"}) \cup {"CleanupPending"}
  BY DEF Phases
<1>2. /\ IsFiniteSet({"DispatchReserved"}) /\ IsFiniteSet({"Accepted"})
      /\ IsFiniteSet({"Running"}) /\ IsFiniteSet({"CleanupPending"})
  BY FS_Singleton
<1>3. IsFiniteSet({"DispatchReserved"} \cup {"Accepted"})
  BY <1>2, FS_Union
<1>5. IsFiniteSet(({"DispatchReserved"} \cup {"Accepted"}) \cup {"Running"})
  BY <1>2, <1>3, FS_Union
<1>6. IsFiniteSet((({"DispatchReserved"} \cup {"Accepted"}) \cup {"Running"}) \cup {"CleanupPending"})
  BY <1>2, <1>5, FS_Union
<1>4. "DispatchReserved" \in Phases /\ ~has_started("DispatchReserved")
  BY DEF Phases, has_started
<1> QED BY <1>1, <1>4, <1>6, Zenon

\* What PhaseTotals says of one class.
PhasesOf(s, c) ==
  /\ \A p \in Phases : s.gauge[c][p] = charged(s, in_phase(s, c, p), ones)
  /\ s.inflight[c] = Sum(s.gauge[c], Phases)
  /\ s.admitted[c] = s.inflight[c] + s.terminated[c]
  /\ s.started[c] + charged(s, waiting(s, c), ones) <= s.admitted[c]
  /\ charged(s, begun(s, c), ones) <= s.started[c]

\* The phase gauges and lifetime counts.
LEMMA OpenedPhases ==
  ASSUME NEW s, NEW g, GovernedState(s), GovernedState(g), NEW i \in Ids, i \notin s.permits,
         NEW sp \in Specs, NEW c \in Classes, Opened(g, s, i, sp, c), PhaseTotals(s)
  PROVE  PhaseTotals(g)
<1> SUFFICES ASSUME NEW x \in Classes PROVE PhasesOf(g, x)
  BY Zenon DEF PhaseTotals, PhasesOf
<1>1. OpenedPermit(g, s, i, sp, c)
  BY OpenedMoves, Zenon
<1>2. PhaseMoves(g, s, i, x) /\ i \in g.permits /\ PhasesOf(s, x)
  BY <1>1, AllMove, Zenon DEF OpenedPermit, PhaseTotals, PhasesOf
<1>3. /\ g.inflight = credit(s.inflight, c, 1) /\ g.admitted = credit(s.admitted, c, 1)
      /\ g.started = s.started /\ g.terminated = s.terminated
      /\ g.gauge = put(s.gauge, c, credit(s.gauge[c], "DispatchReserved", 1))
  BY Zenon DEF Opened
<1>4. /\ s.inflight \in [Classes -> Nat] /\ s.admitted \in [Classes -> Nat]
      /\ s.started \in [Classes -> Nat] /\ s.terminated \in [Classes -> Nat]
      /\ s.gauge \in [Classes -> [Phases -> Nat]] /\ 1 \in Nat
      /\ s.gauge[c] \in [Phases -> Nat]
  BY BookTypes, Zenon
<1>5. /\ i \in waiting(g, x) <=> x = c
      /\ i \notin begun(g, x)
      /\ \A p \in Phases : i \in in_phase(g, x, p) <=> x = c /\ p = "DispatchReserved"
  BY <1>1, PhaseFacts, Zenon DEF OpenedPermit, waiting, begun, in_phase
<1>6. /\ Joined(g, waiting(g, x), ones, s, waiting(s, x), ones, i)
      /\ Joined(g, begun(g, x), ones, s, begun(s, x), ones, i)
      /\ \A p \in Phases : Joined(g, in_phase(g, x, p), ones, s, in_phase(s, x, p), ones, i)
  BY <1>2, MovesHow, Zenon DEF PhaseMoves
<1> DEFINE wg == charged(g, waiting(g, x), ones)
           ws == charged(s, waiting(s, x), ones)
           bg == charged(g, begun(g, x), ones)
           bs == charged(s, begun(s, x), ones)
<1>7. /\ bg = bs /\ ws \in Nat /\ bs \in Nat
      /\ wg = ws + (IF x = c THEN 1 ELSE 0)
  <2>1. x = c => wg = ws + ones[i]
    BY <1>5, <1>6, Zenon DEF Joined
  <2>2. /\ x # c => wg = ws
        /\ bg = bs /\ ws \in Nat /\ bs \in Nat
    BY <1>5, <1>6, Zenon DEF Joined
  <2> HIDE DEF wg, ws, bg, bs
  <2> QED BY <2>1, <2>2, OnesAt
<1>8. /\ g.inflight[x] = s.inflight[x] + (IF x = c THEN 1 ELSE 0)
      /\ g.admitted[x] = s.admitted[x] + (IF x = c THEN 1 ELSE 0)
      /\ g.started[x] = s.started[x] /\ g.terminated[x] = s.terminated[x]
      /\ s.inflight[x] \in Nat /\ s.admitted[x] \in Nat /\ s.started[x] \in Nat
      /\ s.terminated[x] \in Nat
  BY <1>3, <1>4 DEF credit
<1>9. /\ x = c => g.gauge[x] = credit(s.gauge[x], "DispatchReserved", 1)
      /\ x # c => g.gauge[x] = s.gauge[x]
  BY <1>3, <1>4, Zenon DEF put
<1>10. ASSUME NEW p \in Phases PROVE g.gauge[x][p] = charged(g, in_phase(g, x, p), ones)
  <2>1. s.gauge[x][p] = charged(s, in_phase(s, x, p), ones)
    BY <1>2, Zenon DEF PhasesOf
  <2>2. CASE x = c /\ p = "DispatchReserved"
    <3>1. charged(g, in_phase(g, x, p), ones) = charged(s, in_phase(s, x, p), ones) + ones[i]
      BY <1>5, <1>6, <2>2, Zenon DEF Joined
    <3>2. g.gauge[x][p] = s.gauge[x][p] + 1
      BY <1>4, <1>9, <2>2 DEF credit
    <3> QED BY <2>1, <3>1, <3>2, OnesAt, Zenon
  <2>3. CASE ~(x = c /\ p = "DispatchReserved")
    <3>1. charged(g, in_phase(g, x, p), ones) = charged(s, in_phase(s, x, p), ones)
      BY <1>5, <1>6, <2>3, Zenon DEF Joined
    <3>2. g.gauge[x][p] = s.gauge[x][p]
      BY <1>4, <1>9, <2>3 DEF credit
    <3> QED BY <2>1, <3>1, <3>2, Zenon
  <2> QED BY <2>2, <2>3
<1>11. g.inflight[x] = Sum(g.gauge[x], Phases)
  <2>1. s.inflight[x] = Sum(s.gauge[x], Phases)
    BY <1>2, Zenon DEF PhasesOf
  <2>2. CASE x = c
    <3>1. MovedSum(s.gauge[x], "DispatchReserved", 1, Phases)
      BY <1>4, <2>2, PhaseFacts, SumMoved, Zenon
    <3>2. Sum(g.gauge[x], Phases) = Sum(s.gauge[x], Phases) + 1
      BY <1>9, <2>2, <3>1, Zenon DEF MovedSum
    <3> QED BY <1>8, <2>1, <2>2, <3>2
  <2>3. CASE x # c
    BY <1>8, <1>9, <2>1, <2>3
  <2> QED BY <2>2, <2>3
<1>12. /\ s.admitted[x] = s.inflight[x] + s.terminated[x]
       /\ s.started[x] + ws <= s.admitted[x] /\ bs <= s.started[x]
  BY <1>2, Zenon DEF PhasesOf
<1> HIDE DEF wg, ws, bg, bs
<1>13. /\ g.admitted[x] = g.inflight[x] + g.terminated[x]
       /\ g.started[x] + wg <= g.admitted[x] /\ bg <= g.started[x]
  BY <1>7, <1>8, <1>12
<1> QED BY <1>10, <1>11, <1>13, Zenon DEF PhasesOf, wg, bg

\* The occupancy of the pools.
LEMMA OpenedPools ==
  ASSUME NEW s, NEW g, GovernedState(s), GovernedState(g), NEW i \in Ids, i \notin s.permits,
         NEW sp \in Specs, NEW c \in Classes, Opened(g, s, i, sp, c), PoolTotals(s)
  PROVE  PoolTotals(g)
<1> SUFFICES ASSUME NEW k \in Caps PROVE g.in_use[k] = charged(g, of_pool(g, k), ones)
  BY Zenon DEF PoolTotals
<1>1. OpenedPermit(g, s, i, sp, c)
  BY OpenedMoves, Zenon
<1>2. PoolMoves(g, s, i, k) /\ i \in g.permits /\ (i \in of_pool(g, k) <=> k \in sp.caps)
  BY <1>1, AllMove, Zenon DEF OpenedPermit, of_pool
<1>3. Joined(g, of_pool(g, k), ones, s, of_pool(s, k), ones, i)
  BY <1>2, MovesHow, Zenon DEF PoolMoves
<1>4. /\ k \in sp.caps => charged(g, of_pool(g, k), ones) = charged(s, of_pool(s, k), ones) + ones[i]
      /\ k \notin sp.caps => charged(g, of_pool(g, k), ones) = charged(s, of_pool(s, k), ones)
      /\ charged(s, of_pool(s, k), ones) \in Nat
  BY <1>2, <1>3, Zenon DEF Joined
<1>5. s.in_use[k] = charged(s, of_pool(s, k), ones)
  BY Zenon DEF PoolTotals
<1>6. g.in_use[k] = s.in_use[k] + (IF k \in sp.caps THEN 1 ELSE 0)
  BY Zenon DEF Opened
<1> QED BY <1>4, <1>5, <1>6, OnesAt

\* What RootTotals says of one root.
RootOf(s, r) ==
  /\ s.child_inflight[r] = charged(s, of_root(s, r), ones)
  /\ s.root_cpu[r] = charged(s, of_root(s, r), cpu_of(s))
  /\ s.root_mem[r] = charged(s, of_root(s, r), s.units)

\* The attribution to the roots.
LEMMA OpenedRoots ==
  ASSUME NEW s, NEW g, GovernedState(s), GovernedState(g), NEW i \in Ids, i \notin s.permits,
         NEW sp \in Specs, NEW c \in Classes, Opened(g, s, i, sp, c), RootTotals(s)
  PROVE  RootTotals(g)
<1> SUFFICES ASSUME NEW r \in Roots PROVE RootOf(g, r)
  BY Zenon DEF RootTotals, RootOf
<1>1. OpenedPermit(g, s, i, sp, c)
  BY OpenedMoves, Zenon
<1>2. /\ RootMoves(g, s, i, r) /\ i \in g.permits /\ RootOf(s, r)
      /\ i \in of_root(g, r) <=> sp.child /\ r = sp.root
  BY <1>1, AllMove, Zenon DEF OpenedPermit, of_root, RootTotals, RootOf
<1>3. /\ Joined(g, of_root(g, r), ones, s, of_root(s, r), ones, i)
      /\ Joined(g, of_root(g, r), cpu_of(g), s, of_root(s, r), cpu_of(s), i)
      /\ Joined(g, of_root(g, r), g.units, s, of_root(s, r), s.units, i)
  BY <1>2, MovesHow, Zenon DEF RootMoves
<1>4. /\ s.child_inflight \in [Roots -> Nat] /\ s.root_cpu \in [Roots -> Nat]
      /\ s.root_mem \in [Roots -> Nat] /\ sp.root \in Roots
  BY BookTypes, RootType, Zenon
<1>5. /\ g.child_inflight = (IF sp.child THEN credit(s.child_inflight, sp.root, 1)
                             ELSE s.child_inflight)
      /\ g.root_cpu = (IF sp.child THEN credit(s.root_cpu, sp.root, Policy[c].cpu) ELSE s.root_cpu)
      /\ g.root_mem = (IF sp.child THEN credit(s.root_mem, sp.root, Policy[c].mem) ELSE s.root_mem)
  BY Zenon DEF Opened
<1>6. CASE sp.child /\ r = sp.root
  <2>1. /\ charged(g, of_root(g, r), ones) = charged(s, of_root(s, r), ones) + ones[i]
        /\ charged(g, of_root(g, r), cpu_of(g)) = charged(s, of_root(s, r), cpu_of(s)) + cpu_of(g)[i]
        /\ charged(g, of_root(g, r), g.units) = charged(s, of_root(s, r), s.units) + g.units[i]
    BY <1>2, <1>3, <1>6, Zenon DEF Joined
  <2>2. /\ g.child_inflight[r] = s.child_inflight[r] + 1
        /\ g.root_cpu[r] = s.root_cpu[r] + Policy[c].cpu
        /\ g.root_mem[r] = s.root_mem[r] + Policy[c].mem
    BY <1>4, <1>5, <1>6 DEF credit
  <2> QED BY <1>1, <1>2, <2>1, <2>2, OnesAt, Zenon DEF OpenedPermit, RootOf
<1>7. CASE ~(sp.child /\ r = sp.root)
  <2>1. /\ charged(g, of_root(g, r), ones) = charged(s, of_root(s, r), ones)
        /\ charged(g, of_root(g, r), cpu_of(g)) = charged(s, of_root(s, r), cpu_of(s))
        /\ charged(g, of_root(g, r), g.units) = charged(s, of_root(s, r), s.units)
    BY <1>2, <1>3, <1>7, Zenon DEF Joined
  <2>2. /\ g.child_inflight[r] = s.child_inflight[r]
        /\ g.root_cpu[r] = s.root_cpu[r] /\ g.root_mem[r] = s.root_mem[r]
    BY <1>4, <1>5, <1>7 DEF credit
  <2> QED BY <1>2, <2>1, <2>2, Zenon DEF RootOf
<1> QED BY <1>6, <1>7

\* Opening a permit keeps the books.
LEMMA OpenedLedger ==
  ASSUME NEW s, NEW g, GovernedState(s), GovernedState(g), NEW i \in Ids, i \notin s.permits,
         NEW sp \in Specs, NEW c \in Classes, Opened(g, s, i, sp, c), LedgerSound(s)
  PROVE  LedgerSound(g)
BY OpenedGlobal, OpenedClass, OpenedPhases, OpenedPools, OpenedRoots, Zenon DEF LedgerSound

-----------------------------------------------------------------------------
\* A permit ends

\* The permit that ends and what it was charged.
EndedPermit(g, s, i) ==
  /\ Moved(g, s, i) /\ i \notin g.permits /\ i \in Ids
  /\ s.class[i] \in Classes /\ s.spec[i] \in Specs /\ s.phase[i] \in Phases
  /\ s.units[i] \in Nat /\ cpu_of(s)[i] = Policy[s.class[i]].cpu
  /\ Policy[s.class[i]].cpu \in Nat

\* Ending permit i changes no other.
LEMMA EndedMoves ==
  ASSUME NEW s, NEW g, GovernedState(s), GovernedState(g), NEW i \in s.permits, Ended(g, s, i)
  PROVE  EndedPermit(g, s, i)
<1>1. /\ s.permits \subseteq Ids /\ s.class \in [Ids -> Classes] /\ s.spec \in [Ids -> Specs]
      /\ s.phase \in [Ids -> Phases] /\ s.units \in [Ids -> Nat]
  BY SummandTypes, Zenon
<1>2. /\ g.spec = put(s.spec, i, AnySpec) /\ g.class = put(s.class, i, AnyClass)
      /\ g.permits = s.permits \ {i} /\ g.phase = put(s.phase, i, "DispatchReserved")
      /\ g.units = put(s.units, i, 0)
  BY Zenon DEF Ended
<1>3. Moved(g, s, i)
  <2>1. \A j \in s.permits \ {i} :
          /\ g.spec[j] = s.spec[j] /\ g.class[j] = s.class[j]
          /\ g.phase[j] = s.phase[j] /\ g.units[j] = s.units[j]
    BY <1>1, <1>2 DEF put
  <2>2. g.permits \ {i} = s.permits \ {i}
    BY <1>2
  <2> QED BY <2>1, <2>2, Zenon DEF Moved
<1>4. /\ i \in Ids /\ s.class[i] \in Classes /\ s.spec[i] \in Specs /\ s.phase[i] \in Phases
      /\ s.units[i] \in Nat /\ i \notin g.permits
  BY <1>1, <1>2
<1>5. Policy[s.class[i]].cpu \in Nat
  BY <1>4, CostTypes, Zenon
<1> QED BY <1>3, <1>4, <1>5, Zenon DEF EndedPermit, cpu_of

\* A refund of what was charged is exact.
LEMMA ExactSub ==
  ASSUME NEW a \in Nat, NEW b \in Nat, b <= a
  PROVE  saturating_sub(a, b) = a - b
BY DEF saturating_sub

\* The totals of the classes after a permit ended.
LEMMA EndedClass ==
  ASSUME NEW s, NEW g, GovernedState(s), GovernedState(g), NEW i \in s.permits, Ended(g, s, i),
         ClassTotals(s)
  PROVE  ClassTotals(g)
<1> DEFINE c == s.class[i]
<1> SUFFICES ASSUME NEW x \in Classes
             PROVE  /\ g.inflight[x] = charged(g, of_class(g, x), ones)
                    /\ g.cpu_held[x] = charged(g, of_class(g, x), cpu_of(g))
                    /\ g.mem_held[x] = charged(g, of_class(g, x), g.units)
  BY Zenon DEF ClassTotals
<1>1. EndedPermit(g, s, i)
  BY EndedMoves, Zenon
<1>2. ClassMoves(g, s, i, x) /\ i \notin g.permits /\ (i \in of_class(s, x) <=> x = c)
  BY <1>1, AllMove, Zenon DEF EndedPermit, of_class
<1>3. /\ g.inflight = debit(s.inflight, c, 1)
      /\ g.cpu_held = debit(s.cpu_held, c, Policy[c].cpu)
      /\ g.mem_held = debit(s.mem_held, c, s.units[i])
  BY Zenon DEF Ended
<1>4. /\ s.cpu_held \in [Classes -> Nat] /\ s.mem_held \in [Classes -> Nat]
      /\ s.inflight \in [Classes -> Nat] /\ c \in Classes /\ ones[i] = 1
      /\ Policy[c].cpu \in Nat /\ s.units[i] \in Nat /\ cpu_of(s)[i] = Policy[c].cpu
  BY <1>1, BookTypes, OnesAt, Zenon DEF EndedPermit
<1>5. /\ s.inflight[x] = charged(s, of_class(s, x), ones)
      /\ s.cpu_held[x] = charged(s, of_class(s, x), cpu_of(s))
      /\ s.mem_held[x] = charged(s, of_class(s, x), s.units)
  BY Zenon DEF ClassTotals
<1>6. /\ Left(g, of_class(g, x), ones, s, of_class(s, x), ones, i)
      /\ Left(g, of_class(g, x), cpu_of(g), s, of_class(s, x), cpu_of(s), i)
      /\ Left(g, of_class(g, x), g.units, s, of_class(s, x), s.units, i)
  BY <1>2, MovesHow, Zenon DEF ClassMoves
<1> HIDE DEF c
<1>7. CASE x = c
  <2>1. /\ s.inflight[x] \in Nat /\ 1 <= s.inflight[x]
        /\ charged(g, of_class(g, x), ones) = s.inflight[x] - 1
        /\ s.cpu_held[x] \in Nat /\ Policy[c].cpu <= s.cpu_held[x]
        /\ charged(g, of_class(g, x), cpu_of(g)) = s.cpu_held[x] - Policy[c].cpu
        /\ s.mem_held[x] \in Nat /\ s.units[i] <= s.mem_held[x]
        /\ charged(g, of_class(g, x), g.units) = s.mem_held[x] - s.units[i]
    BY <1>2, <1>4, <1>5, <1>6, <1>7, Zenon DEF Left
  <2>2. /\ g.inflight[x] = saturating_sub(s.inflight[x], 1)
        /\ g.cpu_held[x] = saturating_sub(s.cpu_held[x], Policy[c].cpu)
        /\ g.mem_held[x] = saturating_sub(s.mem_held[x], s.units[i])
    BY <1>3, <1>4, <1>7, Zenon DEF debit
  <2> QED BY <1>4, <2>1, <2>2, ExactSub
<1>8. CASE x # c
  <2>1. /\ charged(g, of_class(g, x), ones) = charged(s, of_class(s, x), ones)
        /\ charged(g, of_class(g, x), cpu_of(g)) = charged(s, of_class(s, x), cpu_of(s))
        /\ charged(g, of_class(g, x), g.units) = charged(s, of_class(s, x), s.units)
    BY <1>2, <1>6, <1>8, Zenon DEF Left
  <2>2. /\ g.inflight[x] = s.inflight[x] /\ g.cpu_held[x] = s.cpu_held[x]
        /\ g.mem_held[x] = s.mem_held[x]
    BY <1>3, <1>4, <1>8, Zenon DEF debit
  <2> QED BY <1>5, <2>1, <2>2, Zenon
<1> QED BY <1>7, <1>8

\* The totals over everything.
LEMMA EndedGlobal ==
  ASSUME NEW s, NEW g, GovernedState(s), GovernedState(g), NEW i \in s.permits, Ended(g, s, i),
         GlobalTotals(s), ClassTotals(s)
  PROVE  GlobalTotals(g)
<1> DEFINE c == s.class[i]
<1>1. EndedPermit(g, s, i)
  BY EndedMoves, Zenon
<1>2. GlobalMoves(g, s, i) /\ ClassMoves(g, s, i, c) /\ i \notin g.permits /\ i \in of_class(s, c)
  BY <1>1, AllMove, Zenon DEF EndedPermit, of_class
<1>3. /\ g.cpu = saturating_sub(s.cpu, Policy[c].cpu)
      /\ g.mem = saturating_sub(s.mem, s.units[i])
      /\ g.cpu_held = debit(s.cpu_held, c, Policy[c].cpu)
      /\ g.mem_held = debit(s.mem_held, c, s.units[i])
  BY Zenon DEF Ended
<1>4. /\ s.cpu_held \in [Classes -> Nat] /\ s.mem_held \in [Classes -> Nat] /\ c \in Classes
      /\ Policy[c].cpu \in Nat /\ s.units[i] \in Nat /\ cpu_of(s)[i] = Policy[c].cpu /\ i \in Ids
  BY <1>1, BookTypes, Zenon DEF EndedPermit
<1>5. /\ Left(g, Ids, cpu_of(g), s, Ids, cpu_of(s), i)
      /\ Left(g, Ids, g.units, s, Ids, s.units, i)
      /\ Left(g, of_class(g, c), cpu_of(g), s, of_class(s, c), cpu_of(s), i)
      /\ Left(g, of_class(g, c), g.units, s, of_class(s, c), s.units, i)
  BY <1>2, MovesHow, Zenon DEF GlobalMoves, ClassMoves
<1>6. /\ s.cpu_held[c] = charged(s, of_class(s, c), cpu_of(s))
      /\ s.mem_held[c] = charged(s, of_class(s, c), s.units)
      /\ s.cpu = charged(s, Ids, cpu_of(s)) /\ s.mem = charged(s, Ids, s.units)
  BY <1>4, Zenon DEF ClassTotals, GlobalTotals
<1> HIDE DEF c
<1>7. /\ s.cpu \in Nat /\ Policy[c].cpu <= s.cpu
      /\ charged(g, Ids, cpu_of(g)) = s.cpu - Policy[c].cpu
      /\ s.mem \in Nat /\ s.units[i] <= s.mem
      /\ charged(g, Ids, g.units) = s.mem - s.units[i]
      /\ Policy[c].cpu <= s.cpu_held[c] /\ s.units[i] <= s.mem_held[c]
  BY <1>2, <1>4, <1>5, <1>6, Zenon DEF Left
<1>8. g.cpu = s.cpu - Policy[c].cpu /\ g.mem = s.mem - s.units[i]
  BY <1>3, <1>4, <1>7, ExactSub
<1>9. /\ MovedSum(s.cpu_held, c, Policy[c].cpu, Classes)
      /\ MovedSum(s.mem_held, c, s.units[i], Classes)
  BY <1>4, ClassesAssumption, SumMoved, Zenon
<1>10. s.cpu = Sum(s.cpu_held, Classes) /\ s.mem = Sum(s.mem_held, Classes)
  BY Zenon DEF GlobalTotals
<1>11. g.cpu = Sum(g.cpu_held, Classes) /\ g.mem = Sum(g.mem_held, Classes)
  BY <1>3, <1>7, <1>8, <1>9, <1>10, Zenon DEF MovedSum
<1> QED BY <1>7, <1>8, <1>11, Zenon DEF GlobalTotals

\* The phase gauges and lifetime counts.
LEMMA EndedPhases ==
  ASSUME NEW s, NEW g, GovernedState(s), GovernedState(g), NEW i \in s.permits, Ended(g, s, i),
         PhaseTotals(s)
  PROVE  PhaseTotals(g)
<1> DEFINE c == s.class[i]
           q == s.phase[i]
<1> SUFFICES ASSUME NEW x \in Classes PROVE PhasesOf(g, x)
  BY Zenon DEF PhaseTotals, PhasesOf
<1>1. EndedPermit(g, s, i)
  BY EndedMoves, Zenon
<1>2. PhaseMoves(g, s, i, x) /\ i \notin g.permits /\ PhasesOf(s, x)
  BY <1>1, AllMove, Zenon DEF EndedPermit, PhaseTotals, PhasesOf
<1>3. /\ g.inflight = debit(s.inflight, c, 1) /\ g.terminated = credit(s.terminated, c, 1)
      /\ g.started = s.started /\ g.admitted = s.admitted
      /\ g.gauge = put(s.gauge, c, debit(s.gauge[c], q, 1))
  BY Zenon DEF Ended
<1>4. /\ s.inflight \in [Classes -> Nat] /\ s.admitted \in [Classes -> Nat]
      /\ s.started \in [Classes -> Nat] /\ s.terminated \in [Classes -> Nat]
      /\ s.gauge \in [Classes -> [Phases -> Nat]] /\ 1 \in Nat /\ c \in Classes /\ q \in Phases
      /\ i \in Ids /\ ones[i] = 1
  BY <1>1, BookTypes, OnesAt, Zenon DEF EndedPermit
<1>5. /\ i \in waiting(s, x) => x = c
      /\ i \in begun(s, x) => x = c
      /\ \A p \in Phases : i \in in_phase(s, x, p) <=> x = c /\ p = q
  BY <1>4, Zenon DEF waiting, begun, in_phase
<1>6. /\ Left(g, waiting(g, x), ones, s, waiting(s, x), ones, i)
      /\ Left(g, begun(g, x), ones, s, begun(s, x), ones, i)
      /\ \A p \in Phases : Left(g, in_phase(g, x, p), ones, s, in_phase(s, x, p), ones, i)
  BY <1>2, MovesHow, Zenon DEF PhaseMoves
<1> HIDE DEF c, q
<1> DEFINE wg == charged(g, waiting(g, x), ones)
           ws == charged(s, waiting(s, x), ones)
           bg == charged(g, begun(g, x), ones)
           bs == charged(s, begun(s, x), ones)
<1>7. wg \in Nat /\ ws \in Nat /\ bg \in Nat /\ bs \in Nat /\ wg <= ws /\ bg <= bs
  <2>1. /\ wg = ws - ones[i] \/ wg = ws
        /\ bg = bs - ones[i] \/ bg = bs
        /\ wg \in Nat /\ ws \in Nat /\ bg \in Nat /\ bs \in Nat
    BY <1>6, Zenon DEF Left
  <2> HIDE DEF wg, ws, bg, bs
  <2> QED BY <1>4, <2>1
<1>8. \A p \in Phases : s.gauge[x][p] = charged(s, in_phase(s, x, p), ones)
  BY <1>2, Zenon DEF PhasesOf
<1>9. x = c => 1 <= s.gauge[x][q]
  <2>1. x = c => ones[i] <= charged(s, in_phase(s, x, q), ones)
    BY <1>4, <1>5, <1>6, Zenon DEF Left
  <2> QED BY <1>4, <1>8, <2>1, Zenon
<1>10. /\ x = c => g.gauge[x] = debit(s.gauge[x], q, 1)
       /\ x # c => g.gauge[x] = s.gauge[x]
       /\ s.gauge[x] \in [Phases -> Nat]
  BY <1>3, <1>4, Zenon DEF put
<1>11. ASSUME NEW p \in Phases PROVE g.gauge[x][p] = charged(g, in_phase(g, x, p), ones)
  <2>1. CASE x = c /\ p = q
    <3>1. charged(g, in_phase(g, x, p), ones) = charged(s, in_phase(s, x, p), ones) - ones[i]
      BY <1>5, <1>6, <2>1, Zenon DEF Left
    <3>2. g.gauge[x][p] = saturating_sub(s.gauge[x][p], 1) /\ s.gauge[x][p] \in Nat
      BY <1>10, <2>1, Zenon DEF debit
    <3> QED BY <1>4, <1>8, <1>9, <2>1, <3>1, <3>2 DEF saturating_sub
  <2>2. CASE ~(x = c /\ p = q)
    <3>1. charged(g, in_phase(g, x, p), ones) = charged(s, in_phase(s, x, p), ones)
      BY <1>5, <1>6, <2>2, Zenon DEF Left
    <3>2. g.gauge[x][p] = s.gauge[x][p]
      BY <1>10, <2>2, Zenon DEF debit
    <3> QED BY <1>8, <3>1, <3>2, Zenon
  <2> QED BY <2>1, <2>2
<1>12. /\ s.inflight[x] = Sum(s.gauge[x], Phases)
       /\ s.admitted[x] = s.inflight[x] + s.terminated[x]
       /\ s.started[x] + ws <= s.admitted[x] /\ bs <= s.started[x]
  BY <1>2, Zenon DEF PhasesOf
<1>13. x = c => 1 <= s.inflight[x] /\ Sum(g.gauge[x], Phases) = s.inflight[x] - 1
  <2>1. x = c => MovedSum(s.gauge[x], q, 1, Phases)
    BY <1>4, <1>10, PhaseFacts, SumMoved, Zenon
  <2> QED BY <1>9, <1>10, <1>12, <2>1, Zenon DEF MovedSum
<1>14. /\ g.inflight[x] = IF x = c THEN saturating_sub(s.inflight[x], 1) ELSE s.inflight[x]
       /\ g.terminated[x] = IF x = c THEN s.terminated[x] + 1 ELSE s.terminated[x]
       /\ g.started[x] = s.started[x] /\ g.admitted[x] = s.admitted[x]
       /\ s.inflight[x] \in Nat /\ s.terminated[x] \in Nat /\ s.started[x] \in Nat
       /\ s.admitted[x] \in Nat
  BY <1>3, <1>4, Zenon DEF debit, credit
<1>15. /\ g.inflight[x] = Sum(g.gauge[x], Phases)
       /\ g.admitted[x] = g.inflight[x] + g.terminated[x]
  <2>1. CASE x = c
    BY <1>12, <1>13, <1>14, <2>1 DEF saturating_sub
  <2>2. CASE x # c
    BY <1>10, <1>12, <1>14, <2>2, Zenon
  <2> QED BY <2>1, <2>2
<1> HIDE DEF wg, ws, bg, bs
<1>16. g.started[x] + wg <= g.admitted[x] /\ bg <= g.started[x]
  BY <1>7, <1>12, <1>14
<1> QED BY <1>11, <1>15, <1>16, Zenon DEF PhasesOf, wg, bg

\* The occupancy of the pools.
LEMMA EndedPools ==
  ASSUME NEW s, NEW g, GovernedState(s), GovernedState(g), NEW i \in s.permits, Ended(g, s, i),
         PoolTotals(s)
  PROVE  PoolTotals(g)
<1> SUFFICES ASSUME NEW k \in Caps PROVE g.in_use[k] = charged(g, of_pool(g, k), ones)
  BY Zenon DEF PoolTotals
<1>1. EndedPermit(g, s, i)
  BY EndedMoves, Zenon
<1>2. PoolMoves(g, s, i, k) /\ i \notin g.permits /\ (i \in of_pool(s, k) <=> k \in s.spec[i].caps)
  BY <1>1, AllMove, Zenon DEF EndedPermit, of_pool
<1>3. Left(g, of_pool(g, k), ones, s, of_pool(s, k), ones, i)
  BY <1>2, MovesHow, Zenon DEF PoolMoves
<1>4. s.in_use[k] = charged(s, of_pool(s, k), ones) /\ ones[i] = 1
  BY <1>1, OnesAt, Zenon DEF PoolTotals, EndedPermit
<1>5. /\ k \in s.spec[i].caps => /\ charged(g, of_pool(g, k), ones) = s.in_use[k] - 1
                                 /\ 1 <= s.in_use[k]
      /\ k \notin s.spec[i].caps => charged(g, of_pool(g, k), ones) = s.in_use[k]
      /\ s.in_use[k] \in Nat
  BY <1>2, <1>3, <1>4, Zenon DEF Left
<1>6. g.in_use[k] = saturating_sub(s.in_use[k], IF k \in s.spec[i].caps THEN 1 ELSE 0)
  BY Zenon DEF Ended
<1> QED BY <1>5, <1>6 DEF saturating_sub

\* Where no permit is counted nothing is charged.
LEMMA NoneCounted ==
  ASSUME NEW s, NEW S, NEW h \in [Ids -> Nat], charged(s, S, ones) = 0
  PROVE  charged(s, S, h) = 0
<1> DEFINE v == live(s, S, ones)
           w == live(s, S, h)
<1>1. \A i \in Ids : v[i] \in Nat /\ w[i] \in Nat /\ (v[i] = 0 => w[i] = 0)
  BY DEF live, ones
<1>2. Sum(v, Ids) = 0
  BY DEF charged
<1> HIDE DEF v, w
<1>3. \A i \in Ids : v[i] = 0
  BY <1>1, <1>2, IdsFinite, SumZero
<1>4. Sum(w, Ids) = 0
  BY <1>1, <1>3, IdsFinite, SumZero
<1> QED BY <1>4 DEF charged, w

\* The attribution to the roots: the totals of a root whose last child ends are set to
\* zero, which is what is left of them.
LEMMA EndedRoots ==
  ASSUME NEW s, NEW g, GovernedState(s), GovernedState(g), NEW i \in s.permits, Ended(g, s, i),
         RootTotals(s)
  PROVE  RootTotals(g)
<1> DEFINE sp == s.spec[i]
           c == s.class[i]
<1> SUFFICES ASSUME NEW r \in Roots PROVE RootOf(g, r)
  BY Zenon DEF RootTotals, RootOf
<1>1. EndedPermit(g, s, i)
  BY EndedMoves, Zenon
<1>2. /\ RootMoves(g, s, i, r) /\ i \notin g.permits /\ RootOf(s, r)
      /\ i \in of_root(s, r) <=> sp.child /\ r = sp.root
  BY <1>1, AllMove, Zenon DEF EndedPermit, of_root, RootTotals, RootOf
<1>3. /\ Left(g, of_root(g, r), ones, s, of_root(s, r), ones, i)
      /\ Left(g, of_root(g, r), cpu_of(g), s, of_root(s, r), cpu_of(s), i)
      /\ Left(g, of_root(g, r), g.units, s, of_root(s, r), s.units, i)
  BY <1>2, MovesHow, Zenon DEF RootMoves
<1>4. /\ s.child_inflight \in [Roots -> Nat] /\ s.root_cpu \in [Roots -> Nat]
      /\ s.root_mem \in [Roots -> Nat] /\ sp.root \in Roots /\ sp.child \in BOOLEAN
      /\ Policy[c].cpu \in Nat /\ s.units[i] \in Nat /\ cpu_of(s)[i] = Policy[c].cpu
      /\ ones[i] = 1
  BY <1>1, BookTypes, RootType, OnesAt, Zenon DEF EndedPermit
<1>5. /\ g.child_inflight = given_back(s, sp, s.child_inflight, 1)
      /\ g.root_cpu = given_back(s, sp, s.root_cpu, Policy[c].cpu)
      /\ g.root_mem = given_back(s, sp, s.root_mem, s.units[i])
  BY Zenon DEF Ended
<1> HIDE DEF sp, c
<1>6. CASE sp.child /\ r = sp.root
  <2>1. /\ s.child_inflight[r] \in Nat /\ 1 <= s.child_inflight[r]
        /\ charged(g, of_root(g, r), ones) = s.child_inflight[r] - 1
        /\ s.root_cpu[r] \in Nat /\ Policy[c].cpu <= s.root_cpu[r]
        /\ charged(g, of_root(g, r), cpu_of(g)) = s.root_cpu[r] - Policy[c].cpu
        /\ s.root_mem[r] \in Nat /\ s.units[i] <= s.root_mem[r]
        /\ charged(g, of_root(g, r), g.units) = s.root_mem[r] - s.units[i]
    BY <1>2, <1>3, <1>4, <1>6, Zenon DEF Left, RootOf
  <2>2. CASE s.child_inflight[r] <= 1
    <3>1. g.child_inflight[r] = 0 /\ g.root_cpu[r] = 0 /\ g.root_mem[r] = 0
      BY <1>4, <1>5, <1>6, <2>2 DEF given_back, put
    <3>2. charged(g, of_root(g, r), ones) = 0
      BY <2>1, <2>2
    <3>3. cpu_of(g) \in [Ids -> Nat] /\ g.units \in [Ids -> Nat]
      BY SummandTypes, Zenon
    <3>4. charged(g, of_root(g, r), cpu_of(g)) = 0 /\ charged(g, of_root(g, r), g.units) = 0
      BY <3>2, <3>3, NoneCounted, Zenon
    <3> QED BY <3>1, <3>2, <3>4, Zenon DEF RootOf
  <2>3. CASE ~(s.child_inflight[r] <= 1)
    <3>1. /\ g.child_inflight[r] = saturating_sub(s.child_inflight[r], 1)
          /\ g.root_cpu[r] = saturating_sub(s.root_cpu[r], Policy[c].cpu)
          /\ g.root_mem[r] = saturating_sub(s.root_mem[r], s.units[i])
      BY <1>4, <1>5, <1>6, <2>3 DEF given_back, debit
    <3>2. /\ g.child_inflight[r] = s.child_inflight[r] - 1
          /\ g.root_cpu[r] = s.root_cpu[r] - Policy[c].cpu
          /\ g.root_mem[r] = s.root_mem[r] - s.units[i]
      BY <1>4, <2>1, <3>1, ExactSub
    <3> QED BY <2>1, <3>2, Zenon DEF RootOf
  <2> QED BY <2>2, <2>3
<1>7. CASE ~(sp.child /\ r = sp.root)
  <2>1. /\ charged(g, of_root(g, r), ones) = charged(s, of_root(s, r), ones)
        /\ charged(g, of_root(g, r), cpu_of(g)) = charged(s, of_root(s, r), cpu_of(s))
        /\ charged(g, of_root(g, r), g.units) = charged(s, of_root(s, r), s.units)
    BY <1>2, <1>3, <1>7, Zenon DEF Left
  <2>2. /\ g.child_inflight[r] = s.child_inflight[r]
        /\ g.root_cpu[r] = s.root_cpu[r] /\ g.root_mem[r] = s.root_mem[r]
    BY <1>4, <1>5, <1>7 DEF given_back, debit, put
  <2> QED BY <1>2, <2>1, <2>2, Zenon DEF RootOf
<1> QED BY <1>6, <1>7

\* Ending a permit keeps the books: no refund saturates.
LEMMA EndedLedger ==
  ASSUME NEW s, NEW g, GovernedState(s), GovernedState(g), NEW i \in s.permits, Ended(g, s, i),
         LedgerSound(s)
  PROVE  LedgerSound(g)
BY EndedGlobal, EndedClass, EndedPhases, EndedPools, EndedRoots, Zenon DEF LedgerSound

-----------------------------------------------------------------------------
\* Nothing is charged differently

\* The live permits stay, and who they are for.
SameLive(g, s) ==
  /\ g.permits = s.permits
  /\ \A j \in s.permits : g.spec[j] = s.spec[j] /\ g.class[j] = s.class[j]

\* So does what they are charged.
SameCharges(g, s) ==
  SameLive(g, s) /\ \A j \in s.permits : g.phase[j] = s.phase[j] /\ g.units[j] = s.units[j]

\* Equal charges have equal totals.
Agree(g, R, k, s, S, h) == charged(g, R, k) = charged(s, S, h)

\* A total depends on the live permits and their charges only.
LEMMA ChargedSame ==
  ASSUME NEW g, NEW s, NEW R, NEW S, NEW k, NEW h, g.permits = s.permits, s.permits \subseteq Ids,
         \A j \in s.permits : (j \in R <=> j \in S) /\ k[j] = h[j]
  PROVE  Agree(g, R, k, s, S, h)
<1>1. live(g, R, k) = live(s, S, h)
  BY Zenon DEF live
<1> QED BY <1>1, Zenon DEF charged, Agree

\* The totals that follow from SameLive, from unchanged memory charges, and from
\* unchanged phases.
CountsAgree(g, s) ==
  /\ Agree(g, Ids, cpu_of(g), s, Ids, cpu_of(s))
  /\ \A c \in Classes : /\ Agree(g, of_class(g, c), ones, s, of_class(s, c), ones)
                        /\ Agree(g, of_class(g, c), cpu_of(g), s, of_class(s, c), cpu_of(s))
  /\ \A k \in Caps : Agree(g, of_pool(g, k), ones, s, of_pool(s, k), ones)
  /\ \A r \in Roots : /\ Agree(g, of_root(g, r), ones, s, of_root(s, r), ones)
                      /\ Agree(g, of_root(g, r), cpu_of(g), s, of_root(s, r), cpu_of(s))

UnitsAgree(g, s) ==
  /\ Agree(g, Ids, g.units, s, Ids, s.units)
  /\ \A c \in Classes : Agree(g, of_class(g, c), g.units, s, of_class(s, c), s.units)
  /\ \A r \in Roots : Agree(g, of_root(g, r), g.units, s, of_root(s, r), s.units)

PhasesAgree(g, s) ==
  \A c \in Classes :
    /\ \A p \in Phases : Agree(g, in_phase(g, c, p), ones, s, in_phase(s, c, p), ones)
    /\ Agree(g, waiting(g, c), ones, s, waiting(s, c), ones)
    /\ Agree(g, begun(g, c), ones, s, begun(s, c), ones)

\* When the live permits stay, the totals stay that are about what did not change.
LEMMA AllAgree ==
  ASSUME NEW g, NEW s, GovernedState(s), SameLive(g, s)
  PROVE  /\ CountsAgree(g, s)
         /\ (\A j \in s.permits : g.units[j] = s.units[j]) => UnitsAgree(g, s)
         /\ (\A j \in s.permits : g.phase[j] = s.phase[j]) => PhasesAgree(g, s)
<1>1. s.permits \subseteq Ids /\ g.permits = s.permits
  BY SummandTypes, Zenon DEF SameLive
<1>2. \A j \in s.permits : j \in Ids /\ g.spec[j] = s.spec[j] /\ g.class[j] = s.class[j]
  BY <1>1, Zenon DEF SameLive
<1>3. \A j \in s.permits : cpu_of(g)[j] = cpu_of(s)[j]
  BY <1>2, Zenon DEF cpu_of
<1>4. \A c \in Classes : \A j \in s.permits : j \in of_class(g, c) <=> j \in of_class(s, c)
  BY <1>2, Zenon DEF of_class
<1>5. \A k \in Caps : \A j \in s.permits : j \in of_pool(g, k) <=> j \in of_pool(s, k)
  BY <1>2, Zenon DEF of_pool
<1>6. \A r \in Roots : \A j \in s.permits : j \in of_root(g, r) <=> j \in of_root(s, r)
  BY <1>2, Zenon DEF of_root
<1>7. CountsAgree(g, s)
  <2>1. Agree(g, Ids, cpu_of(g), s, Ids, cpu_of(s))
    BY <1>1, <1>3, ChargedSame, Zenon
  <2>2. \A c \in Classes : /\ Agree(g, of_class(g, c), ones, s, of_class(s, c), ones)
                           /\ Agree(g, of_class(g, c), cpu_of(g), s, of_class(s, c), cpu_of(s))
    BY <1>1, <1>3, <1>4, ChargedSame, Zenon
  <2>3. \A k \in Caps : Agree(g, of_pool(g, k), ones, s, of_pool(s, k), ones)
    BY <1>1, <1>5, ChargedSame, Zenon
  <2>4. \A r \in Roots : /\ Agree(g, of_root(g, r), ones, s, of_root(s, r), ones)
                         /\ Agree(g, of_root(g, r), cpu_of(g), s, of_root(s, r), cpu_of(s))
    BY <1>1, <1>3, <1>6, ChargedSame, Zenon
  <2> QED BY <2>1, <2>2, <2>3, <2>4, Zenon DEF CountsAgree
<1>8. ASSUME \A j \in s.permits : g.units[j] = s.units[j] PROVE UnitsAgree(g, s)
  <2>1. Agree(g, Ids, g.units, s, Ids, s.units)
    BY <1>1, <1>8, ChargedSame, Zenon
  <2>2. \A c \in Classes : Agree(g, of_class(g, c), g.units, s, of_class(s, c), s.units)
    BY <1>1, <1>4, <1>8, ChargedSame, Zenon
  <2>3. \A r \in Roots : Agree(g, of_root(g, r), g.units, s, of_root(s, r), s.units)
    BY <1>1, <1>6, <1>8, ChargedSame, Zenon
  <2> QED BY <2>1, <2>2, <2>3, Zenon DEF UnitsAgree
<1>9. ASSUME \A j \in s.permits : g.phase[j] = s.phase[j] PROVE PhasesAgree(g, s)
  <2> SUFFICES ASSUME NEW c \in Classes
               PROVE  /\ \A p \in Phases : Agree(g, in_phase(g, c, p), ones, s, in_phase(s, c, p), ones)
                      /\ Agree(g, waiting(g, c), ones, s, waiting(s, c), ones)
                      /\ Agree(g, begun(g, c), ones, s, begun(s, c), ones)
    BY Zenon DEF PhasesAgree
  <2>1. \A p \in Phases : \A j \in s.permits : j \in in_phase(g, c, p) <=> j \in in_phase(s, c, p)
    BY <1>2, <1>9, Zenon DEF in_phase
  <2>2. \A j \in s.permits : j \in waiting(g, c) <=> j \in waiting(s, c)
    BY <1>2, <1>9, Zenon DEF waiting
  <2>3. \A j \in s.permits : j \in begun(g, c) <=> j \in begun(s, c)
    BY <1>2, <1>9, Zenon DEF begun
  <2>4. \A p \in Phases : Agree(g, in_phase(g, c, p), ones, s, in_phase(s, c, p), ones)
    BY <1>1, <2>1, ChargedSame, Zenon
  <2>5. /\ Agree(g, waiting(g, c), ones, s, waiting(s, c), ones)
        /\ Agree(g, begun(g, c), ones, s, begun(s, c), ones)
    BY <1>1, <2>2, <2>3, ChargedSame, Zenon
  <2> QED BY <2>4, <2>5
<1> QED BY <1>7, <1>8, <1>9

\* When neither the charges nor the totals change the books are kept.
LEMMA SameLedger ==
  ASSUME NEW g, NEW s, GovernedState(s), SameCharges(g, s), SameTotals(g, s), LedgerSound(s)
  PROVE  LedgerSound(g)
<1>1. CountsAgree(g, s) /\ UnitsAgree(g, s) /\ PhasesAgree(g, s)
  <2>1. /\ SameLive(g, s)
        /\ \A j \in s.permits : g.units[j] = s.units[j]
        /\ \A j \in s.permits : g.phase[j] = s.phase[j]
    BY Zenon DEF SameCharges
  <2> QED BY <2>1, AllAgree
<1>2. GlobalTotals(g)
  BY <1>1, Zenon DEF LedgerSound, GlobalTotals, SameTotals, CountsAgree, UnitsAgree, Agree
<1>5. ClassTotals(g)
  BY <1>1, Zenon DEF LedgerSound, ClassTotals, SameTotals, CountsAgree, UnitsAgree, Agree
<1>3. PhaseTotals(g)
  BY <1>1, Zenon DEF LedgerSound, PhaseTotals, SameTotals, PhasesAgree, Agree
<1>4. PoolTotals(g) /\ RootTotals(g)
  BY <1>1, Zenon DEF LedgerSound, PoolTotals, RootTotals, SameTotals, CountsAgree, UnitsAgree, Agree
<1> QED BY <1>2, <1>3, <1>4, <1>5, Zenon DEF LedgerSound

-----------------------------------------------------------------------------
\* A permit enters a later phase

\* The order of the phases: work that has started stays started.
LEMMA LaterPhase ==
  ASSUME NEW p \in Phases, NEW q \in Phases, rank(p) > rank(q)
  PROVE  p # q /\ (has_started(q) => has_started(p))
BY DEF Phases, rank, has_started

\* Moving one count from q to p.
LEMMA SumShift ==
  ASSUME NEW S, IsFiniteSet(S), NEW f \in [S -> Nat], NEW p \in S, NEW q \in S, p # q, 1 <= f[q]
  PROVE  Sum(credit(debit(f, q, 1), p, 1), S) = Sum(f, S)
<1> DEFINE h == debit(f, q, 1)
<1>1. h \in [S -> Nat] /\ 1 \in Nat
  BY DEF h, credit, debit, saturating_sub
<1>2. MovedSum(f, q, 1, S)
  BY <1>1, SumMoved, Zenon
<1>3. Sum(h, S) = Sum(f, S) - 1 /\ Sum(f, S) \in Nat
  BY <1>2, Zenon DEF MovedSum
<1> HIDE DEF h
<1>4. MovedSum(h, p, 1, S)
  BY <1>1, SumMoved, Zenon
<1>5. Sum(credit(h, p, 1), S) = Sum(h, S) + 1
  BY <1>4, Zenon DEF MovedSum
<1>6. Sum(credit(h, p, 1), S) = Sum(f, S)
  BY <1>3, <1>5
<1> QED BY <1>6 DEF h

\* The phase gauges and lifetime counts after a permit enters phase p.
LEMMA AdvancedPhases ==
  ASSUME NEW s, NEW g, GovernedState(s), GovernedState(g), NEW i \in s.permits, NEW p \in Phases,
         rank(p) > rank(s.phase[i]), Advanced(g, s, i, p), PhaseTotals(s)
  PROVE  PhaseTotals(g)
<1> DEFINE c == s.class[i]
           q == s.phase[i]
<1> SUFFICES ASSUME NEW x \in Classes PROVE PhasesOf(g, x)
  BY Zenon DEF PhaseTotals, PhasesOf
<1>1. /\ s.permits \subseteq Ids /\ s.class \in [Ids -> Classes] /\ s.spec \in [Ids -> Specs]
      /\ s.phase \in [Ids -> Phases] /\ i \in Ids /\ c \in Classes /\ q \in Phases
  BY SummandTypes
<1>2. /\ g.permits = s.permits /\ g.class = s.class /\ g.spec = s.spec /\ g.units = s.units
      /\ g.phase = put(s.phase, i, p)
  BY Zenon DEF Advanced, SameRequests, SameLedgers
<1>3. Moved(g, s, i) /\ g.phase[i] = p
  <2>1. g.phase[i] = p /\ \A j \in s.permits \ {i} : g.phase[j] = s.phase[j]
    BY <1>1, <1>2 DEF put
  <2> QED BY <1>2, <2>1, Zenon DEF Moved
<1>4. /\ g.gauge = put(s.gauge, c, credit(debit(s.gauge[c], q, 1), p, 1))
      /\ g.started = put(s.started, c, IF ~has_started(q) /\ has_started(p)
                                       THEN s.started[c] + 1 ELSE s.started[c])
      /\ g.inflight = s.inflight /\ g.admitted = s.admitted /\ g.terminated = s.terminated
  BY Zenon DEF Advanced
<1>5. PhaseMoves(g, s, i, x) /\ PhasesOf(s, x)
  BY <1>1, <1>3, AllMove, Zenon DEF PhaseTotals, PhasesOf
<1>6. /\ s.inflight \in [Classes -> Nat] /\ s.admitted \in [Classes -> Nat]
      /\ s.started \in [Classes -> Nat] /\ s.terminated \in [Classes -> Nat]
      /\ s.gauge \in [Classes -> [Phases -> Nat]] /\ ones[i] = 1
  BY <1>1, BookTypes, OnesAt, Zenon
<1>7. p # q /\ (has_started(q) => has_started(p))
  BY <1>1, LaterPhase
<1>8. /\ Stayed(g, waiting(g, x), ones, s, waiting(s, x), ones, i)
      /\ Stayed(g, begun(g, x), ones, s, begun(s, x), ones, i)
      /\ \A z \in Phases : Stayed(g, in_phase(g, x, z), ones, s, in_phase(s, x, z), ones, i)
  BY <1>2, <1>5, MovesHow, Zenon DEF PhaseMoves
<1>9. /\ i \in waiting(s, x) <=> x = c /\ ~has_started(q)
      /\ i \in waiting(g, x) <=> x = c /\ ~has_started(p)
      /\ i \in begun(s, x) <=> x = c /\ has_started(q)
      /\ i \in begun(g, x) <=> x = c /\ has_started(p)
      /\ \A z \in Phases : i \in in_phase(s, x, z) <=> x = c /\ z = q
      /\ \A z \in Phases : i \in in_phase(g, x, z) <=> x = c /\ z = p
  BY <1>1, <1>2, <1>3, Zenon DEF waiting, begun, in_phase
<1> HIDE DEF c, q
<1>10. \A z \in Phases : s.gauge[x][z] = charged(s, in_phase(s, x, z), ones)
  BY <1>5, Zenon DEF PhasesOf
<1>11. x = c => 1 <= s.gauge[x][q]
  <2>1. CASE x = c
    <3>1. i \in in_phase(s, x, q) /\ i \notin in_phase(g, x, q)
      BY <1>1, <1>7, <1>9, <2>1, Zenon
    <3>2. ones[i] <= charged(s, in_phase(s, x, q), ones)
      BY <1>1, <1>8, <3>1, Zenon DEF Stayed
    <3> QED BY <1>1, <1>6, <1>10, <3>2, Zenon
  <2> QED BY <2>1
<1>12. /\ x = c => g.gauge[x] = credit(debit(s.gauge[x], q, 1), p, 1)
       /\ x # c => g.gauge[x] = s.gauge[x]
       /\ s.gauge[x] \in [Phases -> Nat]
  BY <1>1, <1>4, <1>6, Zenon DEF put
<1>13. ASSUME NEW z \in Phases PROVE g.gauge[x][z] = charged(g, in_phase(g, x, z), ones)
  <2> DEFINE n == charged(s, in_phase(s, x, z), ones)
             m == charged(g, in_phase(g, x, z), ones)
  <2>1. s.gauge[x][z] = n /\ n \in Nat
    BY <1>8, <1>10, Zenon DEF Stayed
  <2>2. CASE x = c /\ z = q
    <3>1. i \in in_phase(s, x, z) /\ i \notin in_phase(g, x, z)
      BY <1>7, <1>9, <2>2, Zenon
    <3>2. m = n - ones[i]
      BY <1>8, <3>1, Zenon DEF Stayed
    <3> HIDE DEF m, n
    <3>3. g.gauge[x][z] = saturating_sub(s.gauge[x][z], 1)
      BY <1>7, <1>12, <2>2 DEF credit, debit
    <3>4. g.gauge[x][z] = m
      BY <1>6, <1>11, <2>1, <2>2, <3>2, <3>3 DEF saturating_sub
    <3> QED BY <3>4 DEF m
  <2>3. CASE x = c /\ z = p
    <3>1. i \notin in_phase(s, x, z) /\ i \in in_phase(g, x, z)
      BY <1>7, <1>9, <2>3, Zenon
    <3>2. m = n + ones[i]
      BY <1>8, <3>1, Zenon DEF Stayed
    <3> HIDE DEF m, n
    <3>3. g.gauge[x][z] = s.gauge[x][z] + 1
      BY <1>7, <1>12, <2>3 DEF credit, debit
    <3> QED BY <1>6, <2>1, <3>2, <3>3 DEF m
  <2>4. CASE x # c \/ (z # p /\ z # q)
    <3>1. i \notin in_phase(s, x, z) /\ i \notin in_phase(g, x, z)
      BY <1>9, <2>4, Zenon
    <3>2. m = n
      BY <1>8, <3>1, Zenon DEF Stayed
    <3> HIDE DEF m, n
    <3>3. g.gauge[x][z] = s.gauge[x][z]
      BY <1>12, <2>4 DEF credit, debit
    <3> QED BY <2>1, <3>2, <3>3 DEF m
  <2> QED BY <2>2, <2>3, <2>4
<1> DEFINE wg == charged(g, waiting(g, x), ones)
           ws == charged(s, waiting(s, x), ones)
           bg == charged(g, begun(g, x), ones)
           bs == charged(s, begun(s, x), ones)
<1>14. /\ s.inflight[x] = Sum(s.gauge[x], Phases)
       /\ s.admitted[x] = s.inflight[x] + s.terminated[x]
       /\ s.started[x] + ws <= s.admitted[x] /\ bs <= s.started[x]
  BY <1>5, Zenon DEF PhasesOf
<1>15. Sum(g.gauge[x], Phases) = Sum(s.gauge[x], Phases)
  <2>1. CASE x = c
    <3>1. Sum(credit(debit(s.gauge[x], q, 1), p, 1), Phases) = Sum(s.gauge[x], Phases)
      BY <1>1, <1>7, <1>11, <1>12, <2>1, PhaseFacts, SumShift
    <3> QED BY <1>12, <2>1, <3>1, Zenon
  <2>2. CASE x # c
    BY <1>12, <2>2, Zenon
  <2> QED BY <2>1, <2>2
<1>16. g.started[x] + wg <= g.admitted[x] /\ bg <= g.started[x]
  <2>1. /\ s.started[x] \in Nat /\ s.admitted[x] \in Nat /\ g.admitted[x] = s.admitted[x]
        /\ g.started[x] = IF x = c /\ ~has_started(q) /\ has_started(p)
                          THEN s.started[x] + 1 ELSE s.started[x]
    BY <1>1, <1>4, <1>6 DEF put
  <2>2. wg \in Nat /\ ws \in Nat /\ bg \in Nat /\ bs \in Nat
    BY <1>8, Zenon DEF Stayed
  <2>3. CASE x = c /\ ~has_started(q) /\ has_started(p)
    <3>1. wg = ws - ones[i] /\ bg = bs + ones[i]
      BY <1>8, <1>9, <2>3, Zenon DEF Stayed
    <3> HIDE DEF wg, ws, bg, bs
    <3> QED BY <1>6, <1>14, <2>1, <2>2, <2>3, <3>1
  <2>4. CASE x # c
    <3>1. wg = ws /\ bg = bs
      BY <1>8, <1>9, <2>4, Zenon DEF Stayed
    <3> HIDE DEF wg, ws, bg, bs
    <3> QED BY <1>14, <2>1, <2>2, <2>4, <3>1
  <2>5. CASE x = c /\ (has_started(q) \/ ~has_started(p))
    <3>1. /\ wg = ws + (ones[i] - ones[i]) \/ wg = ws
          /\ bg = bs + (ones[i] - ones[i]) \/ bg = bs
      BY <1>7, <1>8, <1>9, <2>5, Zenon DEF Stayed
    <3> HIDE DEF wg, ws, bg, bs
    <3> QED BY <1>6, <1>14, <2>1, <2>2, <2>5, <3>1
  <2> QED BY <2>3, <2>4, <2>5
<1>17. g.inflight[x] = Sum(g.gauge[x], Phases) /\ g.admitted[x] = g.inflight[x] + g.terminated[x]
  BY <1>4, <1>14, <1>15, Zenon
<1> QED BY <1>13, <1>16, <1>17, Zenon DEF PhasesOf

\* Entering a phase keeps the books.
LEMMA AdvancedLedger ==
  ASSUME NEW s, NEW g, GovernedState(s), GovernedState(g), NEW i \in s.permits, NEW p \in Phases,
         rank(p) > rank(s.phase[i]), Advanced(g, s, i, p), LedgerSound(s)
  PROVE  LedgerSound(g)
<1>1. PhaseTotals(g)
  BY AdvancedPhases, Zenon DEF LedgerSound
<1>2. SameLive(g, s) /\ \A j \in s.permits : g.units[j] = s.units[j]
  BY Zenon DEF Advanced, SameRequests, SameLedgers, SameLive
<1>3. CountsAgree(g, s) /\ UnitsAgree(g, s)
  BY <1>2, AllAgree
<1>4. GlobalTotals(g)
  BY <1>3, Zenon DEF LedgerSound, GlobalTotals, Advanced, CountsAgree, UnitsAgree, Agree
<1>5. ClassTotals(g)
  BY <1>3, Zenon DEF LedgerSound, ClassTotals, Advanced, CountsAgree, UnitsAgree, Agree
<1>6. PoolTotals(g) /\ RootTotals(g)
  BY <1>3, Zenon DEF LedgerSound, PoolTotals, RootTotals, Advanced, CountsAgree, UnitsAgree, Agree
<1> QED BY <1>1, <1>4, <1>5, <1>6, Zenon DEF LedgerSound

-----------------------------------------------------------------------------
\* A memory charge moves

\* The totals that hold the charge of permit i move with it.
MeteredTotals(g, s, i, d) ==
  LET c == s.class[i]
      r == s.spec[i].root
  IN /\ s.mem + d >= 0 /\ s.mem_held[c] + d >= 0
     /\ s.spec[i].child => s.root_mem[r] + d >= 0
     /\ charged(g, Ids, g.units) = s.mem + d
     /\ \A x \in Classes : charged(g, of_class(g, x), g.units) =
                             (IF x = c THEN s.mem_held[x] + d ELSE s.mem_held[x])
     /\ \A x \in Roots : charged(g, of_root(g, x), g.units) =
                           (IF s.spec[i].child /\ x = r THEN s.root_mem[x] + d ELSE s.root_mem[x])

\* A permit is never charged more than any total that holds its charge, so none of
\* them goes negative.
LEMMA MeteredMoves ==
  ASSUME NEW s, NEW g, GovernedState(s), GovernedState(g), NEW i \in s.permits, NEW v \in Nat,
         g.units = put(s.units, i, v), g.permits = s.permits, g.phase = s.phase,
         g.spec = s.spec, g.class = s.class, LedgerSound(s)
  PROVE  MeteredTotals(g, s, i, v - s.units[i])
<1> DEFINE c == s.class[i]
           r == s.spec[i].root
           u == s.units[i]
<1>1. /\ s.permits \subseteq Ids /\ s.class \in [Ids -> Classes] /\ s.spec \in [Ids -> Specs]
      /\ s.units \in [Ids -> Nat] /\ i \in Ids /\ c \in Classes /\ s.spec[i] \in Specs
      /\ u \in Nat
  BY SummandTypes
<1>2. r \in Roots
  BY <1>1, RootType, Zenon
<1>3. Moved(g, s, i) /\ g.units[i] = v
  <2>1. g.units[i] = v /\ \A j \in s.permits \ {i} : g.units[j] = s.units[j]
    BY <1>1 DEF put
  <2> QED BY <2>1, Zenon DEF Moved
<1>4. /\ GlobalMoves(g, s, i) /\ \A x \in Classes : ClassMoves(g, s, i, x)
      /\ \A x \in Roots : RootMoves(g, s, i, x)
  BY <1>1, <1>3, AllMove, Zenon
<1>5. /\ Stayed(g, Ids, g.units, s, Ids, s.units, i)
      /\ \A x \in Classes : Stayed(g, of_class(g, x), g.units, s, of_class(s, x), s.units, i)
      /\ \A x \in Roots : Stayed(g, of_root(g, x), g.units, s, of_root(s, x), s.units, i)
  BY <1>4, MovesHow, Zenon DEF GlobalMoves, ClassMoves, RootMoves
<1>6. /\ s.mem = charged(s, Ids, s.units)
      /\ \A x \in Classes : s.mem_held[x] = charged(s, of_class(s, x), s.units)
      /\ \A x \in Roots : s.root_mem[x] = charged(s, of_root(s, x), s.units)
  BY Zenon DEF LedgerSound, GlobalTotals, ClassTotals, RootTotals
<1>7. /\ \A x \in Classes : (i \in of_class(s, x) <=> x = c) /\ (i \in of_class(g, x) <=> x = c)
      /\ \A x \in Roots : /\ i \in of_root(s, x) <=> s.spec[i].child /\ x = r
                          /\ i \in of_root(g, x) <=> s.spec[i].child /\ x = r
  BY <1>1, Zenon DEF of_class, of_root
<1>8. /\ u <= s.mem /\ s.mem \in Nat
      /\ charged(g, Ids, g.units) = s.mem + (v - u)
  BY <1>1, <1>3, <1>5, <1>6, Zenon DEF Stayed
<1>9. ASSUME NEW x \in Classes
      PROVE  /\ s.mem_held[x] \in Nat /\ (x = c => u <= s.mem_held[x])
             /\ charged(g, of_class(g, x), g.units) =
                  (IF x = c THEN s.mem_held[x] + (v - u) ELSE s.mem_held[x])
  <2>1. /\ Stayed(g, of_class(g, x), g.units, s, of_class(s, x), s.units, i)
        /\ s.mem_held[x] = charged(s, of_class(s, x), s.units)
        /\ i \in of_class(s, x) <=> x = c
        /\ i \in of_class(g, x) <=> x = c
    BY <1>5, <1>6, <1>7, Zenon
  <2> QED BY <1>3, <2>1, Zenon DEF Stayed
<1>10. ASSUME NEW x \in Roots
       PROVE  /\ s.root_mem[x] \in Nat /\ (s.spec[i].child /\ x = r => u <= s.root_mem[x])
              /\ charged(g, of_root(g, x), g.units) =
                   (IF s.spec[i].child /\ x = r THEN s.root_mem[x] + (v - u) ELSE s.root_mem[x])
  <2>1. /\ Stayed(g, of_root(g, x), g.units, s, of_root(s, x), s.units, i)
        /\ s.root_mem[x] = charged(s, of_root(s, x), s.units)
        /\ i \in of_root(s, x) <=> s.spec[i].child /\ x = r
        /\ i \in of_root(g, x) <=> s.spec[i].child /\ x = r
    BY <1>5, <1>6, <1>7, Zenon
  <2> QED BY <1>3, <2>1, Zenon DEF Stayed
<1>11. \A a \in Nat : u <= a => a + (v - u) >= 0
  BY <1>1
<1>12. /\ s.mem + (v - u) >= 0 /\ s.mem_held[c] + (v - u) >= 0
       /\ s.spec[i].child => s.root_mem[r] + (v - u) >= 0
  BY <1>1, <1>2, <1>8, <1>9, <1>10, <1>11, Zenon
<1> QED BY <1>8, <1>9, <1>10, <1>12, Zenon DEF MeteredTotals

\* Moving a charge keeps the books, and is never a fault.
LEMMA MeteredLedger ==
  ASSUME NEW s, NEW g, GovernedState(s), GovernedState(g), NEW i \in s.permits, NEW v \in Nat,
         g.units = put(s.units, i, v), g.permits = s.permits, g.phase = s.phase,
         g.spec = s.spec, g.class = s.class, Shifted(g, s, i, v - s.units[i]), LedgerSound(s)
  PROVE  LedgerSound(g) /\ g.fault = s.fault
<1> DEFINE c == s.class[i]
           r == s.spec[i].root
           d == v - s.units[i]
<1>1. MeteredTotals(g, s, i, d)
  BY MeteredMoves, Zenon
<1>2. Shifted(g, s, i, d)
  OBVIOUS
<1>3. s.class[i] \in Classes /\ s.spec[i] \in Specs /\ s.units[i] \in Nat
  BY SummandTypes
<1>4. r \in Roots /\ d \in Int
  BY <1>3, RootType
<1> HIDE DEF d
<1>5. /\ g.mem = s.mem + d /\ g.mem_held = put(s.mem_held, c, s.mem_held[c] + d)
      /\ g.root_mem = put(s.root_mem, r, IF s.spec[i].child THEN s.root_mem[r] + d ELSE s.root_mem[r])
      /\ g.fault <=> s.fault
  BY <1>1, <1>2, Zenon DEF Shifted, MeteredTotals
<1>6. g.fault = s.fault
  BY <1>5, Zenon DEF GovernedState
<1>7. /\ g.inflight = s.inflight /\ g.admitted = s.admitted /\ g.started = s.started
      /\ g.terminated = s.terminated /\ g.gauge = s.gauge /\ g.cpu_held = s.cpu_held
      /\ g.cpu = s.cpu /\ g.in_use = s.in_use /\ g.child_inflight = s.child_inflight
      /\ g.root_cpu = s.root_cpu
  BY <1>2, Zenon DEF Shifted
<1>8. CountsAgree(g, s) /\ PhasesAgree(g, s)
  <2>1. SameLive(g, s) /\ \A j \in s.permits : g.phase[j] = s.phase[j]
    BY Zenon DEF SameLive
  <2> QED BY <2>1, AllAgree
<1>9. /\ s.mem_held \in [Classes -> Nat] /\ s.root_mem \in [Roots -> Nat]
      /\ g.mem_held \in [Classes -> Nat] /\ s.mem \in Nat
  BY BookTypes, Zenon
<1>10. GlobalTotals(g)
  <2>1. s.mem_held[c] + d \in Nat
    BY <1>3, <1>5, <1>9 DEF put
  <2>2. SetSum(s.mem_held, c, s.mem_held[c] + d, Classes)
    BY <1>3, <1>9, <2>1, ClassesAssumption, SumPut, Zenon
  <2> DEFINE a == Sum(g.mem_held, Classes)
             b == Sum(s.mem_held, Classes)
  <2>3. a \in Nat /\ b \in Nat /\ s.mem_held[c] \in Nat /\ a + s.mem_held[c] = b + (s.mem_held[c] + d)
    BY <1>5, <2>2, Zenon DEF SetSum
  <2>4. s.mem = b
    BY Zenon DEF LedgerSound, GlobalTotals
  <2> HIDE DEF a, b
  <2>5. g.mem = a
    BY <1>4, <1>5, <2>3, <2>4
  <2>6. g.cpu = charged(g, Ids, cpu_of(g)) /\ g.cpu = Sum(g.cpu_held, Classes)
    BY <1>7, <1>8, Zenon DEF LedgerSound, GlobalTotals, CountsAgree, Agree
  <2>7. g.mem = charged(g, Ids, g.units)
    BY <1>1, <1>5, Zenon DEF MeteredTotals
  <2> QED BY <2>5, <2>6, <2>7, Zenon DEF GlobalTotals, a
<1>11. ClassTotals(g)
  <2>1. \A x \in Classes : g.mem_held[x] = charged(g, of_class(g, x), g.units)
    <3>1. \A x \in Classes : g.mem_held[x] = IF x = c THEN s.mem_held[x] + d ELSE s.mem_held[x]
      BY <1>3, <1>5, <1>9 DEF put
    <3> QED BY <1>1, <3>1, Zenon DEF MeteredTotals
  <2> QED BY <1>7, <1>8, <2>1, Zenon DEF LedgerSound, ClassTotals, CountsAgree, Agree
<1>12. RootTotals(g)
  <2>1. \A x \in Roots : g.root_mem[x] = charged(g, of_root(g, x), g.units)
    <3>1. \A x \in Roots :
            g.root_mem[x] = IF s.spec[i].child /\ x = r THEN s.root_mem[x] + d ELSE s.root_mem[x]
      BY <1>4, <1>5, <1>9 DEF put
    <3> QED BY <1>1, <3>1, Zenon DEF MeteredTotals
  <2> QED BY <1>7, <1>8, <2>1, Zenon DEF LedgerSound, RootTotals, CountsAgree, Agree
<1>13. PhaseTotals(g)
  BY <1>7, <1>8, Zenon DEF LedgerSound, PhaseTotals, PhasesAgree, Agree
<1>14. PoolTotals(g)
  BY <1>7, <1>8, Zenon DEF LedgerSound, PoolTotals, CountsAgree, Agree
<1> QED BY <1>6, <1>10, <1>11, <1>12, <1>13, <1>14, Zenon DEF LedgerSound

-----------------------------------------------------------------------------
\* Every change keeps the books

\* An accounting fault leaves nothing queued.
Stopped(s) == s.fault => Queued(s) = {}

BooksSound(s) == LedgerSound(s) /\ Stopped(s)

\* Nothing becomes queued, and the fault flag stays.
LEMMA StaysStopped ==
  ASSUME NEW s, NEW g, g.fault = s.fault, Queued(g) \subseteq Queued(s), Stopped(s)
  PROVE  Stopped(g)
BY DEF Stopped

\* The queues after one request leaves.
LEMMA QueuedLess ==
  ASSUME NEW s, NEW g, GovernedState(s), NEW c \in Classes, NEW i,
         g.queue = put(s.queue, c, s.queue[c] \ {i}) \/ g.queue = s.queue
  PROVE  Queued(g) \subseteq Queued(s)
<1>1. s.queue \in [Classes -> SUBSET Ids]
  BY Zenon DEF GovernedState
<1>2. \A x \in Classes : g.queue[x] \subseteq s.queue[x]
  BY <1>1 DEF put
<1> QED BY <1>2, Zenon DEF Queued

\* What is neither live nor charged may change freely.
LEMMA UnchargedPut ==
  ASSUME NEW s, NEW g, GovernedState(s), NEW i, i \notin s.permits, NEW a, NEW b,
         g.permits = s.permits, g.phase = s.phase, g.units = s.units,
         g.spec = put(s.spec, i, a), g.class = put(s.class, i, b)
  PROVE  SameCharges(g, s)
<1>1. s.permits \subseteq Ids /\ s.class \in [Ids -> Classes] /\ s.spec \in [Ids -> Specs]
  BY SummandTypes, Zenon
<1>2. \A j \in s.permits : g.spec[j] = s.spec[j] /\ g.class[j] = s.class[j]
  BY <1>1 DEF put
<1> QED BY <1>2, Zenon DEF SameCharges, SameLive

\* Changes that touch neither permits, requests nor totals.
LEMMA UntouchedBooks ==
  ASSUME NEW s, NEW g, GovernedState(s), BooksSound(s), SameRequests(g, s), SameTotals(g, s),
         g.permits = s.permits, g.phase = s.phase, g.units = s.units,
         g.queue = s.queue, g.fault = s.fault
  PROVE  BooksSound(g)
<1>1. SameCharges(g, s)
  BY Zenon DEF SameCharges, SameLive, SameRequests
<1>2. LedgerSound(g)
  BY <1>1, SameLedger, Zenon DEF BooksSound
<1>3. Queued(g) = Queued(s)
  BY Zenon DEF Queued
<1> QED BY <1>2, <1>3, Zenon DEF BooksSound, Stopped

\* Grants.
LEMMA GrantBooks ==
  ASSUME NEW s, NEW g, CustodySound(s), GovernedState(g), BooksSound(s), NEW i,
         Promoting(g, s, i) \/ \E sp, c : Admitting(g, s, i, sp, c)
  PROVE  BooksSound(g)
<1>1. GovernedState(s) /\ LedgerSound(s)
  BY Zenon DEF CustodySound, BooksSound
<1>2. CASE Promoting(g, s, i)
  <2>1. /\ i \in Ids /\ i \in Queued(s) /\ Opened(g, s, i, s.spec[i], s.class[i]) /\ ~s.fault
        /\ g.fault = s.fault
    BY <1>2, Zenon DEF Promoting, PromotedAs, Room, SameFlags
  <2>2. PICK c \in Classes : i \in s.queue[c]
    BY <1>1, <2>1, Zenon DEF Queued
  <2>3. i \notin s.permits
    BY <2>2, Zenon DEF CustodySound
  <2>4. s.spec[i] \in Specs /\ s.class[i] \in Classes
    BY <1>1, <2>1, SummandTypes
  <2>5. LedgerSound(g)
    BY <1>1, <2>1, <2>3, <2>4, OpenedLedger, Zenon
  <2> QED BY <2>1, <2>5, Zenon DEF BooksSound, Stopped
<1>3. ASSUME NEW sp, NEW c, Admitting(g, s, i, sp, c) PROVE BooksSound(g)
  <2>1. /\ i = s.issued + 1 /\ i \in Ids /\ sp \in Specs /\ c \in Classes
        /\ Opened(g, s, i, sp, c) /\ ~s.fault /\ g.fault = s.fault
    BY <1>3, Zenon DEF Admitting, Room
  <2>2. i \notin s.permits
    <3>1. s.issued \in 0..MaxIds /\ \A j \in s.permits : j <= s.issued
      BY <1>1, Zenon DEF CustodySound, GovernedState
    <3> QED BY <2>1, <3>1
  <2>3. LedgerSound(g)
    BY <1>1, <2>1, <2>2, OpenedLedger, Zenon
  <2> QED BY <2>1, <2>3, Zenon DEF BooksSound, Stopped
<1> QED BY <1>2, <1>3

\* Requests that join or leave a queue.
LEMMA QueueBooks ==
  ASSUME NEW s, NEW g, CustodySound(s), GovernedState(g), BooksSound(s), NEW i,
         Leaving(g, s, i) \/ \E sp, c : Queueing(g, s, i, sp, c)
  PROVE  BooksSound(g)
<1>1. GovernedState(s) /\ LedgerSound(s)
  BY Zenon DEF CustodySound, BooksSound
<1>2. CASE Leaving(g, s, i)
  <2>1. i \in Queued(s) /\ i \in Ids /\ Unqueued(g, s, i) /\ g.fault = s.fault
    BY <1>2, Zenon DEF Leaving
  <2>2. PICK c \in Classes : i \in s.queue[c]
    BY <1>1, <2>1, Zenon DEF Queued
  <2>3. i \notin s.permits
    BY <2>2, Zenon DEF CustodySound
  <2>4. s.class[i] \in Classes
    BY <1>1, <2>1, SummandTypes
  <2>5. SameCharges(g, s) /\ SameTotals(g, s)
    <3>1. /\ g.permits = s.permits /\ g.phase = s.phase /\ g.units = s.units
          /\ g.spec = put(s.spec, i, AnySpec) /\ g.class = put(s.class, i, AnyClass)
          /\ SameTotals(g, s)
      BY <2>1, Zenon DEF Unqueued, SamePermits, SameLedgers
    <3> QED BY <1>1, <2>3, <3>1, UnchargedPut, Zenon
  <2>6. Queued(g) \subseteq Queued(s)
    <3>1. g.queue = put(s.queue, s.class[i], s.queue[s.class[i]] \ {i})
      BY <2>1, Zenon DEF Unqueued
    <3> QED BY <1>1, <2>4, <3>1, QueuedLess, Zenon
  <2>7. LedgerSound(g)
    BY <1>1, <2>5, SameLedger, Zenon
  <2>8. Stopped(g)
    BY <2>1, <2>6, StaysStopped, Zenon DEF BooksSound
  <2> QED BY <2>7, <2>8, Zenon DEF BooksSound
<1>3. ASSUME NEW sp, NEW c, Queueing(g, s, i, sp, c) PROVE BooksSound(g)
  <2>1. /\ i = s.issued + 1 /\ i \in Ids /\ EnqueuedAs(g, s, i, sp, c) /\ ~s.fault
    BY <1>3, Zenon DEF Queueing
  <2>2. i \notin s.permits
    <3>1. s.issued \in 0..MaxIds /\ \A j \in s.permits : j <= s.issued
      BY <1>1, Zenon DEF CustodySound, GovernedState
    <3> QED BY <2>1, <3>1
  <2>3. /\ g.permits = s.permits /\ g.phase = s.phase /\ g.units = s.units
        /\ g.spec = put(s.spec, i, sp) /\ g.class = put(s.class, i, c)
        /\ SameTotals(g, s) /\ g.fault = s.fault
    BY <2>1, Zenon DEF EnqueuedAs, SamePermits, SameLedgers, SameFlags
  <2>4. SameCharges(g, s)
    BY <1>1, <2>2, <2>3, UnchargedPut, Zenon
  <2>5. LedgerSound(g)
    BY <1>1, <2>3, <2>4, SameLedger, Zenon
  <2> QED BY <2>1, <2>3, <2>5, Zenon DEF BooksSound, Stopped
<1> QED BY <1>2, <1>3

\* A fault empties the queues.
LEMMA FaultBooks ==
  ASSUME NEW s, NEW g, CustodySound(s), GovernedState(g), BooksSound(s), Emptying(g, s)
  PROVE  BooksSound(g)
<1>1. GovernedState(s) /\ LedgerSound(s)
  BY Zenon DEF CustodySound, BooksSound
<1> DEFINE gone == Queued(s)
           without(f, x) == [i \in Ids |-> IF i \in gone THEN x ELSE f[i]]
<1>2. /\ g.queue = [c \in Classes |-> {}]
      /\ g.spec = without(s.spec, AnySpec) /\ g.class = without(s.class, AnyClass)
      /\ SamePermits(g, s) /\ SameLedgers(g, s) /\ SameTotals(g, s)
  BY Zenon DEF Emptying, Emptied
<1>3. \A j \in s.permits : j \in Ids /\ j \notin gone
  <2>1. s.permits \subseteq Ids
    BY <1>1, SummandTypes, Zenon
  <2>2. \A c \in Classes : \A j \in s.queue[c] : j \notin s.permits
    BY Zenon DEF CustodySound
  <2> QED BY <2>1, <2>2, Zenon DEF Queued
<1>4. \A j \in s.permits : g.spec[j] = s.spec[j] /\ g.class[j] = s.class[j]
  <2> HIDE DEF gone
  <2> QED BY <1>2, <1>3
<1>5. SameCharges(g, s)
  BY <1>2, <1>4, Zenon DEF SameCharges, SameLive, SamePermits, SameLedgers
<1>6. LedgerSound(g)
  BY <1>1, <1>2, <1>5, SameLedger, Zenon
<1>7. Queued(g) = {}
  <2>1. \A c \in Classes : g.queue[c] = {}
    BY <1>2, Zenon
  <2> QED BY <2>1, Zenon DEF Queued
<1> QED BY <1>6, <1>7, Zenon DEF BooksSound, Stopped

\* A permit ends or enters a phase.
LEMMA PermitBooks ==
  ASSUME NEW s, NEW g, CustodySound(s), GovernedState(g), BooksSound(s), NEW i,
         Ending(g, s, i) \/ \E p : Advancing(g, s, i, p)
  PROVE  BooksSound(g)
<1>1. GovernedState(s) /\ LedgerSound(s)
  BY Zenon DEF CustodySound, BooksSound
<1>2. CASE Ending(g, s, i)
  <2>1. i \in s.permits /\ Ended(g, s, i) /\ g.queue = s.queue /\ g.fault = s.fault
    BY <1>2, Zenon DEF Ending, Unwound, SameQueues, SameFlags
  <2>2. LedgerSound(g)
    BY <1>1, <2>1, EndedLedger, Zenon
  <2>3. Queued(g) = Queued(s)
    BY <2>1, Zenon DEF Queued
  <2> QED BY <2>1, <2>2, <2>3, Zenon DEF BooksSound, Stopped
<1>3. ASSUME NEW p, Advancing(g, s, i, p) PROVE BooksSound(g)
  <2>1. /\ i \in s.permits /\ p \in Phases /\ rank(p) > rank(s.phase[i]) /\ Advanced(g, s, i, p)
        /\ g.queue = s.queue /\ g.fault = s.fault
    BY <1>3, Zenon DEF Advancing, SameQueues
  <2>2. LedgerSound(g)
    BY <1>1, <2>1, AdvancedLedger, Zenon
  <2>3. Queued(g) = Queued(s)
    BY <2>1, Zenon DEF Queued
  <2> QED BY <2>1, <2>2, <2>3, Zenon DEF BooksSound, Stopped
<1> QED BY <1>2, <1>3

\* A reading or a stage boundary moves a charge.
LEMMA MeterBooks ==
  ASSUME NEW s, NEW g, CustodySound(s), GovernedState(g), BooksSound(s), NEW i, Metering(g, s, i)
  PROVE  BooksSound(g) /\ g.fault = s.fault
<1>1. GovernedState(s) /\ LedgerSound(s) /\ i \in s.permits
  BY Zenon DEF CustodySound, BooksSound, Metering
<1>2. s.units[i] \in Nat
  BY <1>1, SummandTypes
<1>3. SameWork(g, s) /\ \E v \in Nat : g.units = put(s.units, i, v) /\ Shifted(g, s, i, v - s.units[i])
  <2>1. ASSUME NEW sequence \in Nat, NEW u \in Nat, Reconciled(g, s, i, sequence, u) PROVE <1>3
    BY <2>1, Zenon DEF Reconciled
  <2>2. ASSUME NEW sequence \in Nat, NEW freed \in 0..s.units[i],
               StageReturned(g, s, i, sequence, freed)
        PROVE  <1>3
    <3>1. /\ SameWork(g, s) /\ Shifted(g, s, i, 0 - freed)
          /\ g.units = put(s.units, i, s.units[i] - freed)
      BY <2>2, Zenon DEF StageReturned
    <3>2. s.units[i] - freed \in Nat /\ (s.units[i] - freed) - s.units[i] = 0 - freed
      BY <1>2
    <3> QED BY <3>1, <3>2, Zenon
  <2> QED BY <2>1, <2>2, Zenon DEF Metering
<1>4. PICK v \in Nat : g.units = put(s.units, i, v) /\ Shifted(g, s, i, v - s.units[i])
  BY <1>3, Zenon
<1>5. /\ g.permits = s.permits /\ g.phase = s.phase /\ g.spec = s.spec /\ g.class = s.class
      /\ g.queue = s.queue
  BY <1>3, Zenon DEF SameWork, SamePermits, SameRequests, SameQueues
<1>6. LedgerSound(g) /\ g.fault = s.fault
  BY <1>1, <1>4, <1>5, MeteredLedger
<1>7. Queued(g) = Queued(s)
  BY <1>5, Zenon DEF Queued
<1> QED BY <1>6, <1>7, Zenon DEF BooksSound, Stopped

\* A ticket moves on, or nothing does.
LEMMA TicketBooks ==
  ASSUME NEW s, NEW g, CustodySound(s), BooksSound(s), NEW i,
         \/ Kept(g, s) \/ Claiming(g, s, i) \/ Claimed(g, s, i) \/ Failing(g, s, i)
         \/ Forgetting(g, s, i)
  PROVE  BooksSound(g) /\ g.fault = s.fault /\ g.permits = s.permits
<1>1. GovernedState(s)
  BY Zenon DEF CustodySound
<1>2. /\ SameRequests(g, s) /\ SameTotals(g, s) /\ g.permits = s.permits /\ g.phase = s.phase
      /\ g.units = s.units /\ g.queue = s.queue /\ g.fault = s.fault
  <2>1. CASE Kept(g, s)
    BY <2>1, Zenon DEF Kept, SamePermits, SameLedgers, SameQueues
  <2>2. CASE Claiming(g, s, i) \/ Claimed(g, s, i)
    BY <2>2, Zenon DEF Claiming, Claimed, SameButTickets, Touched, SameQueues, SameFlags
  <2>3. CASE Failing(g, s, i) \/ Forgetting(g, s, i)
    BY <2>3, Zenon DEF Failing, Forgetting, SameButTickets, SameLedgers, SameQueues, SameFlags
  <2> QED BY <2>1, <2>2, <2>3
<1> QED BY <1>1, <1>2, UntouchedBooks, Zenon

\* Every kind of change keeps the books.
LEMMA BooksKept ==
  ASSUME NEW s, NEW g, CustodySound(s), GovernedState(g), BooksSound(s), Change(g, s)
  PROVE  BooksSound(g)
<1>1. CASE Emptying(g, s)
  BY <1>1, FaultBooks, Zenon
<1>2. CASE Kept(g, s)
  BY <1>2, TicketBooks, Zenon
<1>3. ASSUME NEW i, NEW sp, NEW c, Admitting(g, s, i, sp, c) \/ Queueing(g, s, i, sp, c)
      PROVE  BooksSound(g)
  BY <1>3, GrantBooks, QueueBooks, Zenon
<1>4. ASSUME NEW i, \/ Promoting(g, s, i) \/ Leaving(g, s, i) \/ Ending(g, s, i)
                    \/ Metering(g, s, i) \/ Claiming(g, s, i) \/ Claimed(g, s, i)
                    \/ Failing(g, s, i) \/ Forgetting(g, s, i)
      PROVE  BooksSound(g)
  BY <1>4, GrantBooks, QueueBooks, PermitBooks, MeterBooks, TicketBooks, Zenon
<1>5. ASSUME NEW i, NEW p, Advancing(g, s, i, p) PROVE BooksSound(g)
  BY <1>5, PermitBooks, Zenon
<1> QED BY <1>1, <1>2, <1>3, <1>4, <1>5, Zenon DEF Change

\* After a fault no change grants anything, and the fault stays.
LEMMA ChangeStops ==
  ASSUME NEW s, NEW g, CustodySound(s), GovernedState(g), BooksSound(s), Change(g, s), s.fault
  PROVE  g.fault /\ g.permits \subseteq s.permits
<1>1. Queued(s) = {}
  BY Zenon DEF BooksSound, Stopped
<1>2. CASE Emptying(g, s)
  BY <1>2, Zenon DEF Emptying, Emptied, SamePermits
<1>3. CASE Kept(g, s)
  BY <1>3, Zenon DEF Kept, SamePermits
<1>4. ASSUME NEW i, NEW sp, NEW c, Admitting(g, s, i, sp, c) \/ Queueing(g, s, i, sp, c)
      PROVE  FALSE
  BY <1>4, Zenon DEF Admitting, Queueing, Room
<1>5. ASSUME NEW i, Promoting(g, s, i) \/ Leaving(g, s, i)
      PROVE  FALSE
  BY <1>1, <1>5, Zenon DEF Promoting, Leaving
<1>6. ASSUME NEW i, Ending(g, s, i) PROVE g.fault /\ g.permits \subseteq s.permits
  <2>1. g.fault = s.fault /\ g.permits = s.permits \ {i}
    BY <1>6, Zenon DEF Ending, Unwound, Ended, SameFlags
  <2> QED BY <2>1, Zenon
<1>7. ASSUME NEW i, Metering(g, s, i) PROVE g.fault /\ g.permits = s.permits
  <2>1. g.permits = s.permits
    BY <1>7, Zenon DEF Metering, Reconciled, StageReturned, SameWork, SamePermits
  <2> QED BY <1>7, <2>1, MeterBooks, Zenon
<1>8. ASSUME NEW i, \/ Claiming(g, s, i) \/ Claimed(g, s, i) \/ Failing(g, s, i)
                    \/ Forgetting(g, s, i)
      PROVE  g.fault /\ g.permits = s.permits
  BY <1>8, TicketBooks, Zenon
<1>9. ASSUME NEW i, NEW p, Advancing(g, s, i, p) PROVE g.fault /\ g.permits = s.permits
  BY <1>9, Zenon DEF Advancing, Advanced
<1> QED BY <1>2, <1>3, <1>4, <1>5, <1>6, <1>7, <1>8, <1>9, Zenon DEF Change

-----------------------------------------------------------------------------
\* The books and what an observer adds up

\* A sum of two entries per member is the sum of the sums.
LEMMA SumPlus ==
  ASSUME NEW S, IsFiniteSet(S), NEW h, NEW k, NEW m,
         \A x \in S : h[x] \in Nat /\ k[x] \in Nat /\ m[x] = h[x] + k[x]
  PROVE  Sum(m, S) = Sum(h, S) + Sum(k, S)
<1> DEFINE B == {T \in SUBSET S : Sum(m, T) # Sum(h, T) + Sum(k, T)}
<1> SUFFICES ASSUME B # {} PROVE FALSE
  OBVIOUS
<1>1. PICK T \in B : \A U \in B : U \subseteq T => U = T
  <2>1. B \in SUBSET SUBSET S
    OBVIOUS
  <2> HIDE DEF B
  <2>2. \E T \in B : \A U \in B : U \subseteq T => U = T
    BY <2>1, LeastSet
  <2> QED BY <2>2
<1>2. T \in SUBSET S /\ IsFiniteSet(T) /\ Sum(m, T) # Sum(h, T) + Sum(k, T)
  BY FS_Subset
<1>3. T # {}
  <2>1. Sum(m, {}) = 0 /\ Sum(h, {}) = 0 /\ Sum(k, {}) = 0
    BY SumEmpty, Zenon
  <2>2. Sum(m, {}) = Sum(h, {}) + Sum(k, {})
    BY <2>1
  <2> QED BY <1>2, <2>2, Zenon
<1>4. PICK x \in T : TRUE
  BY <1>3
<1>5. Sum(m, T \ {x}) = Sum(h, T \ {x}) + Sum(k, T \ {x})
  <2>1. T \ {x} \in SUBSET S /\ T \ {x} # T /\ T \ {x} \subseteq T
    BY <1>2
  <2> QED BY <1>1, <2>1
<1>6. \A y \in T : h[y] \in Nat /\ k[y] \in Nat /\ m[y] \in Nat
  BY <1>2
<1>7. /\ Sum(h, T) = h[x] + Sum(h, T \ {x}) /\ Sum(k, T) = k[x] + Sum(k, T \ {x})
      /\ Sum(m, T) = m[x] + Sum(m, T \ {x})
      /\ Sum(h, T \ {x}) \in Nat /\ Sum(k, T \ {x}) \in Nat
  BY <1>2, <1>6, SumSplit
<1>8. m[x] = h[x] + k[x] /\ h[x] \in Nat /\ k[x] \in Nat
  BY <1>2
<1> QED BY <1>2, <1>5, <1>7, <1>8

\* A sum of two entries.
LEMMA SumPair ==
  ASSUME NEW f, NEW a, NEW b, a # b, f[a] \in Nat, f[b] \in Nat
  PROVE  Sum(f, {a, b}) = f[a] + f[b]
<1>1. IsFiniteSet({a}) /\ IsFiniteSet({b})
  BY FS_Singleton
<1>2. IsFiniteSet({a} \cup {b}) /\ {a, b} = {a} \cup {b}
  BY <1>1, FS_Union
<1>3. \A x \in {a, b} : f[x] \in Nat
  OBVIOUS
<1>4. Sum(f, {a, b}) = f[a] + Sum(f, {a, b} \ {a})
  BY <1>2, <1>3, SumSplit
<1>5. {a, b} \ {a} = {b} /\ {b} \ {b} = {}
  OBVIOUS
<1>6. Sum(f, {b}) = f[b] + Sum(f, {b} \ {b})
  BY <1>1, SumSplit
<1>7. Sum(f, {a, b}) = f[a] + Sum(f, {b}) /\ Sum(f, {b}) = f[b] + Sum(f, {})
  BY <1>4, <1>5, <1>6, Zenon
<1>8. Sum(f, {}) = 0
  BY SumEmpty, Zenon
<1> QED BY <1>7, <1>8

\* The ledgers of the permits in T.
ledgers_of(s, T) == {permit_ledger(s, i) : i \in T}

\* What Governor::permit_ledgers' readers add up is a sum over the ledgers.
LEMMA CpuSumIs ==
  ASSUME NEW L, IsFiniteSet(L)
  PROVE  cpu_sum(L) = Sum([l \in L |-> l.cpu_units], L)
<1> DEFINE field == [l \in L |-> l.cpu_units]
           P(f) == f = [s \in SUBSET L |-> IF s = {} THEN 0
                                           ELSE Pick(s).cpu_units + f[s \ {Pick(s)}]]
           it == CHOOSE f : P(f)
<1>1. ASSUME NEW f PROVE P(f) <=> IsIter(f, field, L)
  <2>1. ASSUME NEW s \in SUBSET L, s # {} PROVE Pick(s).cpu_units = field[Pick(s)]
    <3>1. Pick(s) \in L
      BY <2>1, Zenon DEF Pick
    <3> QED BY <3>1
  <2> HIDE DEF field
  <2>2. [s \in SUBSET L |-> IF s = {} THEN 0 ELSE Pick(s).cpu_units + f[s \ {Pick(s)}]] =
        [s \in SUBSET L |-> IF s = {} THEN 0 ELSE field[Pick(s)] + f[s \ {Pick(s)}]]
    BY <2>1, Zenon
  <2> QED BY <2>2, Zenon DEF IsIter
<1>2. \E f : IsIter(f, field, L)
  BY IterExists, Zenon
<1>3. \E f : P(f)
  <2> HIDE DEF P, field
  <2> QED BY <1>1, <1>2, Zenon
<1>4. P(it)
  <2> HIDE DEF P
  <2> QED BY <1>3, Zenon
<1>5. cpu_sum(L) = it[L]
  BY Zenon DEF cpu_sum, MapThenSumSet, MapThenFoldSet, Pick
<1> HIDE DEF P, it, field
<1>6. PICK e : IsIter(e, field, L) /\ Sum(field, L) = e[L]
  BY SumIsIter
<1>7. it[L] = e[L]
  <2>1. IsIter(it, field, L) /\ L \in SUBSET L
    BY <1>1, <1>4, Zenon
  <2> QED BY <1>6, <2>1, IterUnique
<1>8. cpu_sum(L) = Sum(field, L)
  BY <1>5, <1>6, <1>7
<1> QED BY <1>8 DEF field

\* The same for the memory charges.
LEMMA MemorySumIs ==
  ASSUME NEW L, IsFiniteSet(L)
  PROVE  memory_sum(L) = Sum([l \in L |-> l.effective_units], L)
<1> DEFINE field == [l \in L |-> l.effective_units]
           P(f) == f = [s \in SUBSET L |-> IF s = {} THEN 0
                                           ELSE Pick(s).effective_units + f[s \ {Pick(s)}]]
           it == CHOOSE f : P(f)
<1>1. ASSUME NEW f PROVE P(f) <=> IsIter(f, field, L)
  <2>1. ASSUME NEW s \in SUBSET L, s # {} PROVE Pick(s).effective_units = field[Pick(s)]
    <3>1. Pick(s) \in L
      BY <2>1, Zenon DEF Pick
    <3> QED BY <3>1
  <2> HIDE DEF field
  <2>2. [s \in SUBSET L |-> IF s = {} THEN 0 ELSE Pick(s).effective_units + f[s \ {Pick(s)}]] =
        [s \in SUBSET L |-> IF s = {} THEN 0 ELSE field[Pick(s)] + f[s \ {Pick(s)}]]
    BY <2>1, Zenon
  <2> QED BY <2>2, Zenon DEF IsIter
<1>2. \E f : IsIter(f, field, L)
  BY IterExists, Zenon
<1>3. \E f : P(f)
  <2> HIDE DEF P, field
  <2> QED BY <1>1, <1>2, Zenon
<1>4. P(it)
  <2> HIDE DEF P
  <2> QED BY <1>3, Zenon
<1>5. memory_sum(L) = it[L]
  BY Zenon DEF memory_sum, MapThenSumSet, MapThenFoldSet, Pick
<1> HIDE DEF P, it, field
<1>6. PICK e : IsIter(e, field, L) /\ Sum(field, L) = e[L]
  BY SumIsIter
<1>7. it[L] = e[L]
  <2>1. IsIter(it, field, L) /\ L \in SUBSET L
    BY <1>1, <1>4, Zenon
  <2> QED BY <1>6, <2>1, IterUnique
<1>8. memory_sum(L) = Sum(field, L)
  BY <1>5, <1>6, <1>7
<1> QED BY <1>8 DEF field

\* Over one set of permits, the observer's sums are what those permits are charged.
Adds(s, S) ==
  LET L == ledgers_of(s, s.permits \cap S)
  IN /\ Cardinality(L) = charged(s, S, ones)
     /\ cpu_sum(L) = charged(s, S, cpu_of(s)) /\ memory_sum(L) = charged(s, S, s.units)

\* What is charged to the live permits of S is a sum over them.
LEMMA ChargedOver ==
  ASSUME NEW s, GovernedState(s), NEW S, NEW h \in [Ids -> Nat]
  PROVE  charged(s, S, h) = Sum(h, s.permits \cap S)
<1> DEFINE w == live(s, S, h)
           T == s.permits \cap S
<1>1. T \subseteq Ids
  BY SummandTypes, Zenon
<1>2. /\ \A x \in Ids : w[x] \in Nat
      /\ \A x \in Ids \ T : w[x] = 0
      /\ \A x \in T : w[x] = h[x]
  BY <1>1 DEF live
<1> HIDE DEF w, T
<1>3. Sum(w, Ids) = Sum(w, T)
  BY <1>1, <1>2, IdsFinite, SumSupport
<1>4. Sum(w, T) = Sum(h, T)
  BY <1>1, <1>2, IdsFinite, FS_Subset, SumSame
<1> QED BY <1>3, <1>4 DEF charged, w, T

\* One ledger per permit.
LEMMA LedgersAdd ==
  ASSUME NEW s, GovernedState(s), NEW S
  PROVE  Adds(s, S)
<1> DEFINE T == s.permits \cap S
           f == [i \in T |-> permit_ledger(s, i)]
           L == ledgers_of(s, T)
           cpu == [l \in L |-> l.cpu_units]
           mem == [l \in L |-> l.effective_units]
<1>1. T \subseteq Ids /\ s.permits \subseteq Ids
  BY SummandTypes, Zenon
<1>2. IsFiniteSet(T)
  BY <1>1, IdsFinite, FS_Subset
<1>3. \A i \in T : /\ f[i].permit_id = i /\ f[i].cpu_units = Policy[s.class[i]].cpu
                   /\ f[i].effective_units = s.units[i] /\ f[i] \in L
  BY DEF permit_ledger, ledgers_of
<1>4. L = {f[i] : i \in T}
  BY Zenon DEF ledgers_of
<1>5. \A x, y \in T : f[x] = f[y] => x = y
  <2> HIDE DEF f, T, L
  <2> QED BY <1>3
<1>6. ExistsBijection(T, L)
  <2>1. f \in [T -> L]
    BY <1>3, Zenon
  <2>2. f \in Bijection(T, L)
    <3> HIDE DEF f, L
    <3> QED BY <1>4, <1>5, <2>1 DEF Bijection, Injection, Surjection, IsInjective
  <2> QED BY <2>2, Zenon DEF ExistsBijection
<1>7. IsFiniteSet(L) /\ Cardinality(L) = Cardinality(T)
  <2> HIDE DEF L, T
  <2> QED BY <1>2, <1>6, FS_Bijection
<1>8. Cardinality(T) = charged(s, S, ones)
  <2>1. live(s, S, ones) = [x \in Ids |-> IF x \in T THEN 1 ELSE 0]
    BY Zenon DEF live, ones
  <2> HIDE DEF T
  <2>2. Sum([x \in Ids |-> IF x \in T THEN 1 ELSE 0], Ids) = Cardinality(T)
    BY <1>1, IdsFinite, SumOnes, Zenon
  <2> QED BY <2>1, <2>2, Zenon DEF charged
<1>9. /\ cpu_of(s) \in [Ids -> Nat] /\ s.units \in [Ids -> Nat]
      /\ \A i \in T : cpu_of(s)[i] = Policy[s.class[i]].cpu
  <2>1. cpu_of(s) \in [Ids -> Nat] /\ s.units \in [Ids -> Nat]
    BY SummandTypes, Zenon
  <2> QED BY <1>1, <2>1, Zenon DEF cpu_of
<1>10. \A i \in T : cpu_of(s)[i] \in Nat /\ cpu[f[i]] = cpu_of(s)[i]
  <2>1. \A l \in L : cpu[l] = l.cpu_units
    BY Zenon
  <2> HIDE DEF f, L, cpu
  <2> QED BY <1>1, <1>3, <1>9, <2>1
<1>11. \A i \in T : s.units[i] \in Nat /\ mem[f[i]] = s.units[i]
  <2>1. \A l \in L : mem[l] = l.effective_units
    BY Zenon
  <2> HIDE DEF f, L, mem
  <2> QED BY <1>1, <1>3, <1>9, <2>1
<1>12. cpu_sum(L) = Sum(cpu, L) /\ memory_sum(L) = Sum(mem, L)
  <2> HIDE DEF L
  <2> QED BY <1>7, CpuSumIs, MemorySumIs, Zenon
<1> HIDE DEF f, cpu, mem, L
<1>13. Sum(cpu, {f[i] : i \in T}) = Sum(cpu_of(s), T)
  BY <1>2, <1>5, <1>10, SumImage
<1>14. Sum(mem, {f[i] : i \in T}) = Sum(s.units, T)
  BY <1>2, <1>5, <1>11, SumImage
<1>15. charged(s, S, cpu_of(s)) = Sum(cpu_of(s), T) /\ charged(s, S, s.units) = Sum(s.units, T)
  BY <1>9, ChargedOver, Zenon
<1>16. /\ Cardinality(L) = charged(s, S, ones)
       /\ cpu_sum(L) = charged(s, S, cpu_of(s)) /\ memory_sum(L) = charged(s, S, s.units)
  BY <1>4, <1>7, <1>8, <1>12, <1>13, <1>14, <1>15, Zenon
<1> QED BY <1>16, Zenon DEF Adds, L, T

\* The ledger shows the permit it is of.
LEMMA LedgerShows ==
  ASSUME NEW s, NEW i
  PROVE  /\ permit_ledger(s, i).permit_id = i /\ permit_ledger(s, i).class = s.class[i]
         /\ permit_ledger(s, i).capabilities = s.spec[i].caps
         /\ permit_ledger(s, i).phase = s.phase[i]
BY DEF permit_ledger

\* The sets of ledgers an observer selects are the ledgers of the permits it means.
Selections(s) ==
  /\ permit_ledgers(s) = ledgers_of(s, s.permits \cap Ids)
  /\ \A c \in Classes :
       /\ {l \in permit_ledgers(s) : l.class = c} = ledgers_of(s, s.permits \cap of_class(s, c))
       /\ \A p \in Phases :
            {l \in {m \in permit_ledgers(s) : m.class = c} : l.phase = p}
              = ledgers_of(s, s.permits \cap in_phase(s, c, p))
  /\ \A k \in Caps :
       {l \in permit_ledgers(s) : k \in l.capabilities}
         = ledgers_of(s, s.permits \cap of_pool(s, k))
  /\ \A r \in Roots :
       {l \in permit_ledgers(s) : s.spec[l.permit_id].child /\ s.spec[l.permit_id].root = r}
         = ledgers_of(s, s.permits \cap of_root(s, r))

\* What an observer selects by class, phase, pool or root is the ledgers of those permits.
LEMMA SelectionsOf ==
  ASSUME NEW s, GovernedState(s)
  PROVE  Selections(s)
<1>1. s.permits \subseteq Ids
  BY SummandTypes, Zenon
<1>2. \A l : l \in permit_ledgers(s) <=> \E i \in s.permits : l = permit_ledger(s, i)
  BY Zenon DEF permit_ledgers
<1>3. \A T, l : l \in ledgers_of(s, T) <=> \E i \in T : l = permit_ledger(s, i)
  BY Zenon DEF ledgers_of
<1>4. permit_ledgers(s) = ledgers_of(s, s.permits \cap Ids)
  BY <1>1, <1>2, <1>3
<1>5. ASSUME NEW c \in Classes
      PROVE  {l \in permit_ledgers(s) : l.class = c} = ledgers_of(s, s.permits \cap of_class(s, c))
  <2>1. \A i \in s.permits : i \in of_class(s, c) <=> permit_ledger(s, i).class = c
    BY <1>1, LedgerShows DEF of_class
  <2> QED BY <1>2, <1>3, <2>1
<1>6. ASSUME NEW c \in Classes, NEW p \in Phases
      PROVE  {l \in {m \in permit_ledgers(s) : m.class = c} : l.phase = p}
               = ledgers_of(s, s.permits \cap in_phase(s, c, p))
  <2>1. \A i \in s.permits : i \in in_phase(s, c, p) <=>
          permit_ledger(s, i).class = c /\ permit_ledger(s, i).phase = p
    BY <1>1, LedgerShows DEF in_phase
  <2> QED BY <1>2, <1>3, <2>1
<1>7. ASSUME NEW k \in Caps
      PROVE  {l \in permit_ledgers(s) : k \in l.capabilities}
               = ledgers_of(s, s.permits \cap of_pool(s, k))
  <2>1. \A i \in s.permits : i \in of_pool(s, k) <=> k \in permit_ledger(s, i).capabilities
    BY <1>1, LedgerShows DEF of_pool
  <2> QED BY <1>2, <1>3, <2>1
<1>8. ASSUME NEW r \in Roots
      PROVE  {l \in permit_ledgers(s) : s.spec[l.permit_id].child /\ s.spec[l.permit_id].root = r}
               = ledgers_of(s, s.permits \cap of_root(s, r))
  <2>1. \A i \in s.permits : i \in of_root(s, r) <=>
          /\ s.spec[permit_ledger(s, i).permit_id].child
          /\ s.spec[permit_ledger(s, i).permit_id].root = r
    BY <1>1, LedgerShows DEF of_root
  <2> QED BY <1>2, <1>3, <2>1
<1> QED BY <1>4, <1>5, <1>6, <1>7, <1>8, Zenon DEF Selections

\* The permits that have begun are those in the two phases that count as started.
LEMMA StartedCount ==
  ASSUME NEW s, GovernedState(s), PhaseTotals(s), NEW c \in Classes
  PROVE  Sum(s.gauge[c], {p \in Phases : has_started(p)}) = charged(s, begun(s, c), ones)
<1> DEFINE a == "Running"
           b == "CleanupPending"
           h == live(s, in_phase(s, c, a), ones)
           k == live(s, in_phase(s, c, b), ones)
           m == live(s, begun(s, c), ones)
<1>1. a # b /\ a \in Phases /\ b \in Phases /\ {p \in Phases : has_started(p)} = {a, b}
  BY DEF Phases, has_started
<1>2. s.gauge[c][a] = Sum(h, Ids) /\ s.gauge[c][b] = Sum(k, Ids)
  BY <1>1, Zenon DEF PhaseTotals, charged
<1>3. ones \in [Ids -> Nat] /\ s.permits \subseteq Ids
  BY SummandTypes, Zenon
<1>4. \A x \in Ids : h[x] \in Nat /\ k[x] \in Nat /\ m[x] = h[x] + k[x]
  <2>1. \A x \in Ids : ones[x] = 1
    BY DEF ones
  <2> QED BY <2>1 DEF live, in_phase, begun, has_started
<1> HIDE DEF h, k, m, a, b
<1>5. Sum(m, Ids) = Sum(h, Ids) + Sum(k, Ids)
  BY <1>4, IdsFinite, SumPlus
<1>6. Sum(h, Ids) \in Nat /\ Sum(k, Ids) \in Nat
  BY <1>4, IdsFinite, SumSplit
<1>7. Sum(s.gauge[c], {a, b}) = s.gauge[c][a] + s.gauge[c][b]
  <2>1. s.gauge[c][a] \in Nat /\ s.gauge[c][b] \in Nat
    BY <1>2, <1>6, Zenon
  <2> QED BY <1>1, <2>1, SumPair, Zenon
<1>8. Sum(s.gauge[c], {p \in Phases : has_started(p)}) = Sum(s.gauge[c], {a, b})
  BY <1>1, Zenon
<1>9. charged(s, begun(s, c), ones) = Sum(m, Ids)
  BY Zenon DEF m, charged
<1> QED BY <1>2, <1>5, <1>7, <1>8, <1>9

\* Every counter of a snapshot is what the ledgers of the same moment add up to, and
\* what one root is attributed is what the ledgers of its live children add up to.
LEMMA ObservedCounts ==
  ASSUME NEW s, GovernedState(s), LedgerSound(s)
  PROVE  LET ledgers == permit_ledgers(s)
             of(c) == {l \in ledgers : l.class = c}
             children(r) == {l \in ledgers : /\ s.spec[l.permit_id].child
                                             /\ s.spec[l.permit_id].root = r}
         IN /\ s.cpu = cpu_sum(ledgers) /\ s.mem = memory_sum(ledgers)
            /\ \A c \in Classes :
                 /\ s.inflight[c] = Cardinality(of(c))
                 /\ \A p \in Phases : s.gauge[c][p] = Cardinality({l \in of(c) : l.phase = p})
                 /\ s.cpu_held[c] = cpu_sum(of(c)) /\ s.mem_held[c] = memory_sum(of(c))
            /\ \A k \in Caps : s.in_use[k] = Cardinality({l \in ledgers : k \in l.capabilities})
            /\ \A r \in Roots :
                 /\ s.child_inflight[r] = Cardinality(children(r))
                 /\ s.root_cpu[r] = cpu_sum(children(r))
                 /\ s.root_mem[r] = memory_sum(children(r))
<1> DEFINE ledgers == permit_ledgers(s)
           of(c) == {l \in ledgers : l.class = c}
           children(r) == {l \in ledgers : /\ s.spec[l.permit_id].child
                                           /\ s.spec[l.permit_id].root = r}
<1>1. Selections(s) /\ \A S : Adds(s, S)
  BY SelectionsOf, LedgersAdd, Zenon
<1>2. s.cpu = cpu_sum(ledgers) /\ s.mem = memory_sum(ledgers)
  <2>1. ledgers = ledgers_of(s, s.permits \cap Ids) /\ Adds(s, Ids)
    BY <1>1, Zenon DEF Selections
  <2> QED BY <2>1, Zenon DEF Adds, LedgerSound, GlobalTotals
<1>3. ASSUME NEW c \in Classes
      PROVE  /\ s.inflight[c] = Cardinality(of(c))
             /\ s.cpu_held[c] = cpu_sum(of(c)) /\ s.mem_held[c] = memory_sum(of(c))
  <2>1. of(c) = ledgers_of(s, s.permits \cap of_class(s, c)) /\ Adds(s, of_class(s, c))
    BY <1>1, Zenon DEF Selections
  <2> HIDE DEF of
  <2> QED BY <2>1, Zenon DEF Adds, LedgerSound, ClassTotals
<1>4. ASSUME NEW c \in Classes, NEW p \in Phases
      PROVE  s.gauge[c][p] = Cardinality({l \in of(c) : l.phase = p})
  <2>1. /\ {l \in of(c) : l.phase = p} = ledgers_of(s, s.permits \cap in_phase(s, c, p))
        /\ Adds(s, in_phase(s, c, p))
    BY <1>1, Zenon DEF Selections
  <2> HIDE DEF of
  <2> QED BY <2>1, Zenon DEF Adds, LedgerSound, PhaseTotals
<1>5. ASSUME NEW k \in Caps
      PROVE  s.in_use[k] = Cardinality({l \in ledgers : k \in l.capabilities})
  <2>1. /\ {l \in ledgers : k \in l.capabilities} = ledgers_of(s, s.permits \cap of_pool(s, k))
        /\ Adds(s, of_pool(s, k))
    BY <1>1, Zenon DEF Selections
  <2> HIDE DEF ledgers
  <2> QED BY <2>1, Zenon DEF Adds, LedgerSound, PoolTotals
<1>6. ASSUME NEW r \in Roots
      PROVE  /\ s.child_inflight[r] = Cardinality(children(r))
             /\ s.root_cpu[r] = cpu_sum(children(r)) /\ s.root_mem[r] = memory_sum(children(r))
  <2>1. children(r) = ledgers_of(s, s.permits \cap of_root(s, r)) /\ Adds(s, of_root(s, r))
    BY <1>1, Zenon DEF Selections
  <2> HIDE DEF children
  <2> QED BY <2>1, Zenon DEF Adds, LedgerSound, RootTotals
<1> QED BY <1>2, <1>3, <1>4, <1>5, <1>6, Zenon

\* Every snapshot of the state is conserved.
LEMMA ObservedConserved ==
  ASSUME NEW s, GovernedState(s), LedgerSound(s),
         \A k \in Caps : CapLimit[k] # 0 => s.in_use[k] <= CapLimit[k]
  PROVE  conserved(snapshot(s))
<1>1. ASSUME NEW c \in Classes PROVE class_conserved(class_snapshot(s, c))
  <2> DEFINE v == class_snapshot(s, c)
  <2>1. /\ v.inflight = s.inflight[c] /\ v.phases = s.gauge[c]
        /\ v.admitted_total = s.admitted[c] /\ v.started_total = s.started[c]
        /\ v.terminated_total = s.terminated[c]
    BY DEF class_snapshot
  <2>2. PhasesOf(s, c)
    BY Zenon DEF LedgerSound, PhaseTotals, PhasesOf
  <2>3. Sum(s.gauge[c], {p \in Phases : has_started(p)}) <= s.started[c]
    BY <2>2, StartedCount, Zenon DEF LedgerSound, PhasesOf
  <2>4. s.started[c] <= s.admitted[c]
    <3>1. charged(s, waiting(s, c), ones) \in Nat
      BY SummandTypes, ChargedType, Zenon
    <3>2. s.started[c] \in Nat /\ s.admitted[c] \in Nat
      BY DEF GovernedState
    <3> QED BY <2>2, <3>1, <3>2 DEF PhasesOf
  <2> HIDE DEF v
  <2>5. /\ v.inflight = Sum(v.phases, Phases)
        /\ v.admitted_total = v.inflight + v.terminated_total
        /\ v.started_total <= v.admitted_total
        /\ Sum(v.phases, {p \in Phases : has_started(p)}) <= v.started_total
    BY <2>1, <2>2, <2>3, <2>4, Zenon DEF PhasesOf
  <2>6. \A x, y : x <= y <=> y >= x
    OBVIOUS
  <2>7. v.started_total >= Sum(v.phases, {p \in Phases : has_started(p)})
    BY <2>5, <2>6, Zenon
  <2>8. class_conserved(v)
    BY <2>5, <2>7, Zenon DEF class_conserved, Sum
  <2> QED BY <2>8, Zenon DEF v
<1> DEFINE view == snapshot(s)
<1>2. view.classes = [c \in Classes |-> class_snapshot(s, c)]
  BY DEF snapshot
<1>3. view.capabilities = [k \in Caps |-> capability_usage(s, k)]
  BY DEF snapshot
<1>4. \A k \in Caps : capability_usage(s, k).limit # 0
                      => capability_usage(s, k).in_use <= capability_usage(s, k).limit
  BY DEF capability_usage
<1> HIDE DEF view
<1>5. conserved(view)
  BY <1>1, <1>2, <1>3, <1>4, Zenon DEF conserved
<1> QED BY <1>5, Zenon DEF view

\* The engine's own oracle holds.
LEMMA OracleHolds ==
  ASSUME NEW s, CustodySound(s), LedgerSound(s),
         \A i \in Ids : s.tickets[i] \in {"Granted", "Claiming"} => i \in s.permits
  PROVE  assert_consistent(s)
<1>1. GovernedState(s)
  BY Zenon DEF CustodySound
<1>2. /\ s.cpu = Sum(s.cpu_held, Classes) /\ s.mem = Sum(s.mem_held, Classes)
      /\ \A c \in Classes : /\ s.inflight[c] = Sum(s.gauge[c], Phases)
                            /\ s.admitted[c] = s.inflight[c] + s.terminated[c]
  BY Zenon DEF LedgerSound, GlobalTotals, PhaseTotals
<1>3. \A i \in s.permits : s.nonce[i] # None <=> s.phase[i] # "DispatchReserved"
  BY Zenon DEF CustodySound
<1> QED BY <1>1, <1>2, <1>3, ObservedCounts, Zenon DEF assert_consistent, Sum

-----------------------------------------------------------------------------
\* The books over the steps of the Governor

\* Nothing is charged while nothing is live.
LEMMA NothingCharged ==
  ASSUME NEW s, GovernedState(s), s.permits = {}, NEW S, NEW h
  PROVE  charged(s, S, h) = 0
<1> DEFINE w == live(s, S, h)
<1>1. \A x \in Ids : w[x] = 0
  BY DEF live
<1> HIDE DEF w
<1>2. Sum(w, Ids) = 0
  BY <1>1, IdsFinite, SumZero
<1> QED BY <1>2, Zenon DEF charged, w

\* The books of a new Governor are in order.
LEMMA BooksEmpty ==
  ASSUME NEW s, s = Empty, GovernedState(s)
  PROVE  BooksSound(s)
<1>1. s.permits = {} /\ ~s.fault /\ s.cpu = 0 /\ s.mem = 0
  BY Zenon DEF Empty
<1>2. \A S, h : charged(s, S, h) = 0
  BY <1>1, NothingCharged, Zenon
<1>3. \A c \in Classes : /\ s.inflight[c] = 0 /\ s.admitted[c] = 0 /\ s.started[c] = 0
                         /\ s.terminated[c] = 0 /\ s.cpu_held[c] = 0 /\ s.mem_held[c] = 0
                         /\ \A p \in Phases : s.gauge[c][p] = 0
  <2>1. /\ s.inflight = [c \in Classes |-> 0] /\ s.admitted = [c \in Classes |-> 0]
        /\ s.started = [c \in Classes |-> 0] /\ s.terminated = [c \in Classes |-> 0]
        /\ s.cpu_held = [c \in Classes |-> 0] /\ s.mem_held = [c \in Classes |-> 0]
        /\ s.gauge = [c \in Classes |-> [p \in Phases |-> 0]]
    BY Zenon DEF Empty
  <2> QED BY <2>1
<1>4. /\ \A k \in Caps : s.in_use[k] = 0
      /\ \A r \in Roots : s.child_inflight[r] = 0 /\ s.root_cpu[r] = 0 /\ s.root_mem[r] = 0
  <2>1. /\ s.in_use = [k \in Caps |-> 0] /\ s.child_inflight = [r \in Roots |-> 0]
        /\ s.root_cpu = [r \in Roots |-> 0] /\ s.root_mem = [r \in Roots |-> 0]
    BY Zenon DEF Empty
  <2> QED BY <2>1, Zenon
<1>5. Sum(s.cpu_held, Classes) = 0 /\ Sum(s.mem_held, Classes) = 0
  <2>1. /\ IsFiniteSet(Classes) /\ 0 \in Nat
        /\ \A c \in Classes : s.cpu_held[c] = 0 /\ s.mem_held[c] = 0
    BY <1>3, ClassesAssumption
  <2>2. \A c \in Classes : s.cpu_held[c] \in Nat /\ s.mem_held[c] \in Nat
    BY <2>1, Zenon
  <2> QED BY <2>1, <2>2, SumZero, Zenon
<1>6. ASSUME NEW c \in Classes PROVE Sum(s.gauge[c], Phases) = 0
  <2>1. IsFiniteSet(Phases)
    BY PhaseFacts, Zenon
  <2>2. \A p \in Phases : s.gauge[c][p] = 0
    BY <1>3, Zenon
  <2> QED BY <2>1, <2>2, SumZero
<1>7. GlobalTotals(s) /\ ClassTotals(s) /\ PoolTotals(s) /\ RootTotals(s)
  BY <1>1, <1>2, <1>3, <1>4, <1>5, Zenon DEF GlobalTotals, ClassTotals, PoolTotals, RootTotals
<1>8. PhaseTotals(s)
  BY <1>2, <1>3, <1>6 DEF PhaseTotals
<1> QED BY <1>1, <1>7, <1>8, Zenon DEF BooksSound, LedgerSound, Stopped

\* A step keeps the books, and after a fault it ends permits at most.
LEMMA BooksStep ==
  ASSUME NEW s, CustodySound(s), BooksSound(s), NEW g, CustodySound(g), Step(g, s)
  PROVE  BooksSound(g) /\ (s.fault => g.fault /\ g.permits \subseteq s.permits)
<1>1. PICK r, m : /\ CustodySound(r) /\ CustodySound(m) /\ Kept(r, s) /\ Change(m, r)
                  /\ Kept(g, m) \/ \E i : Forgetting(g, m, i)
  BY Zenon DEF Step
<1>2. GovernedState(r) /\ GovernedState(m) /\ GovernedState(g)
  BY <1>1, Zenon DEF CustodySound
<1>3. Change(r, s) /\ Change(g, m)
  BY <1>1, Zenon DEF Change
<1>4. BooksSound(r)
  BY <1>2, <1>3, BooksKept, Zenon
<1>5. BooksSound(m)
  BY <1>1, <1>2, <1>4, BooksKept, Zenon
<1>6. BooksSound(g)
  BY <1>1, <1>2, <1>3, <1>5, BooksKept, Zenon
<1>7. ASSUME s.fault PROVE g.fault /\ g.permits \subseteq s.permits
  <2>1. r.fault /\ r.permits \subseteq s.permits
    BY <1>2, <1>3, <1>7, ChangeStops, Zenon
  <2>2. m.fault /\ m.permits \subseteq r.permits
    BY <1>1, <1>2, <1>4, <2>1, ChangeStops, Zenon
  <2>3. g.fault /\ g.permits \subseteq m.permits
    BY <1>1, <1>2, <1>3, <1>5, <2>2, ChangeStops, Zenon
  <2> QED BY <2>1, <2>2, <2>3, Zenon
<1> QED BY <1>6, <1>7, Zenon

=============================================================================
