-------------------------- MODULE ProvisionProofs --------------------------
(***************************************************************************)
(* Two parts of provision: what the extraction of an archive leaves, for   *)
(* any entries in any order, any limits and any errors on the way; and     *)
(* what the order of flushes and rename keeps through a loss of power, for *)
(* any archive and any number of attempts.                                 *)
(***************************************************************************)
EXTENDS ArchiveExtract, CacheDurability, SequenceTheorems, FiniteSetTheorems,
        WellFoundedInduction, TLAPS

Paths == Seq(STRING) \ {<<>>}

-----------------------------------------------------------------------------
(* Paths.                                                                  *)

\* The first i components of a path.
Prefix(p, i) == SubSeq(p, 1, i)

\* They are a path, with as many components and the same prefixes.
LEMMA PrefixFacts ==
  ASSUME NEW n \in Paths
  PROVE  /\ n \in Seq(STRING) /\ Len(n) \in Nat \ {0}
         /\ \A i \in 1..Len(n) :
              /\ Prefix(n, i) \in Paths /\ Len(Prefix(n, i)) = i
              /\ \A j \in 1..i : Prefix(Prefix(n, i), j) = Prefix(n, j)
<1>1. n \in Seq(STRING) /\ n # <<>>
  BY DEF Paths
<1>2. Len(n) \in Nat \ {0}
  BY <1>1, EmptySeq
<1>3. ASSUME NEW i \in 1..Len(n)
      PROVE  /\ Prefix(n, i) \in Paths /\ Len(Prefix(n, i)) = i
             /\ \A j \in 1..i : Prefix(Prefix(n, i), j) = Prefix(n, j)
  <2> DEFINE q == Prefix(n, i)
  <2>1. q \in Seq(STRING) /\ Len(q) = i /\ \A j \in 1..i : q[j] = n[j]
    BY <1>1, <1>2 DEF Prefix
  <2> HIDE DEF q
  <2>2. q \in Paths
    BY <1>2, <2>1, EmptySeq DEF Paths
  <2>3. ASSUME NEW j \in 1..i PROVE Prefix(q, j) = Prefix(n, j)
    <3>1. /\ Prefix(n, j) \in Seq(STRING) /\ Len(Prefix(n, j)) = j
          /\ \A k \in 1..j : Prefix(n, j)[k] = n[k]
      BY <1>1, <1>2 DEF Prefix
    <3>2. /\ Prefix(q, j) \in Seq(STRING) /\ Len(Prefix(q, j)) = j
          /\ \A k \in 1..j : Prefix(q, j)[k] = q[k]
      BY <2>1 DEF Prefix
    <3>3. \A k \in 1..j : Prefix(q, j)[k] = Prefix(n, j)[k]
      BY <2>1, <3>1, <3>2
    <3> QED
      BY ONLY <3>1, <3>2, <3>3, SeqEqual
  <2> QED
    BY <2>1, <2>2, <2>3 DEF q
<1> QED
  BY <1>1, <1>2, <1>3

\* The parents of a path are shorter paths, with every parent of their own.
LEMMA ParentFacts ==
  ASSUME NEW n \in Paths
  PROVE  /\ Parents(n) \subseteq Paths /\ n \notin Parents(n)
         /\ Len(n) \in Nat /\ \A p \in Parents(n) : Len(p) \in Nat /\ Len(p) < Len(n)
         /\ \A p \in Parents(n) : Parents(p) \subseteq Parents(n)
         /\ Len(n) > 1 => Front(n) \in Parents(n)
<1>1. /\ Len(n) \in Nat
      /\ \A i \in 1..Len(n) :
           /\ Prefix(n, i) \in Paths /\ Len(Prefix(n, i)) = i
           /\ \A j \in 1..i : Prefix(Prefix(n, i), j) = Prefix(n, j)
  BY PrefixFacts
<1>2. Parents(n) = {Prefix(n, i) : i \in 1..(Len(n) - 1)}
  BY DEF Parents, Prefix
<1>3. ASSUME NEW p \in Parents(n)
      PROVE  /\ p \in Paths /\ Len(p) \in Nat /\ Len(p) < Len(n)
             /\ Parents(p) \subseteq Parents(n)
  <2>1. PICK i \in 1..(Len(n) - 1) : p = Prefix(n, i)
    BY <1>2
  <2>2. p \in Paths /\ Len(p) = i /\ \A j \in 1..i : Prefix(p, j) = Prefix(n, j)
    BY <1>1, <2>1
  <2>3. Parents(p) = {Prefix(p, j) : j \in 1..(Len(p) - 1)}
    BY DEF Parents, Prefix
  <2> QED
    BY <1>1, <1>2, <2>2, <2>3
<1>4. Len(n) > 1 => Front(n) \in Parents(n)
  BY <1>1, <1>2 DEF Front, Prefix
<1> QED
  BY <1>1, <1>3, <1>4

\* A set of naturals that is not empty has a least member.
LEMMA LeastMember ==
  ASSUME NEW S \in SUBSET Nat, S # {}
  PROVE  Min(S) \in S /\ \A y \in S : Min(S) <= y
<1>1. \E x \in S : \A y \in S : ~(<<y, x>> \in OpToRel(<, Nat))
  BY NatLessThanWellFounded, WFMin
<1>2. PICK x \in S : \A y \in S : ~(<<y, x>> \in OpToRel(<, Nat))
  BY <1>1
<1>3. \A y \in S : x <= y
  <2> SUFFICES ASSUME NEW y \in S, y < x PROVE FALSE
    OBVIOUS
  <2>1. y \in Nat /\ x \in Nat
    OBVIOUS
  <2>2. <<y, x>> \in OpToRel(<, Nat)
    BY Zenon, <2>1 DEF OpToRel
  <2> QED
    BY <1>2, <2>2
<1> QED
  BY <1>3 DEF Min

-----------------------------------------------------------------------------
(* Folds and sums.                                                          *)

\* Among finite sets one is smallest.
LEMMA SmallestMember ==
  ASSUME NEW C, C # {}, \A s \in C : IsFiniteSet(s)
  PROVE  \E s \in C : \A t \in C : Cardinality(s) <= Cardinality(t)
<1> DEFINE sizes == {Cardinality(s) : s \in C}
<1>1. sizes \in SUBSET Nat /\ sizes # {}
  BY FS_CardinalityType
<1> HIDE DEF sizes
<1>2. Min(sizes) \in sizes /\ \A y \in sizes : Min(sizes) <= y
  BY <1>1, LeastMember
<1> QED
  BY <1>2 DEF sizes

\* The recursion of MapThenFoldSet: g takes the elements of a set away one by one,
\* in the order c gives, and applies to what is left the function step has for it.
IsFold(g, S, c, step, base) ==
  /\ g[{}] = base
  /\ \A s \in SUBSET S : s # {} => g[s] = step[c[s]][g[s \ {c[s]}]]

\* A choice function: an element of every set that is not empty.
Chooses(c, S) == \A s \in SUBSET S : s # {} => c[s] \in s

\* Such a recursion over a finite set defines a function.
LEMMA FoldExists ==
  ASSUME NEW S, IsFiniteSet(S), NEW V, NEW c, Chooses(c, S), NEW base \in V,
         NEW step \in [S -> [V -> V]]
  PROVE  \E g \in [SUBSET S -> V] : IsFold(g, S, c, step, base)
<1> DEFINE UpTo(n) == {s \in SUBSET S : Cardinality(s) <= n}
           Folded(n) == \E g \in [UpTo(n) -> V] :
             /\ g[{}] = base
             /\ \A s \in UpTo(n) : s # {} => g[s] = step[c[s]][g[s \ {c[s]}]]
           bad == {n \in Nat : ~Folded(n)}
<1>1. \A s \in SUBSET S : IsFiniteSet(s) /\ Cardinality(s) \in Nat /\ Cardinality(s) <= Cardinality(S)
  BY FS_Subset, FS_CardinalityType
<1>2. Cardinality(S) \in Nat
  BY FS_CardinalityType
<1>3. \A s \in SUBSET S : s # {} => /\ c[s] \in s /\ c[s] \in S
                                    /\ s \ {c[s]} \in SUBSET S
                                    /\ Cardinality(s \ {c[s]}) = Cardinality(s) - 1
  <2> SUFFICES ASSUME NEW s \in SUBSET S, s # {}
               PROVE  /\ c[s] \in s /\ c[s] \in S /\ s \ {c[s]} \in SUBSET S
                      /\ Cardinality(s \ {c[s]}) = Cardinality(s) - 1
    OBVIOUS
  <2>1. c[s] \in s
    BY DEF Chooses
  <2> QED
    BY <1>1, <2>1, FS_RemoveElement
<1>4. {} \in SUBSET S /\ Cardinality({}) = 0
  BY FS_EmptySet
<1>5. \A s \in SUBSET S : Cardinality(s) = 0 => s = {}
  BY <1>1, FS_EmptySet
<1>6. Folded(0)
  <2>1. UpTo(0) = {{}}
    <3>1. {} \in UpTo(0)
      BY <1>4
    <3>2. ASSUME NEW s \in UpTo(0) PROVE s = {}
      <4>1. s \in SUBSET S /\ Cardinality(s) \in Nat /\ Cardinality(s) <= 0
        BY <1>1
      <4> QED
        BY <1>5, <4>1
    <3> QED
      BY <3>1, <3>2
  <2> DEFINE g == [s \in UpTo(0) |-> base]
  <2>2. g \in [UpTo(0) -> V] /\ g[{}] = base
    BY <2>1
  <2>3. \A s \in UpTo(0) : s = {}
    BY <2>1
  <2> HIDE DEF g, UpTo
  <2> QED
    BY <2>2, <2>3
<1>7. ASSUME NEW m \in Nat, Folded(m) PROVE Folded(m + 1)
  <2>1. PICK g \in [UpTo(m) -> V] :
             /\ g[{}] = base
             /\ \A s \in UpTo(m) : s # {} => g[s] = step[c[s]][g[s \ {c[s]}]]
    BY <1>7
  <2> DEFINE h == [s \in UpTo(m + 1) |-> IF s = {} THEN base ELSE step[c[s]][g[s \ {c[s]}]]]
  <2>2. \A s \in UpTo(m + 1) : s # {} => s \ {c[s]} \in UpTo(m)
    <3> SUFFICES ASSUME NEW s \in UpTo(m + 1), s # {} PROVE s \ {c[s]} \in UpTo(m)
      OBVIOUS
    <3>1. Cardinality(s) \in Nat /\ Cardinality(s) <= m + 1 /\ s \in SUBSET S
      BY <1>1
    <3>2. s \ {c[s]} \in SUBSET S /\ Cardinality(s \ {c[s]}) = Cardinality(s) - 1
      BY <1>3, <3>1
    <3>3. Cardinality(s \ {c[s]}) <= m
      BY <3>1, <3>2
    <3> QED
      BY <3>2, <3>3
  <2>3. {} \in UpTo(m + 1) /\ UpTo(m) \subseteq UpTo(m + 1)
    BY <1>1, <1>4
  <2>4. \A s \in UpTo(m + 1) : s \in SUBSET S
    OBVIOUS
  <2> HIDE DEF UpTo
  <2>5. h \in [UpTo(m + 1) -> V] /\ h[{}] = base
    <3>1. ASSUME NEW s \in UpTo(m + 1), s # {} PROVE step[c[s]][g[s \ {c[s]}]] \in V
      <4>1. c[s] \in S
        BY <1>3, <2>4, <3>1
      <4>2. g[s \ {c[s]}] \in V
        BY <2>1, <2>2, <3>1
      <4> QED
        BY <4>1, <4>2
    <3> QED
      BY <2>3, <3>1
  <2>6. \A s \in UpTo(m) : h[s] = g[s]
    BY <2>1, <2>3
  <2>7. \A s \in UpTo(m + 1) : s # {} => h[s] = step[c[s]][h[s \ {c[s]}]]
    BY <2>2, <2>6
  <2> HIDE DEF h
  <2> QED
    BY <2>5, <2>7
<1>8. \A n \in Nat : Folded(n)
  <2> SUFFICES ASSUME bad # {} PROVE FALSE
    OBVIOUS
  <2>1. bad \in SUBSET Nat
    OBVIOUS
  <2> HIDE DEF bad
  <2>2. Min(bad) \in bad /\ \A y \in bad : Min(bad) <= y
    BY <2>1, LeastMember
  <2> DEFINE n == Min(bad)
  <2>3. n \in Nat /\ ~Folded(n) /\ \A k \in Nat : k < n => Folded(k)
    <3> HIDE DEF Folded
    <3> QED
      BY <2>1, <2>2 DEF bad
  <2> HIDE DEF n, Folded
  <2>4. n # 0
    BY <1>6, <2>3
  <2>5. n - 1 \in Nat /\ n - 1 < n /\ (n - 1) + 1 = n
    BY <2>3, <2>4
  <2>6. Folded((n - 1) + 1)
    BY <1>7, <2>3, <2>5
  <2> QED
    BY <2>3, <2>5, <2>6
<1>9. UpTo(Cardinality(S)) = SUBSET S
  BY <1>1
<1>10. Folded(Cardinality(S))
  <2> HIDE DEF Folded
  <2> QED
    BY <1>2, <1>8
<1> QED
  BY <1>9, <1>10 DEF IsFold

\* The sum MapThenSumSet computes, of the values f has on S.
Pick(s) == CHOOSE x \in s : TRUE
IsSum(g, f, S) ==
  g = [s \in SUBSET S |-> IF s = {} THEN 0 ELSE f[Pick(s)] + g[s \ {Pick(s)}]]
Sum(f, S) == (CHOOSE g : IsSum(g, f, S))[S]

\* There is such a sum.
LEMMA SumExists ==
  ASSUME NEW S, IsFiniteSet(S), NEW f, \A x \in S : f[x] \in Nat
  PROVE  \E g \in [SUBSET S -> Nat] : IsSum(g, f, S)
<1> DEFINE c == [s \in SUBSET S |-> Pick(s)]
           step == [x \in S |-> [n \in Nat |-> f[x] + n]]
<1>1. \A s \in SUBSET S : s # {} => Pick(s) \in s /\ Pick(s) \in S /\ c[s] = Pick(s)
  BY DEF Pick
<1>2. Chooses(c, S)
  BY <1>1 DEF Chooses
<1>3. step \in [S -> [Nat -> Nat]] /\ \A x \in S, n \in Nat : step[x][n] = f[x] + n
  OBVIOUS
<1> HIDE DEF c, step
<1>4. PICK g \in [SUBSET S -> Nat] : IsFold(g, S, c, step, 0)
  BY <1>2, <1>3, FoldExists
<1>5. ASSUME NEW s \in SUBSET S
      PROVE  g[s] = IF s = {} THEN 0 ELSE f[Pick(s)] + g[s \ {Pick(s)}]
  <2>1. CASE s = {}
    BY <1>4, <2>1 DEF IsFold
  <2>2. CASE s # {}
    <3>1. g[s] = step[Pick(s)][g[s \ {Pick(s)}]]
      BY <1>1, <1>4, <2>2 DEF IsFold
    <3>2. g[s \ {Pick(s)}] \in Nat
      BY <1>4
    <3> QED
      BY <1>1, <1>3, <2>2, <3>1, <3>2
  <2> QED
    BY <2>1, <2>2
<1> QED
  BY <1>4, <1>5 DEF IsSum

\* The order in which the elements are taken does not matter, nor what the values
\* are outside of the set.
LEMMA SumSteps ==
  ASSUME NEW S, IsFiniteSet(S), NEW f, \A x \in S : f[x] \in Nat,
         NEW g, IsSum(g, f, S)
  PROVE  \A s \in SUBSET S : /\ g[s] \in Nat
                             /\ \A x \in s : g[s] = f[x] + g[s \ {x}]
<1> DEFINE Good(s) == g[s] \in Nat /\ \A x \in s : g[s] = f[x] + g[s \ {x}]
           bad == {s \in SUBSET S : ~Good(s)}
<1> SUFFICES ASSUME bad # {} PROVE FALSE
  OBVIOUS
<1>1. \A s \in SUBSET S : IsFiniteSet(s) /\ Cardinality(s) \in Nat
  BY FS_Subset, FS_CardinalityType
<1>2. \A s \in bad : s \in SUBSET S /\ IsFiniteSet(s)
  BY <1>1
<1>3. PICK s \in bad : \A t \in bad : Cardinality(s) <= Cardinality(t)
  <2> HIDE DEF bad
  <2> QED
    BY <1>2, SmallestMember
<1>4. s \in SUBSET S /\ ~Good(s) /\ Cardinality(s) \in Nat /\ IsFiniteSet(s)
  BY <1>1, <1>3
<1>5. ASSUME NEW x \in s PROVE Good(s \ {x})
  <2>1. s \ {x} \in SUBSET S /\ Cardinality(s \ {x}) < Cardinality(s)
    <3>1. Cardinality(s \ {x}) = Cardinality(s) - 1
      BY <1>4, FS_RemoveElement
    <3> QED
      BY <1>4, <3>1
  <2>2. Cardinality(s \ {x}) \in Nat
    BY <1>1, <2>1
  <2> HIDE DEF Good
  <2> QED
    BY <1>3, <1>4, <2>1, <2>2
<1>6. \A t \in SUBSET S : g[t] = IF t = {} THEN 0 ELSE f[Pick(t)] + g[t \ {Pick(t)}]
  BY DEF IsSum
<1>7. CASE s = {}
  <2>1. g[s] = 0
    BY <1>4, <1>6, <1>7
  <2>2. Good(s)
    BY <1>7, <2>1
  <2> QED
    BY <1>4, <2>2
<1>8. CASE s # {}
  <2> DEFINE c == Pick(s)
  <2>1. c \in s
    BY <1>8 DEF Pick
  <2> HIDE DEF c
  <2>2. g[s] = f[c] + g[s \ {c}]
    BY <1>4, <1>6, <1>8 DEF c
  <2>3. g[s] \in Nat
    BY <1>4, <1>5, <2>1, <2>2
  <2>4. ASSUME NEW x \in s PROVE g[s] = f[x] + g[s \ {x}]
    <3>1. CASE x = c
      BY <2>2, <3>1
    <3>2. CASE x # c
      <4>1. g[s \ {c}] = f[x] + g[(s \ {c}) \ {x}]
        BY <1>5, <2>1, <3>2
      <4>2. g[s \ {x}] = f[c] + g[(s \ {x}) \ {c}]
        BY <1>5, <2>1, <3>2
      <4>3. (s \ {c}) \ {x} = (s \ {x}) \ {c}
        OBVIOUS
      <4>4. f[x] \in Nat /\ f[c] \in Nat
        BY <1>4, <2>1
      <4>5. g[(s \ {x}) \ {c}] \in Nat
        <5>1. Good(s \ {x})
          BY <1>5
        <5>2. c \in s \ {x}
          BY <2>1, <3>2
        <5>3. (s \ {x}) \ {c} \in SUBSET S /\ Cardinality((s \ {x}) \ {c}) < Cardinality(s)
          <6>1. IsFiniteSet(s \ {x}) /\ Cardinality(s \ {x}) = Cardinality(s) - 1
            BY <1>4, FS_RemoveElement
          <6>2. Cardinality((s \ {x}) \ {c}) = Cardinality(s \ {x}) - 1
            BY <5>2, <6>1, FS_RemoveElement
          <6> QED
            BY <1>4, <6>1, <6>2
        <5>4. Cardinality((s \ {x}) \ {c}) \in Nat
          BY <1>1, <5>3
        <5>5. (s \ {x}) \ {c} \notin bad
          <6> HIDE DEF bad
          <6> QED
            BY <1>3, <1>4, <5>3, <5>4
        <5> QED
          BY <5>3, <5>5
      <4> DEFINE rest == g[(s \ {x}) \ {c}]
      <4>6. g[s] = f[c] + (f[x] + rest) /\ g[s \ {x}] = f[c] + rest /\ rest \in Nat
        BY <2>2, <4>1, <4>2, <4>3, <4>5
      <4> HIDE DEF rest
      <4> QED
        BY <4>4, <4>6
    <3> QED
      BY <3>1, <3>2
  <2> QED
    BY <1>4, <2>3, <2>4
<1> QED
  BY <1>7, <1>8

\* Two sums agree on the sets they have in common.
LEMMA SumAgrees ==
  ASSUME NEW S, IsFiniteSet(S), NEW f, \A x \in S : f[x] \in Nat,
         NEW T, IsFiniteSet(T), NEW h, S \subseteq T, \A x \in T : h[x] \in Nat,
         \A x \in S : h[x] = f[x],
         NEW u, IsSum(u, f, S), NEW v, IsSum(v, h, T)
  PROVE  \A s \in SUBSET S : u[s] = v[s]
<1> DEFINE bad == {s \in SUBSET S : u[s] # v[s]}
<1> SUFFICES ASSUME bad # {} PROVE FALSE
  OBVIOUS
<1>1. \A s \in SUBSET S : IsFiniteSet(s) /\ Cardinality(s) \in Nat
  BY FS_Subset, FS_CardinalityType
<1>2. \A s \in bad : s \in SUBSET S /\ IsFiniteSet(s)
  BY <1>1
<1>3. PICK s \in bad : \A t \in bad : Cardinality(s) <= Cardinality(t)
  <2> HIDE DEF bad
  <2> QED
    BY <1>2, SmallestMember
<1>4. s \in SUBSET S /\ s \in SUBSET T /\ u[s] # v[s] /\ Cardinality(s) \in Nat /\ IsFiniteSet(s)
  BY <1>1, <1>3
<1>5. /\ u[s] = IF s = {} THEN 0 ELSE f[Pick(s)] + u[s \ {Pick(s)}]
      /\ v[s] = IF s = {} THEN 0 ELSE h[Pick(s)] + v[s \ {Pick(s)}]
  BY <1>4 DEF IsSum
<1>6. s # {} /\ Pick(s) \in s
  BY <1>4, <1>5 DEF Pick
<1>7. s \ {Pick(s)} \in SUBSET S /\ Cardinality(s \ {Pick(s)}) < Cardinality(s)
  <2>1. Cardinality(s \ {Pick(s)}) = Cardinality(s) - 1
    BY <1>4, <1>6, FS_RemoveElement
  <2> QED
    BY <1>4, <2>1
<1>8. u[s \ {Pick(s)}] = v[s \ {Pick(s)}]
  <2>1. Cardinality(s \ {Pick(s)}) \in Nat
    BY <1>1, <1>7
  <2>2. s \ {Pick(s)} \notin bad
    BY <1>3, <1>4, <1>7, <2>1
  <2> QED
    BY <1>7, <2>2
<1> QED
  BY <1>4, <1>5, <1>6, <1>8

\* What is used of sums.
LEMMA SumFacts ==
  ASSUME NEW S, IsFiniteSet(S), NEW f, \A x \in S : f[x] \in Nat
  PROVE  /\ Sum(f, S) \in Nat
         /\ S = {} => Sum(f, S) = 0
         /\ \A x \in S : Sum(f, S) = f[x] + Sum(f, S \ {x})
<1> DEFINE g == CHOOSE g : IsSum(g, f, S)
<1>1. IsSum(g, f, S)
  BY SumExists
<1>2. Sum(f, S) = g[S]
  BY DEF Sum
<1> HIDE DEF g
<1>3. Sum(f, S) \in Nat
  BY <1>1, <1>2, SumSteps
<1>4. S = {} => Sum(f, S) = 0
  BY <1>1, <1>2 DEF IsSum
<1>5. ASSUME NEW x \in S PROVE Sum(f, S) = f[x] + Sum(f, S \ {x})
  <2> DEFINE T == S \ {x}
             h == CHOOSE h : IsSum(h, f, T)
  <2>1. IsFiniteSet(T) /\ T \subseteq S /\ \A y \in T : f[y] \in Nat
    BY FS_RemoveElement
  <2> HIDE DEF T
  <2>2. IsSum(h, f, T)
    BY <2>1, SumExists
  <2>3. Sum(f, T) = h[T]
    BY DEF Sum
  <2> HIDE DEF h
  <2>4. g[T] = h[T]
    BY <1>1, <2>1, <2>2, SumAgrees
  <2>5. g[S] = f[x] + g[T]
    BY <1>1, SumSteps DEF T
  <2> QED
    BY <1>2, <2>3, <2>4, <2>5 DEF T
<1> QED
  BY <1>3, <1>4, <1>5

\* Only the values on the set matter.
LEMMA SumSame ==
  ASSUME NEW S, IsFiniteSet(S), NEW f, \A x \in S : f[x] \in Nat,
         NEW h, \A x \in S : h[x] = f[x]
  PROVE  Sum(h, S) = Sum(f, S)
<1> DEFINE u == CHOOSE g : IsSum(g, f, S)
           v == CHOOSE g : IsSum(g, h, S)
<1>1. IsSum(u, f, S) /\ IsSum(v, h, S)
  BY SumExists
<1>2. Sum(f, S) = u[S] /\ Sum(h, S) = v[S]
  BY DEF Sum
<1> HIDE DEF u, v
<1> QED
  BY <1>1, <1>2, SumAgrees

-----------------------------------------------------------------------------
(* Names and entries.                                                      *)

\* normalizeArchivePath makes a path of any raw name.
LEMMA CleanPath ==
  ASSUME NEW raw \in Paths
  PROVE  Clean(raw) \in Paths
<1> DEFINE starts == {i \in 1..Len(raw) : raw[i] # "." \/ i = Len(raw)}
           start == Min(starts)
           rest == SubSeq(raw, start, Len(raw))
<1>1. Len(raw) \in Nat /\ Len(raw) >= 1 /\ raw \in Seq(STRING)
  BY DEF Paths
<1>2. starts \in SUBSET Nat /\ starts # {}
  BY <1>1
<1>3. start \in 1..Len(raw)
  <2> HIDE DEF starts
  <2>1. start \in starts
    BY <1>2, LeastMember
  <2> QED
    BY <2>1 DEF starts
<1> HIDE DEF start
<1>4. rest \in Seq(STRING) /\ Len(rest) = Len(raw) - start + 1
  <2>1. start \in Int /\ Len(raw) \in Int /\ start <= Len(raw)
        /\ \A i \in start..Len(raw) : raw[i] \in STRING
    BY <1>1, <1>3
  <2> QED
    BY ONLY <2>1, SubSeqProperties
<1>5. rest \in Paths
  <2>1. Len(rest) >= 1
    BY <1>1, <1>3, <1>4
  <2> HIDE DEF rest
  <2>2. rest # <<>>
    BY <2>1, EmptySeq
  <2> QED
    BY <1>4, <2>2 DEF Paths
<1> HIDE DEF rest
<1>6. Len(rest) > 1 => Front(rest) \in Paths
  BY <1>5, ParentFacts
<1>7. Clean(raw) = IF Len(rest) > 1 /\ Last(rest) = "" THEN Front(rest) ELSE rest
  BY DEF Clean, rest, start
<1> QED
  BY <1>5, <1>6, <1>7

\* The entries and the names they are accepted under.
LEMMA EntryFacts ==
  ASSUME NEW e \in Entries
  PROVE  /\ e.name \in Paths /\ e.target \in Paths /\ Clean(e.name) \in Paths
         /\ Clean(e.target) \in Paths /\ e.kind \in Kinds /\ e.mode \subseteq Permissions
         /\ e.size \in Nat /\ e.data \in Nat /\ e # NoEntry
<1>1. e.name \in Paths /\ e.target \in Paths
  BY EntriesAssumption DEF Paths
<1> QED
  BY <1>1, CleanPath, EntriesAssumption, NoEntryAssumption

\* The larger of two naturals is one of them.
LEMMA LargerOfTwo ==
  ASSUME NEW a \in Nat, NEW b \in Nat
  PROVE  Max({a, b}) \in {a, b} /\ Max({a, b}) \in Nat /\ Max({a, b}) >= a /\ Max({a, b}) >= b
<1>1. \E x \in {a, b} : \A y \in {a, b} : x >= y
  OBVIOUS
<1> QED
  BY <1>1 DEF Max

\* The smaller one is one of them too.
LEMMA SmallerOfTwo ==
  ASSUME NEW a \in Nat, NEW b \in Nat
  PROVE  Min({a, b}) \in {a, b} /\ Min({a, b}) \in Nat /\ Min({a, b}) <= a /\ Min({a, b}) <= b
<1>1. {a, b} \in SUBSET Nat /\ {a, b} # {}
  OBVIOUS
<1> QED
  BY <1>1, LeastMember

-----------------------------------------------------------------------------
(* Types.                                                                  *)

Nodes ==
  [type : {"dir", "reg", "symlink"}, mode : SUBSET Permissions, size : Nat,
   of : Seq(STRING)]

TypeInv ==
  /\ TypeOK
  /\ \A p \in DOMAIN tree : tree[p] \in Nodes
  /\ \A n \in DOMAIN directoryModes : directoryModes[n] \subseteq Permissions

\* What is made is a node.
LEMMA NewNodes ==
  ASSUME NEW type \in {"dir", "reg", "symlink"}, NEW mode \in SUBSET Permissions,
         NEW of \in Seq(STRING)
  PROVE  Node(type, mode, of) \in Nodes
BY DEF Node, Nodes

\* So is a directory.
LEMMA NewDirs ==
  ASSUME NEW mode \in SUBSET Permissions
  PROVE  Dir(mode) \in Nodes
<1>1. <<>> \in Seq(STRING)
  BY EmptySeq
<1>2. Node("dir", mode, <<>>) \in Nodes
  BY <1>1, NewNodes
<1> QED
  BY <1>2 DEF Dir

\* A tree of nodes stays one when a node is put into it.
LEMMA PutNode ==
  ASSUME \A p \in DOMAIN tree : tree[p] \in Nodes,
         NEW p, NEW v \in Nodes, NEW t, t = Put(tree, p, v)
  PROVE  \A q \in DOMAIN t : t[q] \in Nodes
<1>1. SUFFICES ASSUME NEW q \in DOMAIN t PROVE t[q] \in Nodes
  OBVIOUS
<1>2. /\ DOMAIN t = DOMAIN tree \cup {p} /\ t[p] = v
      /\ \A r \in DOMAIN tree : r # p => t[r] = tree[r]
  BY DEF Put
<1>3. CASE q = p
  BY <1>2, <1>3
<1>4. CASE q # p
  BY <1>1, <1>2, <1>4
<1> QED
  BY <1>3, <1>4

\* Types are about nodes: those of the tree follow from them.
LEMMA NodeTypes ==
  ASSUME NEW t, \A p \in DOMAIN t : t[p] \in Nodes
  PROVE  \A p \in DOMAIN t : /\ t[p].type \in {"dir", "reg", "symlink"}
                             /\ t[p].mode \subseteq Permissions
                             /\ t[p].size \in Nat
BY DEF Nodes

\* The entry at hand.
LEMMA CurTypes ==
  ASSUME TypeInv, pc \in {"write", "copy"}
  PROVE  cur \in Entries /\ Name \in Paths /\ Name \in Seq(STRING)
<1>1. cur \in Entries
  BY DEF TypeInv, TypeOK
<1> QED
  BY <1>1, EntryFacts DEF Name, Paths

\* An error of a known kind keeps the types.
LEMMA AbandonTypes ==
  ASSUME TypeInv, NEW r \in Reasons \ {"none"}, Abandoned(r),
         \/ tree' = tree
         \/ RemoveFile
  PROVE  TypeInv'
<1>1. /\ pc' = "failed" /\ why' = r /\ cur' = NoEntry /\ copied' = 0
      /\ entries' = entries /\ directoryModes' = directoryModes /\ pending' = pending
      /\ extractedBytes' = extractedBytes /\ largestFileBytes' = largestFileBytes
      /\ entryCount' = entryCount
  BY DEF Abandoned, records, stats
<1>2. \A p \in DOMAIN tree' : tree'[p] \in Nodes
  BY DEF TypeInv, RemoveFile
<1>3. \A p \in DOMAIN tree' : /\ tree'[p].type \in {"dir", "reg", "symlink"}
                              /\ tree'[p].mode \subseteq Permissions
                              /\ tree'[p].size \in Nat
  BY ONLY <1>2, NodeTypes
<1> QED
  BY <1>1, <1>2, <1>3 DEF TypeInv, TypeOK

\* An entry that is accepted keeps them.
LEMMA AcceptTypes ==
  ASSUME TypeInv, pc \in {"write", "copy"}, Accepted,
         \A p \in DOMAIN tree' : tree'[p] \in Nodes,
         \/ directoryModes' = directoryModes
         \/ directoryModes' = Put(directoryModes, Name, cur.mode),
         extractedBytes' \in Nat, largestFileBytes' \in Nat
  PROVE  TypeInv'
<1>1. /\ pc' = "next" /\ why' = why /\ cur' = NoEntry /\ copied' = 0
      /\ entries' = Put(entries, Name, cur) /\ pending' = pending
      /\ entryCount' = entryCount
  BY DEF Accepted
<1>2. cur \in Entries /\ cur.mode \subseteq Permissions
  BY CurTypes, EntryFacts
<1>3. /\ DOMAIN entries' = DOMAIN entries \cup {Name}
      /\ \A n \in DOMAIN entries' : entries'[n] \in Entries
  <2>1. /\ DOMAIN entries' = DOMAIN entries \cup {Name} /\ entries'[Name] = cur
        /\ \A n \in DOMAIN entries : n # Name => entries'[n] = entries[n]
    BY <1>1 DEF Put
  <2> QED
    BY <1>2, <2>1 DEF TypeInv, TypeOK
<1>4. /\ DOMAIN directoryModes \subseteq DOMAIN directoryModes'
      /\ DOMAIN directoryModes' \subseteq DOMAIN directoryModes \cup {Name}
      /\ \A n \in DOMAIN directoryModes' : directoryModes'[n] \subseteq Permissions
  <2>1. CASE directoryModes' = directoryModes
    BY <2>1 DEF TypeInv
  <2>2. CASE directoryModes' = Put(directoryModes, Name, cur.mode)
    <3>1. /\ DOMAIN directoryModes' = DOMAIN directoryModes \cup {Name}
          /\ directoryModes'[Name] = cur.mode
          /\ \A n \in DOMAIN directoryModes : n # Name => directoryModes'[n] = directoryModes[n]
      BY <2>2 DEF Put
    <3> QED
      BY <1>2, <3>1 DEF TypeInv
  <2> QED
    BY <2>1, <2>2
<1>5. \A p \in DOMAIN tree' : /\ tree'[p].type \in {"dir", "reg", "symlink"}
                              /\ tree'[p].mode \subseteq Permissions
                              /\ tree'[p].size \in Nat
  BY ONLY NodeTypes, \A p \in DOMAIN tree' : tree'[p] \in Nodes
<1> QED
  BY <1>1, <1>3, <1>4, <1>5 DEF TypeInv, TypeOK

\* The reasons the steps give are among the kinds of error.
LEMMA ReasonTypes ==
  /\ \A p : Obstacle(p) \in Reasons
  /\ {"limit", "name", "kind", "conflict", "permission", "size", "target", "io"}
       \subseteq Reasons \ {"none"}
  /\ \A e : Refusal(e) \in Reasons
BY DEF Obstacle, Reasons, Refusal

\* A link that is placed or refused keeps the types.
LEMMA PlaceLinkTypes ==
  ASSUME TypeInv, pc = "write", NEW r \in Reasons, NEW v \in Nodes, PlaceLink(r, v)
  PROVE  TypeInv'
<1>1. CASE r # "none" /\ Abandoned(r) /\ UNCHANGED tree
  BY <1>1, AbandonTypes
<1>2. CASE Accepted /\ tree' = Put(tree, Name, v) /\ UNCHANGED <<directoryModes, stats>>
  <2>1. \A p \in DOMAIN tree' : tree'[p] \in Nodes
    BY ONLY <1>2, PutNode, TypeInv DEF TypeInv
  <2> QED
    BY <1>2, <2>1, AcceptTypes DEF stats, TypeInv, TypeOK
<1> QED
  BY <1>1, <1>2 DEF PlaceLink

\* Every step keeps the types.
LEMMA TypeStep == TypeInv /\ [Next]_vars => TypeInv'
<1> SUFFICES ASSUME TypeInv, [Next]_vars PROVE TypeInv'
  OBVIOUS
<1> USE ReasonTypes
<1>1. ASSUME NEW e \in Entries, RefuseEntry(e) PROVE TypeInv'
  <2>1. Refusal(e) \in Reasons \ {"none"}
    BY <1>1 DEF RefuseEntry
  <2> QED
    BY <1>1, <2>1 DEF RefuseEntry, TypeInv, TypeOK, records, stats
<1>2. ASSUME NEW e \in Entries, TakeEntry(e) PROVE TypeInv'
  <2>1. /\ DOMAIN entries \subseteq DOMAIN entries'
        /\ \A n \in DOMAIN entries' : entries'[n] \in Entries
    <3>1. CASE entries' = entries
      BY <3>1 DEF TypeInv, TypeOK
    <3>2. CASE entries' = Put(entries, Clean(e.name), e)
      BY <3>2 DEF TypeInv, TypeOK, Put
    <3> QED
      BY <1>2, <3>1, <3>2 DEF TakeEntry
  <2>2. \/ pc' = pc /\ cur' = cur
        \/ pc' = "write" /\ cur' = e
    BY <1>2 DEF TakeEntry
  <2>3. e # NoEntry
    BY EntryFacts
  <2> QED
    BY <1>2, <2>1, <2>2, <2>3 DEF TakeEntry, TypeInv, TypeOK, stats
<1>3. CASE MakeParent
  <2> DEFINE p == CHOOSE p \in Missing : \A q \in Missing : Len(p) <= Len(q)
  <2>1. CASE Obstacle(p) # "none" /\ Abandoned(Obstacle(p)) /\ UNCHANGED tree
    <3> HIDE DEF p
    <3> QED
      BY <2>1, AbandonTypes
  <2>2. CASE tree' = Put(tree, p, Dir(Permissions))
             /\ UNCHANGED <<pc, why, cur, copied, records, stats, entryCount>>
    <3> HIDE DEF p
    <3>1. Dir(Permissions) \in Nodes
      BY NewDirs
    <3>2. \A q \in DOMAIN tree' : tree'[q] \in Nodes
      BY ONLY <2>2, <3>1, PutNode, TypeInv DEF TypeInv
    <3>3. \A q \in DOMAIN tree' : /\ tree'[q].type \in {"dir", "reg", "symlink"}
                                  /\ tree'[q].mode \subseteq Permissions
                                  /\ tree'[q].size \in Nat
      BY ONLY <3>2, NodeTypes
    <3> QED
      BY <2>2, <3>2, <3>3 DEF TypeInv, TypeOK, records, stats
  <2> QED
    BY <1>3, <2>1, <2>2 DEF MakeParent
<1>4. CASE MakeDirectory
  <2>1. pc = "write" /\ cur \in Entries /\ Name \in Paths /\ cur.mode \subseteq Permissions
    BY <1>4, CurTypes, EntryFacts DEF MakeDirectory, Writing
  <2>2. CASE Obstacle(Name) # "none" /\ Abandoned(Obstacle(Name)) /\ UNCHANGED tree
    BY <2>2, AbandonTypes
  <2>3. CASE /\ Accepted
             /\ tree' = tree \/ tree' = Put(tree, Name, Dir(cur.mode \cup Permissions))
             /\ directoryModes' = Put(directoryModes, Name, cur.mode)
             /\ UNCHANGED stats
    <3>1. Dir(cur.mode \cup Permissions) \in Nodes
      BY <2>1, NewDirs
    <3>2. \A q \in DOMAIN tree' : tree'[q] \in Nodes
      <4>1. CASE tree' = tree
        BY <4>1 DEF TypeInv
      <4>2. CASE tree' = Put(tree, Name, Dir(cur.mode \cup Permissions))
        BY ONLY <3>1, <4>2, PutNode, TypeInv DEF TypeInv
      <4> QED
        BY <2>3, <4>1, <4>2
    <3> QED
      BY <2>1, <2>3, <3>2, AcceptTypes DEF stats, TypeInv, TypeOK
  <2> QED
    BY <1>4, <2>2, <2>3 DEF MakeDirectory
<1>5. CASE CreateFile
  <2>1. pc = "write" /\ cur \in Entries /\ Name \in Seq(STRING) /\ cur.mode \subseteq Permissions
    BY <1>5, CurTypes, EntryFacts DEF CreateFile, Writing
  <2> DEFINE refusal == IF cur.size > MaxFileBytes THEN "limit" ELSE Obstacle(Name)
  <2>2. refusal \in Reasons
    BY DEF Reasons
  <2>3. CASE refusal # "none" /\ Abandoned(refusal) /\ UNCHANGED tree
    <3> HIDE DEF refusal
    <3> QED
      BY <2>2, <2>3, AbandonTypes
  <2>4. CASE /\ tree' = Put(tree, Name, Node("reg", cur.mode, Name))
             /\ pc' = "copy"
             /\ UNCHANGED <<why, cur, copied, records, stats, entryCount>>
    <3>1. Node("reg", cur.mode, Name) \in Nodes
      BY <2>1, NewNodes
    <3>2. \A q \in DOMAIN tree' : tree'[q] \in Nodes
      BY ONLY <2>4, <3>1, PutNode, TypeInv DEF TypeInv
    <3>3. \A q \in DOMAIN tree' : /\ tree'[q].type \in {"dir", "reg", "symlink"}
                                  /\ tree'[q].mode \subseteq Permissions
                                  /\ tree'[q].size \in Nat
      BY ONLY <3>2, NodeTypes
    <3> QED
      BY <2>1, <2>4, <3>2, <3>3 DEF TypeInv, TypeOK, records, stats
  <2> QED
    BY <1>5, <2>3, <2>4 DEF CreateFile
<1>6. CASE Copy
  <2>1. copied + 1 \in Nat
    BY DEF TypeInv, TypeOK
  <2>2. \A q \in DOMAIN tree' : tree'[q] \in Nodes
    <3> SUFFICES ASSUME NEW q \in DOMAIN tree' PROVE tree'[q] \in Nodes
      OBVIOUS
    <3>1. q \in DOMAIN tree /\ tree[q] \in Nodes
      BY <1>6 DEF Copy, TypeInv
    <3>2. tree'[q] = tree[q] \/ tree'[q] = [tree[q] EXCEPT !.size = copied + 1]
      BY <1>6, <3>1 DEF Copy
    <3> QED
      BY <2>1, <3>1, <3>2 DEF Nodes
  <2>3. \A q \in DOMAIN tree' : /\ tree'[q].type \in {"dir", "reg", "symlink"}
                                /\ tree'[q].mode \subseteq Permissions
                                /\ tree'[q].size \in Nat
    BY ONLY <2>2, NodeTypes
  <2> QED
    BY <1>6, <2>1, <2>2, <2>3 DEF Copy, TypeInv, TypeOK, records, stats
<1>7. CASE FinishFile
  <2>1. CASE \E r \in {"limit", "size"} : Abandoned(r) /\ RemoveFile
    BY <2>1, AbandonTypes
  <2>2. CASE /\ Accepted
             /\ extractedBytes' = extractedBytes + copied
             /\ largestFileBytes' = Max({largestFileBytes, cur.size})
             /\ UNCHANGED <<tree, directoryModes>>
    <3>1. pc = "copy" /\ cur \in Entries /\ cur.size \in Nat
      BY <1>7, CurTypes, EntryFacts DEF FinishFile
    <3>2. extractedBytes' \in Nat /\ largestFileBytes' \in Nat
      BY <2>2, <3>1, LargerOfTwo DEF TypeInv, TypeOK
    <3> QED
      BY <2>2, <3>1, <3>2, AcceptTypes DEF TypeInv
  <2> QED
    BY <1>7, <2>1, <2>2 DEF FinishFile
<1>8. CASE MakeSymlink
  <2>1. pc = "write" /\ cur \in Entries /\ cur.target \in Paths
    BY <1>8, CurTypes, EntryFacts DEF MakeSymlink, Writing
  <2>2. Node("symlink", Permissions, cur.target) \in Nodes
    BY <2>1, NewNodes DEF Paths
  <2>3. (IF InternalTarget(Name, cur.target) THEN Obstacle(Name) ELSE "target") \in Reasons
    BY DEF Reasons
  <2> QED
    BY <1>8, <2>1, <2>2, <2>3, PlaceLinkTypes DEF MakeSymlink
<1>9. CASE MakeHardlink
  <2>1. pc = "write" /\ cur \in Entries /\ Clean(cur.target) \in Paths
    BY <1>9, CurTypes, EntryFacts DEF MakeHardlink, Writing
  <2>2. PICK found \in Lookup(Clean(cur.target)) :
          LET good == /\ ValidName(cur.target) /\ ~RootMarker(cur.target)
                      /\ found.type = "reg"
          IN PlaceLink(IF good THEN Obstacle(Name) ELSE "target", found)
    BY <1>9 DEF MakeHardlink
  <2>3. CASE found.type = "reg"
    <3>1. found \in Nodes
      <4>1. CASE found \in {Node("none", {}, Clean(cur.target)), Node("reg", {}, Clean(cur.target))}
        <5>1. Node("reg", {}, Clean(cur.target)) \in Nodes
          BY <2>1, NewNodes DEF Paths
        <5> QED
          BY <2>3, <4>1, <5>1 DEF Node
      <4>2. CASE Clean(cur.target) \in DOMAIN tree /\ found = tree[Clean(cur.target)]
        BY <4>2 DEF TypeInv
      <4> QED
        BY <2>2, <4>1, <4>2 DEF Lookup
    <3> DEFINE r == IF /\ ValidName(cur.target) /\ ~RootMarker(cur.target)
                       /\ found.type = "reg"
                    THEN Obstacle(Name) ELSE "target"
    <3>2. r \in Reasons
      BY DEF Reasons
    <3>3. PlaceLink(r, found)
      BY <2>2
    <3> HIDE DEF r
    <3> QED
      BY <2>1, <3>1, <3>2, <3>3, PlaceLinkTypes
  <2>4. CASE found.type # "reg"
    <3>1. PlaceLink("target", found)
      BY <2>2, <2>4
    <3>2. Abandoned("target") /\ UNCHANGED tree
      BY <3>1 DEF PlaceLink
    <3> QED
      BY <3>2, AbandonTypes
  <2> QED
    BY <2>3, <2>4
<1>10. CASE IOError
  BY <1>10, AbandonTypes DEF IOError
<1>11. CASE EndOfArchive
  BY <1>11 DEF EndOfArchive, TypeInv, TypeOK, stats
<1>12. ASSUME NEW p \in pending, ApplyMode(p) PROVE TypeInv'
  <2>1. CASE Abandoned("permission") /\ UNCHANGED tree
    BY <2>1, AbandonTypes
  <2>2. CASE /\ tree' = [tree EXCEPT ![p].mode = directoryModes[p]]
             /\ pending' = pending \ {p}
             /\ UNCHANGED <<pc, why, cur, copied, entries, directoryModes, stats, entryCount>>
    <3>1. directoryModes[p] \subseteq Permissions
      BY DEF TypeInv, TypeOK
    <3>2. \A q \in DOMAIN tree' : tree'[q] \in Nodes
      <4> SUFFICES ASSUME NEW q \in DOMAIN tree' PROVE tree'[q] \in Nodes
        OBVIOUS
      <4>1. q \in DOMAIN tree /\ tree[q] \in Nodes
        BY <2>2 DEF TypeInv
      <4>2. tree'[q] = tree[q] \/ tree'[q] = [tree[q] EXCEPT !.mode = directoryModes[p]]
        BY <2>2, <4>1
      <4> QED
        BY <3>1, <4>1, <4>2 DEF Nodes
    <3>3. \A q \in DOMAIN tree' : /\ tree'[q].type \in {"dir", "reg", "symlink"}
                                  /\ tree'[q].mode \subseteq Permissions
                                  /\ tree'[q].size \in Nat
      BY ONLY <3>2, NodeTypes
    <3> QED
      BY <2>2, <3>2, <3>3 DEF TypeInv, TypeOK, stats
  <2> QED
    BY <1>12, <2>1, <2>2 DEF ApplyMode
<1>13. CASE Return
  BY <1>13 DEF Return, TypeInv, TypeOK, records, stats
<1>14. CASE UNCHANGED vars
  BY <1>14 DEF vars, TypeInv, TypeOK
<1> QED
  BY <1>1, <1>2, <1>3, <1>4, <1>5, <1>6, <1>7, <1>8, <1>9, <1>10, <1>11, <1>12, <1>13, <1>14
     DEF Next, Ended

-----------------------------------------------------------------------------
(* The tree and the entries.                                               *)

\* The accepted entries that are on disk, and what must be there for them.
Deposited == {n \in DOMAIN entries : entries[n].kind # "char"}
Implied == Deposited \cup UNION {Parents(n) : n \in Deposited}

\* Accepted names are paths, and none lies below an entry that is no directory.
NamesInv ==
  /\ \A n \in DOMAIN entries : n \in Paths /\ entries[n].kind # "other"
  /\ EntriesCompatible

\* The directories among them are those that get a mode at the end.
ModesInv ==
  /\ DOMAIN directoryModes = {n \in DOMAIN entries : entries[n].kind = "dir"}
  /\ \A n \in DOMAIN directoryModes : directoryModes[n] = entries[n].mode

\* The entry at hand agrees with those before it.
CurInv ==
  /\ pc \in {"write", "copy"} =>
       cur.kind \notin {"char", "other"} /\ ~Conflicts(Name, cur.kind)
  /\ pc = "copy" => cur.kind = "reg" /\ Missing = {}
  /\ pc # "copy" => copied = 0

\* What is on disk: the entries with their parents, and of the entry at hand
\* the parents made so far and the file begun.
Reached ==
  CASE pc = "write" -> Implied \subseteq DOMAIN tree /\ DOMAIN tree \subseteq Implied \cup Parents(Name)
    [] pc = "copy" -> DOMAIN tree = Implied \cup Parents(Name) \cup {Name}
    [] OTHER -> DOMAIN tree = Implied

Closed ==
  \A p \in DOMAIN tree :
    p \in Paths /\ \A q \in Parents(p) : q \in DOMAIN tree /\ tree[q].type = "dir"

\* Until the end the owner may do everything in a directory.
ModeNow(p) ==
  IF pc \in {"chmod", "done"} /\ p \notin pending THEN entries[p].mode ELSE Permissions

\* The node v at p is what the entry e asks for; m is the mode of a directory.
Fits(e, p, v, m) ==
  CASE e.kind = "dir" -> v = Dir(m)
    [] e.kind = "reg" -> v = [type |-> "reg", mode |-> e.mode, size |-> e.size, of |-> p]
    [] e.kind = "link" -> v.type = "reg" /\ v.of # p
    [] OTHER -> v.type = "symlink" /\ v.of = e.target

NodesInv ==
  /\ \A p \in Deposited : Fits(entries[p], p, tree[p], ModeNow(p))
  /\ \A p \in DOMAIN tree \ Deposited :
       tree[p] = IF pc = "copy" /\ p = Name
                 THEN [type |-> "reg", mode |-> cur.mode, size |-> copied, of |-> p]
                 ELSE Dir(Permissions)

\* What a hard link shares is the file of a path in the tree, or lies beyond a
\* symbolic link.
Somewhere(o) ==
  o \in DOMAIN tree \/ \E q \in Parents(o) \cap DOMAIN tree : tree[q].type = "symlink"
LinksInv == \A p \in DOMAIN tree : tree[p].type = "reg" => Somewhere(tree[p].of)

\* The directories get their modes from the deepest to the highest.
OrderInv ==
  /\ pc = "chmod" => \A p \in pending, q \in DOMAIN directoryModes \ pending : Len(p) <= Len(q)
  /\ pc = "done" => pending = {}

\* The files of a tree that are no links to others, and that two trees have the same.
FilesOf(t) == {p \in DOMAIN t : t[p].type = "reg" /\ t[p].of = p}
SameFiles(t, u) ==
  FilesOf(u) = FilesOf(t) /\ \A p \in FilesOf(t) : u[p].size = t[p].size

TreeInv ==
  /\ NamesInv /\ ModesInv /\ CurInv /\ Reached /\ Closed /\ NodesInv /\ LinksInv /\ OrderInv

ExtractInv == DiskHoldsNoSurprise /\ (pc # "failed" => TreeInv)

-----------------------------------------------------------------------------
(* The entry at hand.                                                      *)

\* While an entry is written every directory is open to the owner, and its own
\* path is free, but for a directory that an earlier entry implied.
LEMMA AtHand ==
  ASSUME TypeInv, TreeInv, pc \in {"write", "copy"}
  PROVE  /\ Name \in Paths /\ Name \notin Parents(Name) /\ Name \notin DOMAIN entries
         /\ \A p \in Parents(Name) \cap DOMAIN tree : tree[p] = Dir(Permissions)
         /\ pc = "write" /\ Name \in DOMAIN tree =>
              cur.kind = "dir" /\ tree[Name] = Dir(Permissions)
         /\ pc = "copy" =>
              /\ Name \in DOMAIN tree
              /\ tree[Name] = [type |-> "reg", mode |-> cur.mode, size |-> copied, of |-> Name]
<1>1. Name \in Paths /\ Name \notin Parents(Name)
  BY CurTypes, ParentFacts
<1>2. ~Conflicts(Name, cur.kind) /\ Name \notin DOMAIN entries
  BY DEF TreeInv, CurInv, Conflicts
<1>3. ASSUME NEW p \in Parents(Name) \cap DOMAIN tree PROVE tree[p] = Dir(Permissions)
  <2>1. CASE p \in Deposited
    <3>1. entries[p].kind = "dir"
      BY <1>2, <2>1 DEF Deposited, Conflicts
    <3>2. Fits(entries[p], p, tree[p], Permissions)
      BY <2>1 DEF TreeInv, NodesInv, ModeNow
    <3> QED
      BY <3>1, <3>2 DEF Fits
  <2>2. CASE p \notin Deposited
    BY <1>1, <2>2 DEF TreeInv, NodesInv
  <2> QED
    BY <2>1, <2>2
<1>4. ASSUME pc = "write", Name \in DOMAIN tree
      PROVE  cur.kind = "dir" /\ tree[Name] = Dir(Permissions)
  <2>1. Name \notin Deposited
    BY <1>2 DEF Deposited
  <2>2. Name \in Implied
    BY <1>1, <1>4 DEF TreeInv, Reached
  <2>3. PICK n \in Deposited : Name \in Parents(n)
    BY <2>1, <2>2 DEF Implied
  <2>4. cur.kind = "dir"
    BY <1>2, <2>3 DEF Conflicts, Deposited
  <2> QED
    BY <1>4, <2>1, <2>4 DEF TreeInv, NodesInv
<1>5. ASSUME pc = "copy"
      PROVE  /\ Name \in DOMAIN tree
             /\ tree[Name] = [type |-> "reg", mode |-> cur.mode, size |-> copied, of |-> Name]
  <2>1. Name \in DOMAIN tree
    BY <1>5 DEF TreeInv, Reached
  <2> QED
    BY <1>2, <1>5, <2>1 DEF TreeInv, NodesInv, Deposited
<1> QED
  BY <1>1, <1>2, <1>3, <1>4, <1>5

\* Nothing stands in the way of a path whose parents are all there.
LEMMA NoObstacle ==
  ASSUME NEW p \in Paths, p \notin DOMAIN tree,
         \A q \in Parents(p) : tree[q] = Dir(Permissions)
  PROVE  Obstacle(p) = "none"
<1>1. \A q \in Parents(p) : {"w", "x"} \subseteq tree[q].mode
  BY DEF Dir, Node, Permissions
<1>2. Len(p) > 1 => Front(p) \in Parents(p)
  BY ParentFacts
<1>3. /\ ~(\E q \in Parents(p) : "x" \notin tree[q].mode)
      /\ ~(Len(p) > 1 /\ "w" \notin tree[Front(p)].mode)
  BY <1>1, <1>2
<1> QED
  BY <1>3 DEF Obstacle

\* So the entry can be written as soon as its parents are there.
LEMMA NameIsFree ==
  ASSUME TypeInv, TreeInv, pc = "write", Missing = {}, Name \notin DOMAIN tree
  PROVE  Obstacle(Name) = "none"
<1>1. /\ Name \in Paths
      /\ \A q \in Parents(Name) : q \in DOMAIN tree /\ tree[q] = Dir(Permissions)
  BY AtHand DEF Missing
<1> QED
  BY <1>1, NoObstacle

\* What the last step of writing an entry leaves: its node fits, what was there
\* before is untouched, and the entry is recorded.
LEMMA AcceptStep ==
  ASSUME TypeInv, TreeInv, pc \in {"write", "copy"}, Missing = {}, Accepted,
         cur.kind = "dir" => directoryModes' = Put(directoryModes, Name, cur.mode),
         cur.kind # "dir" => directoryModes' = directoryModes,
         DOMAIN tree' = DOMAIN tree \cup {Name},
         \A p \in DOMAIN tree : p # Name => tree'[p] = tree[p],
         Fits(cur, Name, tree'[Name], Permissions),
         tree'[Name].type = "reg" => Somewhere(tree'[Name].of) \/ tree'[Name].of = Name
  PROVE  TreeInv'
<1>1. /\ pc' = "next" /\ copied' = 0 /\ pending' = pending
      /\ entries' = Put(entries, Name, cur)
  BY DEF Accepted
<1>2. /\ DOMAIN entries' = DOMAIN entries \cup {Name} /\ entries'[Name] = cur
      /\ \A n \in DOMAIN entries : n # Name => entries'[n] = entries[n]
  BY <1>1 DEF Put
<1>3. /\ Name \in Paths /\ Name \notin Parents(Name) /\ Name \notin DOMAIN entries
      /\ \A p \in Parents(Name) \cap DOMAIN tree : tree[p] = Dir(Permissions)
  BY AtHand
<1>4. /\ cur.kind \notin {"char", "other"} /\ ~Conflicts(Name, cur.kind)
  BY DEF TreeInv, CurInv
<1>5. Parents(Name) \subseteq DOMAIN tree
  BY DEF Missing
<1>6. Name \in DOMAIN tree => /\ tree[Name].type \in {"dir", "reg"}
                              /\ tree[Name].type = "dir" => cur.kind = "dir"
  BY AtHand DEF Dir, Node
<1>7. NamesInv'
  <2>1. \A n \in DOMAIN entries' : n \in Paths /\ entries'[n].kind # "other"
    BY <1>2, <1>3, <1>4 DEF TreeInv, NamesInv
  <2>2. ASSUME NEW n \in DOMAIN entries', NEW p \in Parents(n) \cap DOMAIN entries'
        PROVE  entries'[p].kind = "dir"
    <3>1. CASE n = Name
      <4>1. p # Name /\ p \in DOMAIN entries
        BY <1>2, <1>3, <3>1
      <4> QED
        BY <1>2, <1>4, <3>1, <4>1 DEF Conflicts
    <3>2. CASE n # Name /\ p = Name
      BY <1>2, <1>4, <3>2 DEF Conflicts
    <3>3. CASE n # Name /\ p # Name
      BY <1>2, <3>3 DEF TreeInv, NamesInv, EntriesCompatible
    <3> QED
      BY <3>1, <3>2, <3>3
  <2> QED
    BY <2>1, <2>2 DEF NamesInv, EntriesCompatible
<1>8. ModesInv'
  <2>1. CASE cur.kind = "dir"
    <3>1. /\ DOMAIN directoryModes' = DOMAIN directoryModes \cup {Name}
          /\ directoryModes'[Name] = cur.mode
          /\ \A n \in DOMAIN directoryModes : n # Name => directoryModes'[n] = directoryModes[n]
      BY <2>1 DEF Put
    <3> QED
      BY <1>2, <1>3, <2>1, <3>1 DEF TreeInv, ModesInv
  <2>2. CASE cur.kind # "dir"
    BY <1>2, <1>3, <2>2 DEF TreeInv, ModesInv
  <2> QED
    BY <2>1, <2>2
<1>9. CurInv'
  BY <1>1 DEF CurInv
<1>10. Deposited' = Deposited \cup {Name}
  BY <1>2, <1>3, <1>4 DEF Deposited
<1>11. Implied' = Implied \cup {Name} \cup Parents(Name)
  BY <1>10 DEF Implied
<1>12. Reached'
  <2>1. /\ Implied \subseteq DOMAIN tree
        /\ DOMAIN tree \subseteq Implied \cup Parents(Name) \cup {Name}
    BY DEF TreeInv, Reached
  <2> QED
    BY <1>1, <1>5, <1>11, <2>1 DEF Reached
<1>13. ASSUME NEW q \in DOMAIN tree, tree[q].type = "dir"
       PROVE  q \in DOMAIN tree' /\ tree'[q].type = "dir"
  <2>1. CASE q = Name
    <3>1. tree'[Name] = Dir(Permissions)
      BY <1>6, <1>13, <2>1 DEF Fits
    <3> QED
      BY <2>1, <3>1 DEF Dir, Node
  <2>2. CASE q # Name
    BY <1>13, <2>2
  <2> QED
    BY <2>1, <2>2
<1>14. Closed'
  <2>1. \A q \in Parents(Name) : q \in DOMAIN tree /\ tree[q].type = "dir"
    BY <1>3, <1>5 DEF Dir, Node
  <2>2. \A p \in DOMAIN tree' :
          p \in Paths /\ \A q \in Parents(p) : q \in DOMAIN tree /\ tree[q].type = "dir"
    BY <1>3, <2>1 DEF TreeInv, Closed
  <2> QED
    BY <1>13, <2>2 DEF Closed
<1>15. NodesInv'
  <2>1. \A p : ModeNow(p)' = Permissions
    BY <1>1 DEF ModeNow
  <2>2. ASSUME NEW p \in Deposited' PROVE Fits(entries'[p], p, tree'[p], Permissions)
    <3>1. CASE p = Name
      BY <1>2, <3>1
    <3>2. CASE p # Name
      <4>1. p \in Deposited /\ p \in DOMAIN tree
        BY <1>10, <3>2 DEF TreeInv, Reached, Implied
      <4>2. Fits(entries[p], p, tree[p], Permissions)
        BY <4>1 DEF TreeInv, NodesInv, ModeNow
      <4>3. entries'[p] = entries[p] /\ tree'[p] = tree[p]
        BY <1>2, <3>2, <4>1 DEF Deposited
      <4> QED
        BY <4>2, <4>3
    <3> QED
      BY <3>1, <3>2
  <2>3. ASSUME NEW p \in DOMAIN tree' \ Deposited' PROVE tree'[p] = Dir(Permissions)
    BY <1>10 DEF TreeInv, NodesInv
  <2>4. \A p \in Deposited' : Fits(entries'[p], p, tree'[p], ModeNow(p)')
    BY <2>1, <2>2
  <2> QED
    BY <1>1, <2>3, <2>4 DEF NodesInv
<1>16. ASSUME NEW o, Somewhere(o) PROVE Somewhere(o)'
  <2>1. CASE o \in DOMAIN tree
    BY <2>1 DEF Somewhere
  <2>2. ASSUME NEW q \in Parents(o) \cap DOMAIN tree, tree[q].type = "symlink"
        PROVE  Somewhere(o)'
    <3>1. q # Name
      BY <1>6, <2>2
    <3> QED
      BY <2>2, <3>1 DEF Somewhere
  <2> QED
    BY <1>16, <2>1, <2>2 DEF Somewhere
<1>17. LinksInv'
  <2>1. ASSUME NEW p \in DOMAIN tree', tree'[p].type = "reg"
        PROVE  Somewhere(tree'[p].of) \/ tree'[p].of \in DOMAIN tree'
    <3>1. CASE p = Name
      BY <2>1, <3>1
    <3>2. CASE p # Name
      BY <2>1, <3>2 DEF TreeInv, LinksInv
    <3> QED
      BY <3>1, <3>2
  <2>2. ASSUME NEW o, Somewhere(o) \/ o \in DOMAIN tree' PROVE Somewhere(o)'
    BY <1>16, <2>2 DEF Somewhere
  <2> QED
    BY <2>1, <2>2 DEF LinksInv
<1>18. OrderInv'
  BY <1>1 DEF OrderInv
<1> QED
  BY <1>7, <1>8, <1>9, <1>12, <1>14, <1>15, <1>17, <1>18 DEF TreeInv

-----------------------------------------------------------------------------
(* The steps.                                                              *)

\* Taking an entry: its name is new, and compatible with those before it.
LEMMA TakeStep ==
  ASSUME TypeInv, TreeInv, NEW e \in Entries, TakeEntry(e)
  PROVE  TreeInv'
<1> DEFINE n == Clean(e.name)
<1>1. /\ pc = "next" /\ Refusal(e) = "none" /\ copied' = copied /\ tree' = tree
      /\ directoryModes' = directoryModes /\ pending' = pending
  BY DEF TakeEntry
<1>2. n \in Paths /\ e.kind \in Kinds
  BY EntryFacts
<1>3. ~RootMarker(e.name) => ~Conflicts(n, e.kind) /\ e.kind # "other"
  <2> SUFFICES ASSUME ~RootMarker(e.name) PROVE ~Conflicts(n, e.kind) /\ e.kind # "other"
    OBVIOUS
  <2>1. Supported(e) /\ ~Conflicts(n, e.kind)
    BY <1>1 DEF Refusal
  <2> QED
    BY <2>1 DEF Supported
<1>4. RootMarker(e.name) => e.kind = "dir"
  BY <1>1 DEF Refusal
<1> HIDE DEF n
<1>5. CASE RootMarker(e.name)
  <2>1. pc' = "next" /\ entries' = entries
    BY <1>1, <1>4, <1>5 DEF TakeEntry
  <2> QED
    BY <1>1, <2>1 DEF TreeInv, NamesInv, EntriesCompatible, ModesInv, CurInv, Reached, Implied,
       Deposited, Closed, NodesInv, ModeNow, LinksInv, Somewhere, OrderInv
<1>6. CASE ~RootMarker(e.name) /\ e.kind = "char"
  <2>1. pc' = "next" /\ entries' = Put(entries, n, e)
    BY <1>1, <1>6 DEF TakeEntry, n
  <2>2. /\ DOMAIN entries' = DOMAIN entries \cup {n} /\ entries'[n] = e
        /\ \A m \in DOMAIN entries : m # n => entries'[m] = entries[m]
    BY <2>1 DEF Put
  <2>3. n \notin DOMAIN entries /\ n \notin Parents(n)
    BY <1>2, <1>3, <1>6, ParentFacts DEF Conflicts
  <2>4. NamesInv'
    <3>1. \A m \in DOMAIN entries' : m \in Paths /\ entries'[m].kind # "other"
      BY <1>2, <1>6, <2>2 DEF TreeInv, NamesInv
    <3>2. ASSUME NEW m \in DOMAIN entries', NEW p \in Parents(m) \cap DOMAIN entries'
          PROVE  entries'[p].kind = "dir"
      <4>1. CASE m = n
        BY <1>3, <1>6, <2>2, <2>3, <4>1 DEF Conflicts
      <4>2. CASE m # n
        <5>1. p # n
          BY <1>3, <1>6, <2>2, <4>2 DEF Conflicts
        <5> QED
          BY <2>2, <4>2, <5>1 DEF TreeInv, NamesInv, EntriesCompatible
      <4> QED
        BY <4>1, <4>2
    <3> QED
      BY <3>1, <3>2 DEF NamesInv, EntriesCompatible
  <2>5. ModesInv'
    BY <1>1, <1>6, <2>2, <2>3 DEF TreeInv, ModesInv
  <2>6. Deposited' = Deposited
    BY <1>6, <2>2, <2>3 DEF Deposited
  <2>7. Implied' = Implied
    BY <2>6 DEF Implied
  <2>8. CurInv' /\ Reached' /\ Closed' /\ LinksInv' /\ OrderInv'
    BY <1>1, <2>1, <2>7 DEF TreeInv, CurInv, Reached, Closed, LinksInv, Somewhere, OrderInv
  <2>9. NodesInv'
    <3>1. \A p : ModeNow(p) = Permissions /\ ModeNow(p)' = Permissions
      BY <1>1, <2>1 DEF ModeNow
    <3>2. \A p \in Deposited : entries'[p] = entries[p]
      BY <2>2, <2>3 DEF Deposited
    <3>3. \A p \in Deposited' : Fits(entries'[p], p, tree'[p], ModeNow(p)')
      BY <1>1, <2>6, <3>1, <3>2 DEF TreeInv, NodesInv
    <3> QED
      BY <1>1, <2>1, <2>6, <3>3 DEF TreeInv, NodesInv
  <2> QED
    BY <2>4, <2>5, <2>8, <2>9 DEF TreeInv
<1>7. CASE ~RootMarker(e.name) /\ e.kind # "char"
  <2>1. pc' = "write" /\ cur' = e /\ entries' = entries /\ Name' = n
    BY <1>1, <1>7 DEF TakeEntry, Name, n
  <2>2. CurInv'
    <3>1. ~Conflicts(n, e.kind)' /\ cur'.kind \notin {"char", "other"}
      BY <1>3, <1>7, <2>1 DEF Conflicts
    <3>2. copied' = 0
      BY <1>1 DEF TreeInv, CurInv
    <3> QED
      BY <2>1, <3>1, <3>2 DEF CurInv, Conflicts
  <2>3. Implied' = Implied /\ Deposited' = Deposited
    BY <2>1 DEF Implied, Deposited
  <2>4. Reached'
    BY <1>1, <2>1, <2>3 DEF TreeInv, Reached
  <2>5. NamesInv' /\ ModesInv' /\ Closed' /\ LinksInv' /\ OrderInv'
    BY <1>1, <2>1 DEF TreeInv, NamesInv, EntriesCompatible, ModesInv, Closed, LinksInv,
       Somewhere, OrderInv
  <2>6. NodesInv'
    BY <1>1, <2>1, <2>3 DEF TreeInv, NodesInv, ModeNow
  <2> QED
    BY <2>2, <2>4, <2>5, <2>6 DEF TreeInv
<1> QED
  BY <1>5, <1>6, <1>7

\* The parent that is made next: the shortest of the missing ones has its own
\* parents, and no file is in its place.
LEMMA ParentStep ==
  ASSUME TypeInv, TreeInv, MakeParent
  PROVE  TreeInv' /\ pc' = "write" /\ why' = why /\ SameFiles(tree, tree')
<1> DEFINE p == CHOOSE p \in Missing : \A q \in Missing : Len(p) <= Len(q)
<1>1. pc = "write" /\ Missing # {} /\ Missing \subseteq Parents(Name)
  BY DEF MakeParent, Missing
<1>2. /\ Name \in Paths /\ Name \notin Parents(Name) /\ Name \notin DOMAIN entries
      /\ \A q \in Parents(Name) \cap DOMAIN tree : tree[q] = Dir(Permissions)
      /\ Name \in DOMAIN tree => tree[Name] = Dir(Permissions)
  BY <1>1, AtHand
<1>3. /\ Parents(Name) \subseteq Paths
      /\ \A q \in Parents(Name) : Len(q) \in Nat /\ Parents(q) \subseteq Parents(Name)
  BY <1>2, ParentFacts
<1>4. p \in Missing /\ \A q \in Missing : Len(p) <= Len(q)
  <2> DEFINE lengths == {Len(q) : q \in Missing}
  <2>1. lengths \in SUBSET Nat /\ lengths # {}
    BY <1>1, <1>3
  <2> HIDE DEF lengths
  <2>2. Min(lengths) \in lengths /\ \A y \in lengths : Min(lengths) <= y
    BY <2>1, LeastMember
  <2>3. \E q \in Missing : \A r \in Missing : Len(q) <= Len(r)
    BY <2>2 DEF lengths
  <2> QED
    BY <2>3
<1> HIDE DEF p
<1>5. p \in Parents(Name) /\ p \in Paths /\ p # Name
  BY <1>1, <1>2, <1>3, <1>4
<1>6. p \notin DOMAIN tree
  BY <1>2, <1>4, <1>5 DEF Missing, Dir, Node
<1>7. \A q \in Parents(p) : q \in DOMAIN tree /\ tree[q] = Dir(Permissions)
  <2> SUFFICES ASSUME NEW q \in Parents(p) PROVE q \in DOMAIN tree /\ tree[q] = Dir(Permissions)
    OBVIOUS
  <2>1. q \in Parents(Name) /\ Len(q) \in Nat /\ Len(p) \in Nat /\ Len(q) < Len(p)
    BY <1>3, <1>5, ParentFacts
  <2>2. q \notin Missing
    BY <1>4, <2>1
  <2> QED
    BY <1>2, <2>1, <2>2 DEF Missing
<1>8. Obstacle(p) = "none"
  BY <1>5, <1>6, <1>7, NoObstacle
<1>9. /\ tree' = Put(tree, p, Dir(Permissions))
      /\ UNCHANGED <<pc, why, cur, copied, records, stats, entryCount>>
  BY <1>8 DEF MakeParent, p
<1>10. /\ pc' = pc /\ why' = why /\ cur' = cur /\ copied' = copied /\ Name' = Name
       /\ entries' = entries /\ directoryModes' = directoryModes /\ pending' = pending
  BY <1>9 DEF records, Name
<1>11. /\ DOMAIN tree' = DOMAIN tree \cup {p} /\ tree'[p] = Dir(Permissions)
       /\ \A q \in DOMAIN tree : tree'[q] = tree[q]
  BY <1>6, <1>9 DEF Put
<1>12. Deposited' = Deposited /\ Implied' = Implied
  BY <1>10 DEF Deposited, Implied
<1>13. NamesInv' /\ ModesInv' /\ OrderInv'
  BY <1>10 DEF TreeInv, NamesInv, EntriesCompatible, ModesInv, OrderInv
<1>14. CurInv'
  BY <1>1, <1>10 DEF TreeInv, CurInv, Conflicts
<1>15. Reached'
  BY <1>1, <1>5, <1>10, <1>11, <1>12 DEF TreeInv, Reached
<1>16. Closed'
  <2>1. \A q \in DOMAIN tree' :
          q \in Paths /\ \A r \in Parents(q) : r \in DOMAIN tree /\ tree[r].type = "dir"
    BY <1>5, <1>7, <1>11 DEF TreeInv, Closed, Dir, Node
  <2> QED
    BY <1>11, <2>1 DEF Closed
<1>17. NodesInv'
  <2>1. p \notin Deposited
    BY <1>6, <1>1 DEF TreeInv, Reached, Implied
  <2>2. \A q \in Deposited' : Fits(entries'[q], q, tree'[q], ModeNow(q)')
    BY <1>1, <1>10, <1>11, <1>12 DEF TreeInv, NodesInv, Reached, Implied, ModeNow
  <2>3. \A q \in DOMAIN tree' \ Deposited' : tree'[q] = Dir(Permissions)
    BY <1>1, <1>11, <1>12 DEF TreeInv, NodesInv
  <2> QED
    BY <1>1, <1>10, <2>2, <2>3 DEF NodesInv
<1>18. LinksInv'
  <2>1. \A q \in DOMAIN tree' : tree'[q].type = "reg" => q \in DOMAIN tree /\ tree[q] = tree'[q]
    BY <1>11 DEF Dir, Node
  <2>2. ASSUME NEW o, Somewhere(o) PROVE Somewhere(o)'
    BY <1>11, <2>2 DEF Somewhere
  <2> QED
    BY <2>1, <2>2 DEF TreeInv, LinksInv
<1>19. SameFiles(tree, tree')
  BY <1>6, <1>11 DEF SameFiles, FilesOf, Dir, Node
<1> QED
  BY <1>1, <1>10, <1>13, <1>14, <1>15, <1>16, <1>17, <1>18, <1>19 DEF TreeInv

\* The path of an entry is where its directory, file or link fits.
LEMMA DirectoryStep ==
  ASSUME TypeInv, TreeInv, MakeDirectory
  PROVE  TreeInv' /\ pc' = "next" /\ why' = why /\ SameFiles(tree, tree')
<1>1. pc = "write" /\ Missing = {} /\ cur.kind = "dir"
  BY DEF MakeDirectory, Writing
<1>2. cur.mode \subseteq Permissions
  BY <1>1, CurTypes, EntryFacts
<1>3. CASE Name \in DOMAIN tree
  <2>1. tree[Name] = Dir(Permissions)
    BY <1>1, <1>3, AtHand
  <2>2. /\ Accepted /\ tree' = tree
        /\ directoryModes' = Put(directoryModes, Name, cur.mode)
    BY <1>3, <2>1 DEF MakeDirectory, Dir, Node
  <2>3. Fits(cur, Name, tree'[Name], Permissions) /\ tree'[Name].type # "reg"
    BY <1>1, <2>1, <2>2 DEF Fits, Dir, Node
  <2>4. TreeInv'
    BY <1>1, <1>3, <2>2, <2>3, AcceptStep
  <2> QED
    BY <2>2, <2>4 DEF Accepted, SameFiles
<1>4. CASE Name \notin DOMAIN tree
  <2>1. Obstacle(Name) = "none"
    BY <1>1, <1>4, NameIsFree
  <2>2. /\ Accepted /\ tree' = Put(tree, Name, Dir(cur.mode \cup Permissions))
        /\ directoryModes' = Put(directoryModes, Name, cur.mode)
    BY <1>4, <2>1 DEF MakeDirectory
  <2>3. cur.mode \cup Permissions = Permissions
    BY <1>2
  <2>4. /\ DOMAIN tree' = DOMAIN tree \cup {Name} /\ tree'[Name] = Dir(Permissions)
        /\ \A p \in DOMAIN tree : p # Name => tree'[p] = tree[p]
    BY <2>2, <2>3 DEF Put
  <2>5. Fits(cur, Name, tree'[Name], Permissions) /\ tree'[Name].type # "reg"
    BY <1>1, <2>4 DEF Fits, Dir, Node
  <2>6. TreeInv'
    BY <1>1, <2>2, <2>4, <2>5, AcceptStep
  <2>7. SameFiles(tree, tree')
    BY <1>4, <2>4 DEF SameFiles, FilesOf, Dir, Node
  <2> QED
    BY <2>2, <2>6, <2>7 DEF Accepted
<1> QED
  BY <1>3, <1>4

\* A file that is begun.
LEMMA CreateStep ==
  ASSUME TypeInv, TreeInv, CreateFile
  PROVE  \/ pc' = "failed" /\ why' = "limit"
         \/ /\ TreeInv' /\ pc' = "copy" /\ why' = why
            /\ Name \notin FilesOf(tree) /\ FilesOf(tree') = FilesOf(tree) \cup {Name}
            /\ tree'[Name].size = 0 /\ \A p \in FilesOf(tree) : tree'[p].size = tree[p].size
<1>1. pc = "write" /\ Missing = {} /\ cur.kind = "reg"
  BY DEF CreateFile, Writing
<1>2. /\ Name \in Paths /\ Name \notin Parents(Name) /\ Name \notin DOMAIN entries
      /\ Name \notin DOMAIN tree
      /\ \A p \in Parents(Name) \cap DOMAIN tree : tree[p] = Dir(Permissions)
  BY <1>1, AtHand
<1>3. Obstacle(Name) = "none"
  BY <1>1, <1>2, NameIsFree
<1>4. CASE pc' = "failed" /\ why' = "limit"
  BY <1>4
<1>5. CASE /\ tree' = Put(tree, Name, Node("reg", cur.mode, Name))
           /\ pc' = "copy"
           /\ UNCHANGED <<why, cur, copied, records, stats, entryCount>>
  <2>1. /\ pc' = "copy" /\ why' = why /\ cur' = cur /\ copied' = copied /\ Name' = Name
        /\ entries' = entries /\ directoryModes' = directoryModes /\ pending' = pending
    BY <1>5 DEF records, Name
  <2>2. /\ DOMAIN tree' = DOMAIN tree \cup {Name}
        /\ tree'[Name] = Node("reg", cur.mode, Name)
        /\ \A p \in DOMAIN tree : tree'[p] = tree[p]
    BY <1>2, <1>5 DEF Put
  <2>3. Deposited' = Deposited /\ Implied' = Implied
    BY <2>1 DEF Deposited, Implied
  <2>4. \A q \in Parents(Name) : q \in DOMAIN tree /\ tree[q].type = "dir"
    BY <1>1 DEF Missing
  <2>5. NamesInv' /\ ModesInv' /\ OrderInv'
    BY <2>1 DEF TreeInv, NamesInv, EntriesCompatible, ModesInv, OrderInv
  <2>6. CurInv'
    <3>1. Missing' = {}
      BY <2>1, <2>2, <2>4 DEF Missing
    <3>2. cur.kind \notin {"char", "other"} /\ ~Conflicts(Name, cur.kind)
      BY <1>1 DEF TreeInv, CurInv
    <3>3. ~Conflicts(Name, cur.kind)'
      BY <2>1, <3>2 DEF Conflicts
    <3> QED
      BY <1>1, <2>1, <3>1, <3>2, <3>3 DEF CurInv, Conflicts
  <2>7. Reached'
    BY <1>1, <2>1, <2>2, <2>3, <2>4 DEF TreeInv, Reached
  <2>8. Closed'
    <3>1. \A q \in DOMAIN tree' :
            q \in Paths /\ \A r \in Parents(q) : r \in DOMAIN tree /\ tree[r].type = "dir"
      BY <1>2, <2>2, <2>4 DEF TreeInv, Closed
    <3> QED
      BY <2>2, <3>1 DEF Closed
  <2>9. NodesInv'
    <3>1. \A q \in Deposited' : Fits(entries'[q], q, tree'[q], ModeNow(q)')
      BY <1>1, <2>1, <2>2, <2>3 DEF TreeInv, NodesInv, Reached, Implied, ModeNow
    <3>2. copied = 0
      BY <1>1 DEF TreeInv, CurInv
    <3>3. tree'[Name] = [type |-> "reg", mode |-> cur.mode, size |-> copied', of |-> Name]
      BY <2>1, <2>2, <3>2 DEF Node
    <3>4. \A q \in DOMAIN tree' \ Deposited' : q # Name => tree'[q] = Dir(Permissions)
      BY <1>1, <2>2, <2>3 DEF TreeInv, NodesInv
    <3> QED
      BY <2>1, <3>1, <3>3, <3>4 DEF NodesInv
  <2>10. LinksInv'
    <3>1. ASSUME NEW o, Somewhere(o) \/ o = Name PROVE Somewhere(o)'
      BY <2>2, <3>1 DEF Somewhere
    <3>2. \A q \in DOMAIN tree' : tree'[q].type = "reg" =>
            Somewhere(tree'[q].of) \/ tree'[q].of = Name
      BY <2>2 DEF TreeInv, LinksInv, Node
    <3> QED
      BY <3>1, <3>2 DEF LinksInv
  <2>11. /\ Name \notin FilesOf(tree) /\ FilesOf(tree') = FilesOf(tree) \cup {Name}
         /\ tree'[Name].size = 0 /\ \A p \in FilesOf(tree) : tree'[p].size = tree[p].size
    BY <1>2, <2>2 DEF FilesOf, Node
  <2> QED
    BY <2>1, <2>5, <2>6, <2>7, <2>8, <2>9, <2>10, <2>11 DEF TreeInv
<1> QED
  BY <1>3, <1>4, <1>5 DEF CreateFile, Abandoned

\* A file that grows.
LEMMA CopyStep ==
  ASSUME TypeInv, TreeInv, Copy
  PROVE  /\ TreeInv' /\ pc' = "copy" /\ why' = why
         /\ Name \in FilesOf(tree) /\ FilesOf(tree') = FilesOf(tree)
         /\ tree'[Name].size = copied + 1
         /\ \A p \in FilesOf(tree) : p # Name => tree'[p].size = tree[p].size
<1>1. /\ pc = "copy" /\ pc' = "copy" /\ why' = why /\ cur' = cur /\ copied' = copied + 1
      /\ Name' = Name
      /\ entries' = entries /\ directoryModes' = directoryModes /\ pending' = pending
      /\ tree' = [tree EXCEPT ![Name].size = copied + 1]
  BY DEF Copy, records, Name
<1>2. /\ Name \in DOMAIN tree /\ Name \notin DOMAIN entries
      /\ tree[Name] = [type |-> "reg", mode |-> cur.mode, size |-> copied, of |-> Name]
  BY <1>1, AtHand
<1>3. /\ DOMAIN tree' = DOMAIN tree
      /\ tree'[Name] = [type |-> "reg", mode |-> cur.mode, size |-> copied + 1, of |-> Name]
      /\ \A q \in DOMAIN tree : q # Name => tree'[q] = tree[q]
  BY <1>1, <1>2
<1>4. \A q \in DOMAIN tree : tree'[q].type = tree[q].type /\ tree'[q].of = tree[q].of
  BY <1>2, <1>3
<1>5. Deposited' = Deposited /\ Implied' = Implied /\ Name \notin Deposited
  BY <1>1, <1>2 DEF Deposited, Implied
<1>6. NamesInv' /\ ModesInv' /\ OrderInv'
  BY <1>1 DEF TreeInv, NamesInv, EntriesCompatible, ModesInv, OrderInv
<1>7. CurInv'
  <2>1. Missing' = {}
    BY <1>1, <1>3, <1>4 DEF TreeInv, CurInv, Missing
  <2>2. ~Conflicts(Name, cur.kind)'
    BY <1>1 DEF TreeInv, CurInv, Conflicts
  <2> QED
    BY <1>1, <2>1, <2>2 DEF TreeInv, CurInv, Conflicts
<1>8. Reached' /\ Closed'
  BY <1>1, <1>3, <1>4, <1>5 DEF TreeInv, Reached, Closed
<1>9. NodesInv'
  <2>1. \A q \in Deposited' : Fits(entries'[q], q, tree'[q], ModeNow(q)')
    BY <1>1, <1>3, <1>5 DEF TreeInv, NodesInv, Reached, Implied, ModeNow
  <2> QED
    BY <1>1, <1>3, <1>5, <2>1 DEF TreeInv, NodesInv
<1>10. LinksInv'
  <2>1. ASSUME NEW o, Somewhere(o) PROVE Somewhere(o)'
    BY <1>3, <1>4, <2>1 DEF Somewhere
  <2> QED
    BY <1>3, <1>4, <2>1 DEF TreeInv, LinksInv
<1>11. Name \in FilesOf(tree) /\ FilesOf(tree') = FilesOf(tree)
  BY <1>2, <1>3, <1>4 DEF FilesOf
<1> QED
  BY <1>1, <1>3, <1>6, <1>7, <1>8, <1>9, <1>10, <1>11 DEF TreeInv, FilesOf

\* A file that is complete.
LEMMA FinishStep ==
  ASSUME TypeInv, TreeInv, FinishFile
  PROVE  \/ pc' = "failed" /\ why' \in {"limit", "size"}
         \/ TreeInv' /\ pc' = "next" /\ why' = why
<1>1. CASE pc' = "failed" /\ why' \in {"limit", "size"}
  BY <1>1
<1>2. CASE copied = cur.size /\ Accepted /\ UNCHANGED <<tree, directoryModes>>
  <2>1. pc = "copy" /\ Missing = {} /\ cur.kind = "reg"
    BY DEF FinishFile, TreeInv, CurInv
  <2>2. /\ Name \in DOMAIN tree
        /\ tree[Name] = [type |-> "reg", mode |-> cur.mode, size |-> copied, of |-> Name]
    BY <2>1, AtHand
  <2>3. Fits(cur, Name, tree'[Name], Permissions) /\ tree'[Name].of = Name
    BY <1>2, <2>1, <2>2 DEF Fits
  <2>4. TreeInv'
    BY <1>2, <2>1, <2>2, <2>3, AcceptStep
  <2> QED
    BY <1>2, <2>4 DEF Accepted
<1> QED
  BY <1>1, <1>2 DEF FinishFile, Abandoned

\* A link that is placed on a free path.
LEMMA LinkStep ==
  ASSUME TypeInv, TreeInv, NEW kind \in {"symlink", "link"}, Writing(kind),
         NEW r \in {"target", Obstacle(Name)}, NEW v, PlaceLink(r, v),
         r # "target" =>
           /\ Fits(cur, Name, v, Permissions)
           /\ v.type = "reg" => Somewhere(v.of)
  PROVE  \/ pc' = "failed" /\ why' = "target"
         \/ TreeInv' /\ pc' = "next" /\ why' = why /\ SameFiles(tree, tree')
<1>1. pc = "write" /\ Missing = {} /\ cur.kind = kind
  BY DEF Writing
<1>2. Name \notin DOMAIN tree
  BY <1>1, AtHand
<1>3. Obstacle(Name) = "none"
  BY <1>1, <1>2, NameIsFree
<1>4. CASE r = "target"
  BY <1>4 DEF PlaceLink, Abandoned
<1>5. CASE r # "target"
  <2>1. Accepted /\ tree' = Put(tree, Name, v) /\ directoryModes' = directoryModes
    BY <1>3, <1>5 DEF PlaceLink
  <2>2. /\ DOMAIN tree' = DOMAIN tree \cup {Name} /\ tree'[Name] = v
        /\ \A p \in DOMAIN tree : p # Name => tree'[p] = tree[p]
    BY <2>1 DEF Put
  <2>3. TreeInv'
    BY <1>1, <1>5, <2>1, <2>2, AcceptStep
  <2>4. v.type = "reg" => v.of # Name
    BY <1>1, <1>5 DEF Fits
  <2>5. SameFiles(tree, tree')
    BY <1>2, <2>2, <2>4 DEF SameFiles, FilesOf
  <2> QED
    BY <2>1, <2>3, <2>5 DEF Accepted
<1> QED
  BY <1>4, <1>5

\* What a hard link finds is not at its own path.
LEMMA FoundElsewhere ==
  ASSUME TypeInv, TreeInv, pc = "write", Missing = {}, cur.kind = "link",
         NEW t, NEW found \in Lookup(t), found.type = "reg"
  PROVE  Somewhere(found.of) /\ found.of # Name
<1>1. Somewhere(found.of)
  <2>1. CASE \E q \in Parents(t) \cap DOMAIN tree : tree[q].type = "symlink"
    <3>1. found \in {Node("none", {}, t), Node("reg", {}, t)}
      BY <2>1 DEF Lookup
    <3>2. found.of = t
      BY <3>1 DEF Node
    <3> QED
      BY <2>1, <3>2 DEF Somewhere
  <2>2. CASE ~(\E q \in Parents(t) \cap DOMAIN tree : tree[q].type = "symlink")
    <3>1. found = IF t \in DOMAIN tree THEN tree[t] ELSE Node("none", {}, t)
      BY <2>2 DEF Lookup
    <3>2. t \in DOMAIN tree /\ found = tree[t]
      BY <3>1 DEF Node
    <3> QED
      BY <3>2 DEF TreeInv, LinksInv
  <2> QED
    BY <2>1, <2>2
<1>2. /\ Name \notin DOMAIN tree
      /\ \A q \in Parents(Name) \cap DOMAIN tree : tree[q] = Dir(Permissions)
  BY AtHand
<1>3. \A q \in Parents(Name) \cap DOMAIN tree : tree[q].type # "symlink"
  BY <1>2 DEF Dir, Node
<1>4. ~Somewhere(Name)
  BY <1>2, <1>3 DEF Somewhere
<1> QED
  BY <1>1, <1>4

\* The two kinds of links.
LEMMA SymlinkStep ==
  ASSUME TypeInv, TreeInv, MakeSymlink
  PROVE  \/ pc' = "failed" /\ why' = "target"
         \/ TreeInv' /\ pc' = "next" /\ why' = why /\ SameFiles(tree, tree')
<1> DEFINE r == IF InternalTarget(Name, cur.target) THEN Obstacle(Name) ELSE "target"
           v == Node("symlink", Permissions, cur.target)
<1>1. pc = "write" /\ cur.kind = "symlink" /\ Writing("symlink") /\ PlaceLink(r, v)
  BY DEF MakeSymlink, Writing
<1>2. Fits(cur, Name, v, Permissions) /\ v.type # "reg"
  BY <1>1 DEF Fits, Node
<1>3. r \in {"target", Obstacle(Name)}
  OBVIOUS
<1> HIDE DEF r, v
<1> QED
  BY <1>1, <1>2, <1>3, LinkStep

\* A hard link is to a regular file found elsewhere, never to itself.
LEMMA HardlinkStep ==
  ASSUME TypeInv, TreeInv, MakeHardlink
  PROVE  \/ pc' = "failed" /\ why' = "target"
         \/ TreeInv' /\ pc' = "next" /\ why' = why /\ SameFiles(tree, tree')
<1>1. pc = "write" /\ cur.kind = "link" /\ Writing("link") /\ Missing = {}
  BY DEF MakeHardlink, Writing
<1>2. PICK found \in Lookup(Clean(cur.target)) :
        LET good == /\ ValidName(cur.target) /\ ~RootMarker(cur.target)
                    /\ found.type = "reg"
        IN PlaceLink(IF good THEN Obstacle(Name) ELSE "target", found)
  BY DEF MakeHardlink
<1> DEFINE r == IF /\ ValidName(cur.target) /\ ~RootMarker(cur.target)
                   /\ found.type = "reg"
                THEN Obstacle(Name) ELSE "target"
<1>3. PlaceLink(r, found) /\ r \in {"target", Obstacle(Name)}
  BY <1>2
<1>4. r # "target" => found.type = "reg"
  OBVIOUS
<1> HIDE DEF r
<1>5. r # "target" => Somewhere(found.of) /\ found.of # Name
  BY <1>1, <1>4, FoundElsewhere
<1>6. r # "target" => Fits(cur, Name, found, Permissions)
  BY <1>1, <1>4, <1>5 DEF Fits
<1> QED
  BY <1>1, <1>3, <1>5, <1>6, LinkStep

\* The mode of a directory is applied: the ones above it still let the owner in.
LEMMA ModeStep ==
  ASSUME TypeInv, TreeInv, NEW p \in pending, ApplyMode(p)
  PROVE  TreeInv' /\ pc' = "chmod" /\ why' = why /\ SameFiles(tree, tree')
<1>1. pc = "chmod" /\ \A q \in pending : Len(p) >= Len(q)
  BY DEF ApplyMode, ComesFirst
<1>2. /\ pending \subseteq DOMAIN directoryModes
      /\ p \in DOMAIN entries /\ entries[p].kind = "dir" /\ directoryModes[p] = entries[p].mode
      /\ p \in Deposited /\ p \in DOMAIN tree /\ p \in Paths
  BY <1>1 DEF TypeInv, TypeOK, TreeInv, ModesInv, NamesInv, Deposited, Reached, Implied
<1>3. \A q \in Parents(p) : "x" \in tree[q].mode
  <2> SUFFICES ASSUME NEW q \in Parents(p) PROVE "x" \in tree[q].mode
    OBVIOUS
  <2>1. q \in DOMAIN tree /\ tree[q].type = "dir"
    BY <1>2 DEF TreeInv, Closed
  <2>2. Len(q) \in Nat /\ Len(p) \in Nat /\ Len(q) < Len(p)
    BY <1>2, ParentFacts
  <2>3. tree[q] = Dir(Permissions)
    <3>1. CASE q \notin Deposited
      BY <1>1, <2>1, <3>1 DEF TreeInv, NodesInv
    <3>2. CASE q \in Deposited
      <4>1. entries[q].kind = "dir"
        BY <1>2, <3>2 DEF TreeInv, NamesInv, EntriesCompatible, Deposited
      <4>2. q \in DOMAIN directoryModes
        BY <3>2, <4>1 DEF TreeInv, ModesInv, Deposited
      <4>3. q \in pending
        BY <1>1, <2>2, <4>2 DEF TreeInv, OrderInv
      <4>4. Fits(entries[q], q, tree[q], Permissions)
        BY <3>2, <4>3 DEF TreeInv, NodesInv, ModeNow
      <4> QED
        BY <4>1, <4>4 DEF Fits
    <3> QED
      BY <3>1, <3>2
  <2> QED
    BY <2>3 DEF Dir, Node, Permissions
<1>4. /\ tree' = [tree EXCEPT ![p].mode = directoryModes[p]]
      /\ pending' = pending \ {p} /\ pc' = pc /\ why' = why /\ cur' = cur /\ copied' = copied
      /\ entries' = entries /\ directoryModes' = directoryModes
  BY <1>3 DEF ApplyMode
<1>5. tree[p] = Dir(Permissions)
  <2>1. Fits(entries[p], p, tree[p], Permissions)
    BY <1>2 DEF TreeInv, NodesInv, ModeNow
  <2> QED
    BY <1>2, <2>1 DEF Fits
<1>6. /\ DOMAIN tree' = DOMAIN tree /\ tree'[p] = Dir(entries[p].mode)
      /\ \A q \in DOMAIN tree : q # p => tree'[q] = tree[q]
  BY <1>2, <1>4, <1>5 DEF Dir, Node
<1>7. \A q \in DOMAIN tree : tree'[q].type = tree[q].type /\ tree'[q].of = tree[q].of
  BY <1>5, <1>6 DEF Dir, Node
<1>8. Deposited' = Deposited /\ Implied' = Implied
  BY <1>4 DEF Deposited, Implied
<1>9. NamesInv' /\ ModesInv' /\ CurInv'
  BY <1>1, <1>4 DEF TreeInv, NamesInv, EntriesCompatible, ModesInv, CurInv
<1>10. Reached' /\ Closed'
  BY <1>1, <1>4, <1>6, <1>7, <1>8 DEF TreeInv, Reached, Closed
<1>11. NodesInv'
  <2>1. ASSUME NEW q \in Deposited' PROVE Fits(entries'[q], q, tree'[q], ModeNow(q)')
    <3>1. CASE q = p
      <4>1. ModeNow(p)' = entries[p].mode
        BY <1>1, <1>4 DEF ModeNow
      <4> QED
        BY <1>2, <1>4, <1>6, <3>1, <4>1 DEF Fits
    <3>2. CASE q # p
      <4>1. ModeNow(q)' = ModeNow(q)
        BY <1>4, <3>2 DEF ModeNow
      <4>2. q \in Deposited /\ q \in DOMAIN tree
        BY <1>1, <1>8 DEF TreeInv, Reached, Implied
      <4> QED
        BY <1>4, <1>6, <3>2, <4>1, <4>2 DEF TreeInv, NodesInv
    <3> QED
      BY <3>1, <3>2
  <2>2. \A q \in DOMAIN tree' \ Deposited' : tree'[q] = Dir(Permissions)
    BY <1>1, <1>2, <1>6, <1>8 DEF TreeInv, NodesInv
  <2> QED
    BY <1>1, <1>4, <2>1, <2>2 DEF NodesInv
<1>12. LinksInv'
  <2>1. ASSUME NEW o, Somewhere(o) PROVE Somewhere(o)'
    BY <1>6, <1>7, <2>1 DEF Somewhere
  <2> QED
    BY <1>6, <1>7, <2>1 DEF TreeInv, LinksInv
<1>13. OrderInv'
  BY <1>1, <1>4 DEF TreeInv, OrderInv
<1>14. SameFiles(tree, tree')
  BY <1>5, <1>6 DEF SameFiles, FilesOf, Dir, Node
<1> QED
  BY <1>1, <1>4, <1>9, <1>10, <1>11, <1>12, <1>13, <1>14 DEF TreeInv

\* Between two entries, at the end of the archive and after it nothing moves.
LEMMA EndStep ==
  ASSUME TypeInv, TreeInv, EndOfArchive \/ Return
  PROVE  TreeInv' /\ pc' \in {"chmod", "done"} /\ why' = why
<1>1. CASE EndOfArchive
  <2>1. /\ pc = "next" /\ pc' = "chmod" /\ pending' = DOMAIN directoryModes
        /\ UNCHANGED <<why, cur, copied, tree, entries, directoryModes>>
    BY <1>1 DEF EndOfArchive
  <2>2. Deposited' = Deposited /\ Implied' = Implied
    BY <2>1 DEF Deposited, Implied
  <2>3. NamesInv' /\ ModesInv' /\ CurInv' /\ Reached' /\ Closed' /\ LinksInv' /\ OrderInv'
    BY <2>1, <2>2 DEF TreeInv, NamesInv, EntriesCompatible, ModesInv, CurInv, Reached, Closed,
       LinksInv, Somewhere, OrderInv
  <2>4. NodesInv'
    <3>1. ASSUME NEW q \in Deposited' PROVE Fits(entries'[q], q, tree'[q], ModeNow(q)')
      <4>1. q \in Deposited /\ Fits(entries[q], q, tree[q], Permissions)
        BY <2>1, <2>2 DEF TreeInv, NodesInv, ModeNow
      <4>2. CASE entries[q].kind = "dir"
        <5>1. q \in pending'
          BY <2>1, <4>1, <4>2 DEF TreeInv, ModesInv, Deposited
        <5> QED
          BY <2>1, <4>1, <5>1 DEF ModeNow
      <4>3. CASE entries[q].kind # "dir"
        BY <2>1, <4>1, <4>3 DEF Fits
      <4> QED
        BY <4>2, <4>3
    <3> QED
      BY <2>1, <2>2, <3>1 DEF TreeInv, NodesInv
  <2> QED
    BY <2>1, <2>3, <2>4 DEF TreeInv
<1>2. CASE Return
  <2>1. /\ pc = "chmod" /\ pending = {} /\ pc' = "done"
        /\ UNCHANGED <<why, cur, copied, tree, entries, directoryModes, pending>>
    BY <1>2 DEF Return, records
  <2>2. Deposited' = Deposited /\ Implied' = Implied
    BY <2>1 DEF Deposited, Implied
  <2>3. NamesInv' /\ ModesInv' /\ CurInv' /\ Reached' /\ Closed' /\ LinksInv' /\ OrderInv'
    BY <2>1, <2>2 DEF TreeInv, NamesInv, EntriesCompatible, ModesInv, CurInv, Reached, Closed,
       LinksInv, Somewhere, OrderInv
  <2>4. NodesInv'
    <3>1. \A q : ModeNow(q)' = ModeNow(q)
      BY <2>1 DEF ModeNow
    <3> QED
      BY <2>1, <2>2, <3>1 DEF TreeInv, NodesInv
  <2> QED
    BY <2>1, <2>3, <2>4 DEF TreeInv
<1> QED
  BY <1>1, <1>2

-----------------------------------------------------------------------------
(* The theorems.                                                           *)

\* The extraction begins with nothing.
LEMMA InitExtract == Init => TypeInv /\ ExtractInv
<1> SUFFICES ASSUME Init PROVE TypeInv /\ ExtractInv
  OBVIOUS
<1>1. /\ pc = "next" /\ why = "none" /\ cur = NoEntry /\ copied = 0 /\ pending = {}
      /\ DOMAIN tree = {} /\ DOMAIN entries = {} /\ DOMAIN directoryModes = {}
      /\ extractedBytes = 0 /\ largestFileBytes = 0 /\ entryCount = 0
  BY DEF Init, Empty
<1>2. TypeInv
  BY <1>1 DEF TypeInv, TypeOK, Reasons
<1>3. Deposited = {} /\ Implied = {}
  BY <1>1 DEF Deposited, Implied
<1>4. TreeInv
  BY <1>1, <1>3 DEF TreeInv, NamesInv, EntriesCompatible, ModesInv, CurInv, Reached, Closed,
     NodesInv, LinksInv, OrderInv
<1> QED
  BY <1>1, <1>2, <1>4 DEF ExtractInv, DiskHoldsNoSurprise

\* Every step keeps the agreement of tree and entries, or fails for a reason that
\* neither the disk nor a mode gave.
LEMMA ExtractStep == TypeInv /\ ExtractInv /\ [Next]_vars => ExtractInv'
<1> SUFFICES ASSUME TypeInv, ExtractInv, [Next]_vars PROVE ExtractInv'
  OBVIOUS
\* Either the extraction fails for a reason the entries and the archive give, or
\* it goes on with everything in order.
<1> DEFINE Failing == pc' = "failed" /\ why' \notin {"disk", "permission"}
           Going == TreeInv' /\ why' = why
<1>1. pc # "failed" => TreeInv
  BY DEF ExtractInv
<1>2. why \notin {"disk", "permission"}
  BY DEF ExtractInv, DiskHoldsNoSurprise
<1>3. SUFFICES Failing \/ Going \/ UNCHANGED vars
  <2>1. CASE Failing
    BY <2>1 DEF ExtractInv, DiskHoldsNoSurprise
  <2>2. CASE Going
    BY <1>2, <2>2 DEF ExtractInv, DiskHoldsNoSurprise
  <2>3. CASE UNCHANGED vars
    BY <2>3 DEF vars, ExtractInv, DiskHoldsNoSurprise, TreeInv, NamesInv, EntriesCompatible,
       ModesInv, CurInv, Conflicts, Missing, Name, Reached, Implied, Deposited, Closed, NodesInv,
       ModeNow, LinksInv, Somewhere, OrderInv
  <2> QED
    BY <1>3, <2>1, <2>2, <2>3
<1>4. ASSUME NEW e \in Entries, RefuseEntry(e) PROVE Failing
  BY <1>4 DEF RefuseEntry, Refusal
<1>5. ASSUME NEW e \in Entries, TakeEntry(e) PROVE Going
  <2>1. pc = "next" /\ why' = why
    BY <1>5 DEF TakeEntry
  <2> QED
    BY <1>1, <1>5, <2>1, TakeStep
<1>6. CASE MakeParent
  <2>1. pc = "write"
    BY <1>6 DEF MakeParent
  <2> QED
    BY <1>1, <1>6, <2>1, ParentStep
<1>7. CASE MakeDirectory
  <2>1. pc = "write"
    BY <1>7 DEF MakeDirectory, Writing
  <2> QED
    BY <1>1, <1>7, <2>1, DirectoryStep
<1>8. CASE CreateFile
  <2>1. pc = "write"
    BY <1>8 DEF CreateFile, Writing
  <2> QED
    BY <1>1, <1>8, <2>1, CreateStep
<1>9. CASE Copy
  <2>1. pc = "copy"
    BY <1>9 DEF Copy
  <2> QED
    BY <1>1, <1>9, <2>1, CopyStep
<1>10. CASE FinishFile
  <2>1. pc = "copy"
    BY <1>10 DEF FinishFile
  <2> QED
    BY <1>1, <1>10, <2>1, FinishStep
<1>11. CASE MakeSymlink
  <2>1. pc = "write"
    BY <1>11 DEF MakeSymlink, Writing
  <2> QED
    BY <1>1, <1>11, <2>1, SymlinkStep
<1>12. CASE MakeHardlink
  <2>1. pc = "write"
    BY <1>12 DEF MakeHardlink, Writing
  <2> QED
    BY <1>1, <1>12, <2>1, HardlinkStep
<1>13. CASE IOError
  BY <1>13 DEF IOError, Abandoned
<1>14. CASE EndOfArchive \/ Return
  <2>1. pc # "failed"
    BY <1>14 DEF EndOfArchive, Return
  <2> QED
    BY <1>1, <1>14, <2>1, EndStep
<1>15. ASSUME NEW p \in pending, ApplyMode(p) PROVE Going
  <2>1. pc = "chmod"
    BY <1>15 DEF ApplyMode
  <2> QED
    BY <1>1, <1>15, <2>1, ModeStep
<1> HIDE DEF Failing, Going
<1> QED
  BY <1>4, <1>5, <1>6, <1>7, <1>8, <1>9, <1>10, <1>11, <1>12, <1>13, <1>14, <1>15
     DEF Next, Ended

\* The strengthening holds of every extraction.
LEMMA Extraction == Spec => [](TypeInv /\ ExtractInv)
BY InitExtract, TypeStep, ExtractStep, PTL DEF Spec

\* The variables always have their types, and an extraction names an error just
\* when it ended with one.
THEOREM TypesOfExtraction == Spec => []TypeOK
<1>1. TypeInv => TypeOK
  BY DEF TypeInv
<1> QED
  BY <1>1, Extraction, PTL

\* checkEntryConflicts is enough: what extractDirectory, extractRegularFile and
\* the functions for links find on disk never contradicts the map of entries, and
\* no directory is closed before everything below it has its mode.
THEOREM NoSurprise == Spec => []DiskHoldsNoSurprise
<1>1. ExtractInv => DiskHoldsNoSurprise
  BY DEF ExtractInv
<1> QED
  BY <1>1, Extraction, PTL

\* An archive that was extracted is on disk as its entries say, with their types
\* and modes, and with nothing beside them but the parents they imply.
THEOREM AsArchived == Spec => []ExtractedAsArchived
<1>1. TypeInv /\ ExtractInv => ExtractedAsArchived
  <2> SUFFICES ASSUME TreeInv, pc = "done" PROVE ExtractedAsArchived
    BY DEF ExtractInv, ExtractedAsArchived
  <2>1. pending = {} /\ DOMAIN tree = Implied
    BY DEF TreeInv, OrderInv, Reached
  <2>2. ASSUME NEW p \in DOMAIN tree, p \notin Deposited PROVE tree[p] = Dir(Permissions)
    BY <2>2 DEF TreeInv, NodesInv
  <2>3. ASSUME NEW p \in DOMAIN tree, p \in Deposited
        PROVE  Fits(entries[p], p, tree[p], entries[p].mode)
    BY <2>1, <2>3 DEF TreeInv, NodesInv, ModeNow
  <2>4. ASSUME NEW p \in DOMAIN tree, p \in Deposited
        PROVE  LET e == entries[p] IN
               CASE e.kind = "dir" -> tree[p] = Dir(e.mode)
                 [] e.kind = "reg" -> /\ tree[p].type = "reg" /\ tree[p].mode = e.mode
                                      /\ tree[p].size = e.size /\ tree[p].of = p
                 [] e.kind = "link" -> tree[p].type = "reg" /\ tree[p].of # p
                 [] OTHER -> tree[p].type = "symlink" /\ tree[p].of = e.target
    <3>1. Fits(entries[p], p, tree[p], entries[p].mode)
      BY <2>3, <2>4
    <3>2. CASE entries[p].kind = "reg"
      BY <3>1, <3>2 DEF Fits
    <3>3. CASE entries[p].kind # "reg"
      BY <3>1, <3>3 DEF Fits
    <3> QED
      BY <3>2, <3>3
  <2>5. DOMAIN tree = Deposited \cup UNION {Parents(n) : n \in Deposited}
    BY <2>1 DEF Implied
  <2> QED
    BY <2>2, <2>4, <2>5 DEF ExtractedAsArchived, Deposited
<1> QED
  BY <1>1, Extraction, PTL

-----------------------------------------------------------------------------
(* The limits.                                                             *)

\* The bytes of the files in t, and those of all but n.
Rest(t, n) == Sum([p \in FilesOf(t) \ {n} |-> t[p].size], FilesOf(t) \ {n})
BytesOf(t) == Sum([p \in FilesOf(t) |-> t[p].size], FilesOf(t))

\* MapThenSumSet is the sum defined above.
LEMMA BytesAreSum ==
  ASSUME NEW t
  PROVE  MapThenSumSet(LAMBDA p : t[p].size, FilesOf(t)) = BytesOf(t)
<1> DEFINE F == FilesOf(t)
           f == [p \in F |-> t[p].size]
<1>1. \A s \in SUBSET F : s # {} => Pick(s) \in F /\ f[Pick(s)] = t[Pick(s)].size
  BY DEF Pick
<1>2. ASSUME NEW g
      PROVE  IsSum(g, f, F) <=>
             g = [s \in SUBSET F |-> IF s = {} THEN 0 ELSE t[Pick(s)].size + g[s \ {Pick(s)}]]
  <2> HIDE DEF f, F
  <2> QED
    BY <1>1 DEF IsSum
<1>3. MapThenSumSet(LAMBDA p : t[p].size, F) =
        (CHOOSE g : g = [s \in SUBSET F |->
           IF s = {} THEN 0 ELSE t[Pick(s)].size + g[s \ {Pick(s)}]])[F]
  BY DEF MapThenSumSet, MapThenFoldSet, Pick
<1> HIDE DEF f, F
<1>4. MapThenSumSet(LAMBDA p : t[p].size, F) = Sum(f, F)
  BY <1>2, <1>3 DEF Sum
<1> QED
  BY <1>4 DEF f, F, BytesOf

\* The bytes on disk, of this state
LEMMA BytesNow == OwnFiles = FilesOf(tree) /\ BytesOnDisk = BytesOf(tree)
<1>1. OwnFiles = FilesOf(tree)
  BY DEF OwnFiles, FilesOf
<1>2. BytesOnDisk = MapThenSumSet(LAMBDA p : tree[p].size, FilesOf(tree))
  BY <1>1 DEF BytesOnDisk
<1> QED
  BY <1>1, <1>2, BytesAreSum

\* and of the next.
LEMMA BytesNext == OwnFiles' = FilesOf(tree') /\ BytesOnDisk' = BytesOf(tree')
<1>1. (OwnFiles = FilesOf(tree) /\ BytesOnDisk = BytesOf(tree))'
  BY BytesNow, PTL
<1>2. FilesOf(tree)' = FilesOf(tree') /\ BytesOf(tree)' = BytesOf(tree')
  BY DEF FilesOf, BytesOf
<1> QED
  BY <1>1, <1>2

\* One file apart.
LEMMA BytesApart ==
  ASSUME NEW t, IsFiniteSet(FilesOf(t)), \A p \in FilesOf(t) : t[p].size \in Nat, NEW n
  PROVE  /\ Rest(t, n) \in Nat
         /\ n \in FilesOf(t) => BytesOf(t) = t[n].size + Rest(t, n)
         /\ n \notin FilesOf(t) => BytesOf(t) = Rest(t, n)
<1> DEFINE F == FilesOf(t)
           f == [p \in F |-> t[p].size]
           G == F \ {n}
           g == [p \in G |-> t[p].size]
<1>1. IsFiniteSet(F) /\ IsFiniteSet(G)
  BY FS_RemoveElement
<1>2. /\ \A p \in F : f[p] = t[p].size /\ f[p] \in Nat
      /\ \A p \in G : g[p] = f[p] /\ f[p] \in Nat /\ g[p] \in Nat
  OBVIOUS
<1>3. BytesOf(t) = Sum(f, F) /\ Rest(t, n) = Sum(g, G)
  BY DEF BytesOf, Rest
<1>4. n \notin F => G = F
  OBVIOUS
<1>5. G = F \ {n} /\ F = FilesOf(t)
  OBVIOUS
<1> HIDE DEF f, g, F, G
<1>6. Sum(g, G) = Sum(f, G) /\ Sum(g, G) \in Nat
  BY <1>1, <1>2, SumSame, SumFacts
<1>7. n \in F => Sum(f, F) = f[n] + Sum(f, G)
  BY <1>1, <1>2, <1>5, SumFacts
<1> QED
  BY <1>2, <1>3, <1>4, <1>5, <1>6, <1>7

\* All but one file the same, and the same bytes in the rest.
LEMMA SameRest ==
  ASSUME NEW t, IsFiniteSet(FilesOf(t)), \A p \in FilesOf(t) : t[p].size \in Nat,
         NEW u, NEW n, FilesOf(u) \ {n} = FilesOf(t) \ {n},
         \A p \in FilesOf(t) : p # n => u[p].size = t[p].size
  PROVE  Rest(u, n) = Rest(t, n)
<1> DEFINE F == FilesOf(t) \ {n}
           f == [p \in F |-> t[p].size]
           g == [p \in F |-> u[p].size]
<1>1. f = g
  OBVIOUS
<1>2. Rest(t, n) = Sum(f, F) /\ Rest(u, n) = Sum(g, F)
  BY DEF Rest
<1> QED
  BY <1>1, <1>2

\* The same files have the same bytes.
LEMMA SameBytes ==
  ASSUME NEW t, NEW u, SameFiles(t, u)
  PROVE  BytesOf(u) = BytesOf(t)
<1>1. [p \in FilesOf(u) |-> u[p].size] = [p \in FilesOf(t) |-> t[p].size]
  BY DEF SameFiles
<1> QED
  BY <1>1 DEF BytesOf, SameFiles

\* The entry at hand is not yet among the accepted ones, but counted.
InHand == IF pc \in {"write", "copy"} THEN 1 ELSE 0
CountInv ==
  /\ IsFiniteSet(DOMAIN entries)
  /\ pc # "failed" =>
       entryCount <= MaxEntries /\ Cardinality(DOMAIN entries) + InHand <= entryCount

\* The file that is being copied.
Begun(p) == pc = "copy" /\ p = Name

\* On disk are the bytes of the statistics and those of the file begun, which
\* has one more than allowed at most.
LimitsInv ==
  /\ IsFiniteSet(FilesOf(tree))
  /\ BytesOf(tree) = extractedBytes + copied
  /\ extractedBytes <= MaxTotalBytes
  /\ largestFileBytes <= MaxFileBytes /\ largestFileBytes <= extractedBytes
  /\ pc # "copy" => copied = 0
  /\ pc = "copy" => copied <= MaxFileBytes + 1 /\ extractedBytes + copied <= MaxTotalBytes + 1
  /\ \A p \in FilesOf(tree) : ~Begun(p) => tree[p].size <= largestFileBytes
  /\ largestFileBytes = 0
     \/ \E p \in FilesOf(tree) : ~Begun(p) /\ tree[p].size = largestFileBytes

\* One entry more is one name more at most.
LEMMA CountAccepted ==
  ASSUME TypeInv, CountInv, pc \in {"write", "copy"}, Accepted
  PROVE  CountInv'
<1>1. /\ DOMAIN entries' = DOMAIN entries \cup {Name} /\ pc' = "next"
      /\ entryCount' = entryCount
  BY DEF Accepted, Put
<1>2. /\ IsFiniteSet(DOMAIN entries') /\ Cardinality(DOMAIN entries) \in Nat
      /\ Cardinality(DOMAIN entries') \in {Cardinality(DOMAIN entries), Cardinality(DOMAIN entries) + 1}
  <2>1. IsFiniteSet(DOMAIN entries) /\ Cardinality(DOMAIN entries) \in Nat
    BY FS_CardinalityType DEF CountInv
  <2>2. /\ IsFiniteSet(DOMAIN entries \cup {Name})
        /\ Cardinality(DOMAIN entries \cup {Name}) =
             IF Name \in DOMAIN entries THEN Cardinality(DOMAIN entries)
             ELSE Cardinality(DOMAIN entries) + 1
    BY <2>1, FS_AddElement
  <2> QED
    BY <1>1, <2>1, <2>2
<1> QED
  BY <1>1, <1>2 DEF CountInv, InHand, TypeInv, TypeOK

\* Every step keeps the number of entries within its limit, or fails.
LEMMA CountStep == TypeInv /\ CountInv /\ [Next]_vars => CountInv'
<1> SUFFICES ASSUME TypeInv, CountInv, [Next]_vars PROVE CountInv'
  OBVIOUS
<1>1. CASE pc' = "failed" /\ entries' = entries
  BY <1>1 DEF CountInv
<1>2. CASE /\ entries' = entries /\ entryCount' = entryCount
           /\ pc # "failed" /\ InHand' = InHand
  BY <1>2 DEF CountInv
<1>3. ASSUME NEW r, Abandoned(r) PROVE CountInv'
  BY <1>1, <1>3 DEF Abandoned, records
<1>4. ASSUME NEW e \in Entries, RefuseEntry(e) PROVE CountInv'
  BY <1>1, <1>4 DEF RefuseEntry, records
<1>5. ASSUME NEW e \in Entries, TakeEntry(e) PROVE CountInv'
  <2>1. pc = "next" /\ entryCount' = entryCount + 1 /\ Refusal(e) = "none"
    BY <1>5 DEF TakeEntry
  <2>2. entryCount' <= MaxEntries /\ entryCount \in Nat
    <3>1. ASSUME entryCount + 1 > MaxEntries PROVE FALSE
      <4>1. Refusal(e) = "limit"
        BY <3>1 DEF Refusal
      <4> QED
        BY <2>1, <4>1
    <3>2. entryCount \in Nat /\ MaxEntries \in Nat
      BY LimitsAssumption DEF TypeInv, TypeOK
    <3> QED
      BY <2>1, <3>1, <3>2
  <2>3. Cardinality(DOMAIN entries) \in Nat /\ Cardinality(DOMAIN entries) <= entryCount
    BY <2>1, <2>2, FS_CardinalityType DEF CountInv, InHand
  <2>4. CASE entries' = entries
    <3>1. InHand' \in {0, 1}
      BY DEF InHand
    <3> QED
      BY <2>1, <2>2, <2>3, <2>4, <3>1 DEF CountInv
  <2>5. CASE e.kind = "char"
    <3>1. DOMAIN entries' = DOMAIN entries \cup {Clean(e.name)} /\ pc' = "next"
      BY <1>5, <2>1, <2>5 DEF TakeEntry, Put
    <3>2. /\ IsFiniteSet(DOMAIN entries')
          /\ Cardinality(DOMAIN entries') \in {Cardinality(DOMAIN entries), Cardinality(DOMAIN entries) + 1}
      BY <3>1, FS_AddElement DEF CountInv
    <3>3. InHand' = 0
      BY <3>1 DEF InHand
    <3> QED
      BY <2>1, <2>2, <2>3, <3>2, <3>3 DEF CountInv
  <2> QED
    BY <1>5, <2>4, <2>5 DEF TakeEntry
<1>6. CASE MakeParent
  BY <1>2, <1>3, <1>6 DEF MakeParent, records, InHand
<1>7. CASE MakeDirectory
  BY <1>3, <1>7, CountAccepted DEF MakeDirectory, Writing
<1>8. CASE CreateFile
  BY <1>2, <1>3, <1>8 DEF CreateFile, Writing, records, InHand
<1>9. CASE Copy
  BY <1>2, <1>9 DEF Copy, records, InHand
<1>10. CASE FinishFile
  BY <1>3, <1>10, CountAccepted DEF FinishFile
<1>11. ASSUME NEW r, NEW v, PlaceLink(r, v), pc = "write" PROVE CountInv'
  BY <1>3, <1>11, CountAccepted DEF PlaceLink
<1>12. CASE MakeSymlink
  BY <1>11, <1>12 DEF MakeSymlink, Writing
<1>13. CASE MakeHardlink
  BY <1>11, <1>13 DEF MakeHardlink, Writing
<1>14. CASE IOError
  BY <1>3, <1>14 DEF IOError
<1>15. CASE EndOfArchive
  BY <1>2, <1>15 DEF EndOfArchive, InHand
<1>16. ASSUME NEW p \in pending, ApplyMode(p) PROVE CountInv'
  BY <1>2, <1>3, <1>16 DEF ApplyMode, InHand
<1>17. CASE Return
  BY <1>2, <1>17 DEF Return, records, InHand
<1>18. CASE UNCHANGED vars
  BY <1>18 DEF vars, CountInv, InHand
<1> QED
  BY <1>4, <1>5, <1>6, <1>7, <1>8, <1>9, <1>10, <1>12, <1>13, <1>14, <1>15, <1>16, <1>17, <1>18
     DEF Next, Ended

\* What is allowed to be read of a file.
LEMMA ReadLimitFacts ==
  ASSUME TypeInv, LimitsInv
  PROVE  /\ ReadLimit \in Nat /\ ReadLimit <= MaxFileBytes
         /\ extractedBytes + ReadLimit <= MaxTotalBytes
         /\ \A n \in Nat : Min({n, ReadLimit + 1}) \in Nat /\ Min({n, ReadLimit + 1}) <= ReadLimit + 1
<1>1. /\ MaxTotalBytes \in Nat /\ MaxFileBytes \in Nat /\ extractedBytes \in Nat
      /\ extractedBytes <= MaxTotalBytes
  BY LimitsAssumption DEF TypeInv, TypeOK, LimitsInv
<1> DEFINE left == MaxTotalBytes - extractedBytes
<1>2. left \in Nat /\ extractedBytes + left = MaxTotalBytes
  BY <1>1
<1>3. ReadLimit = Min({MaxFileBytes, left})
  BY DEF ReadLimit
<1> HIDE DEF left
<1>4. ReadLimit \in Nat /\ ReadLimit <= MaxFileBytes /\ ReadLimit <= left
  BY <1>1, <1>2, <1>3, SmallerOfTwo
<1>5. ReadLimit + 1 \in Nat
  BY <1>4
<1> QED
  BY <1>1, <1>2, <1>4, <1>5, SmallerOfTwo

\* A step that leaves the files alone, and one that abandons without a file begun.
LEMMA QuietLimits ==
  ASSUME LimitsInv, SameFiles(tree, tree'), pc # "copy", pc' # "copy", copied' = copied,
         UNCHANGED <<extractedBytes, largestFileBytes>>
  PROVE  LimitsInv'
<1>1. BytesOf(tree') = BytesOf(tree)
  BY SameBytes
<1>2. FilesOf(tree)' = FilesOf(tree') /\ BytesOf(tree)' = BytesOf(tree')
  BY DEF FilesOf, BytesOf
<1>3. FilesOf(tree') = FilesOf(tree) /\ \A p \in FilesOf(tree) : tree'[p].size = tree[p].size
  BY DEF SameFiles
<1>4. \A p : ~Begun(p) /\ ~Begun(p)'
  BY DEF Begun
<1> QED
  BY <1>1, <1>2, <1>3, <1>4 DEF LimitsInv

\* An error before a file is begun leaves the files as they are.
LEMMA AbandonLimits ==
  ASSUME LimitsInv, NEW r, Abandoned(r), UNCHANGED tree, pc # "copy"
  PROVE  LimitsInv'
<1>1. copied' = copied /\ pc' = "failed" /\ UNCHANGED <<extractedBytes, largestFileBytes>>
  BY DEF Abandoned, stats, LimitsInv
<1>2. SameFiles(tree, tree')
  BY DEF SameFiles
<1> QED
  BY <1>1, <1>2, QuietLimits

\* The file begun is a file, with as many bytes as were copied; the others are
\* within the limits.
LEMMA FileBegun ==
  ASSUME TypeInv, TreeInv, LimitsInv, pc = "copy"
  PROVE  /\ Name \in FilesOf(tree) /\ tree[Name].size = copied /\ copied \in Nat
         /\ IsFiniteSet(FilesOf(tree)) /\ \A p \in FilesOf(tree) : tree[p].size \in Nat
         /\ Rest(tree, Name) = extractedBytes /\ extractedBytes \in Nat
         /\ \A p \in FilesOf(tree) : p # Name => tree[p].size <= largestFileBytes
         /\ largestFileBytes = 0
            \/ \E p \in FilesOf(tree) : p # Name /\ tree[p].size = largestFileBytes
<1>1. Name \in FilesOf(tree) /\ tree[Name].size = copied
  BY AtHand DEF FilesOf
<1>2. /\ copied \in Nat /\ extractedBytes \in Nat
      /\ IsFiniteSet(FilesOf(tree)) /\ \A p \in FilesOf(tree) : tree[p].size \in Nat
  BY DEF TypeInv, TypeOK, LimitsInv, FilesOf
<1>3. BytesOf(tree) = copied + Rest(tree, Name) /\ Rest(tree, Name) \in Nat
  BY <1>1, <1>2, BytesApart
<1>4. Rest(tree, Name) = extractedBytes
  BY <1>2, <1>3 DEF LimitsInv
<1>5. \A p : Begun(p) <=> p = Name
  BY DEF Begun
<1>6. /\ \A p \in FilesOf(tree) : p # Name => tree[p].size <= largestFileBytes
      /\ largestFileBytes = 0
         \/ \E p \in FilesOf(tree) : p # Name /\ tree[p].size = largestFileBytes
  BY <1>5 DEF LimitsInv
<1> QED
  BY <1>1, <1>2, <1>4, <1>6

\* Its removal leaves the bytes of the statistics.
LEMMA RemoveLimits ==
  ASSUME TypeInv, TreeInv, LimitsInv, pc = "copy", NEW r, Abandoned(r),
         tree' = [p \in DOMAIN tree \ {Name} |-> tree[p]]
  PROVE  LimitsInv'
<1>1. /\ copied' = 0 /\ pc' = "failed" /\ extractedBytes' = extractedBytes
      /\ largestFileBytes' = largestFileBytes
  BY DEF Abandoned, stats
<1>2. /\ FilesOf(tree') = FilesOf(tree) \ {Name}
      /\ \A p \in FilesOf(tree) : p # Name => tree'[p].size = tree[p].size
  BY DEF FilesOf
<1>3. IsFiniteSet(FilesOf(tree'))
  BY <1>2, FileBegun, FS_RemoveElement
<1>4. \A p \in FilesOf(tree') : tree'[p].size \in Nat
  BY <1>2, FileBegun
<1>5. BytesOf(tree') = Rest(tree', Name)
  BY <1>2, <1>3, <1>4, BytesApart
<1>6. FilesOf(tree') \ {Name} = FilesOf(tree) \ {Name}
  BY <1>2
<1>7. Rest(tree', Name) = Rest(tree, Name)
  BY <1>2, <1>6, FileBegun, SameRest
<1>8. BytesOf(tree') = extractedBytes
  BY <1>5, <1>7, FileBegun
<1>9. FilesOf(tree)' = FilesOf(tree') /\ BytesOf(tree)' = BytesOf(tree')
  BY DEF FilesOf, BytesOf
<1>10. \A p : ~Begun(p)'
  BY <1>1 DEF Begun
<1>11. /\ \A p \in FilesOf(tree') : tree'[p].size <= largestFileBytes'
       /\ largestFileBytes' = 0 \/ \E p \in FilesOf(tree') : tree'[p].size = largestFileBytes'
  BY <1>1, <1>2, FileBegun
<1>12. extractedBytes' + copied' = extractedBytes
  BY <1>1, FileBegun
<1> QED
  BY <1>1, <1>3, <1>8, <1>9, <1>10, <1>11, <1>12 DEF LimitsInv

\* What may stay on disk of a failed extraction.
LeftInv ==
  /\ IsFiniteSet(FilesOf(tree))
  /\ BytesOf(tree) <= MaxTotalBytes + 1
  /\ \A p \in FilesOf(tree) : tree[p].size <= MaxFileBytes + 1

DiskInv == IF pc = "failed" THEN LeftInv ELSE LimitsInv

\* What was counted is within what may stay.
LEMMA Within == TypeInv /\ LimitsInv /\ pc = "failed" => LeftInv
<1> SUFFICES ASSUME TypeInv, LimitsInv, pc = "failed" PROVE LeftInv
  OBVIOUS
<1>1. /\ MaxTotalBytes \in Nat /\ MaxFileBytes \in Nat
      /\ extractedBytes \in Nat /\ largestFileBytes \in Nat
  BY LimitsAssumption DEF TypeInv, TypeOK
<1>2. \A p \in FilesOf(tree) : tree[p].size \in Nat /\ tree[p].size <= largestFileBytes
  BY DEF TypeInv, TypeOK, FilesOf, LimitsInv, Begun
<1>3. BytesOf(tree) = extractedBytes + 0 /\ extractedBytes <= MaxTotalBytes
  BY DEF LimitsInv
<1> QED
  BY <1>1, <1>2, <1>3 DEF LeftInv, LimitsInv

\* After a step that keeps the counts the invariant holds, whatever the step was.
LEMMA CountedStep == TypeInv' /\ LimitsInv' => DiskInv'
<1>1. (TypeInv /\ LimitsInv /\ pc = "failed" => LeftInv)'
  BY Within, PTL
<1> QED
  BY <1>1 DEF DiskInv

\* Whether it is removed or stays.
LEMMA AbandonedFile ==
  ASSUME TypeInv, TypeInv', TreeInv, LimitsInv, pc = "copy", RemoveFile, NEW r, Abandoned(r)
  PROVE  DiskInv'
<1>1. pc' = "failed"
  BY DEF Abandoned
<1>2. CASE tree' = tree
  <2>1. FilesOf(tree)' = FilesOf(tree) /\ BytesOf(tree)' = BytesOf(tree)
    BY <1>2 DEF FilesOf, BytesOf
  <2>2. BytesOf(tree) <= MaxTotalBytes + 1 /\ IsFiniteSet(FilesOf(tree))
    BY DEF LimitsInv
  <2>3. ASSUME NEW p \in FilesOf(tree) PROVE tree[p].size <= MaxFileBytes + 1
    <3>1. CASE p = Name
      BY <3>1, FileBegun DEF LimitsInv
    <3>2. CASE p # Name
      <4>1. tree[p].size <= largestFileBytes /\ tree[p].size \in Nat
        BY <3>2, FileBegun
      <4>2. largestFileBytes \in Nat /\ MaxFileBytes \in Nat /\ largestFileBytes <= MaxFileBytes
        BY LimitsAssumption DEF TypeInv, TypeOK, LimitsInv
      <4> QED
        BY <4>1, <4>2
    <3> QED
      BY <3>1, <3>2
  <2> QED
    BY <1>1, <1>2, <2>1, <2>2, <2>3 DEF DiskInv, LeftInv
<1>3. CASE tree' = [p \in DOMAIN tree \ {Name} |-> tree[p]]
  <2>1. LimitsInv'
    BY <1>3, RemoveLimits
  <2> QED
    BY <2>1, CountedStep
<1> QED
  BY <1>2, <1>3 DEF RemoveFile

\* A file is begun with nothing in it.
LEMMA CreateLimits ==
  ASSUME TypeInv, TypeInv', TreeInv, LimitsInv, CreateFile
  PROVE  LimitsInv'
<1>1. pc = "write" /\ pc # "copy"
  BY DEF CreateFile, Writing
<1>2. CASE UNCHANGED tree /\ \E r : Abandoned(r)
  BY <1>1, <1>2, AbandonLimits
<1>3. CASE pc' = "copy" /\ UNCHANGED <<why, cur, copied, records, stats, entryCount>>
  <2>1. /\ copied' = 0 /\ copied = 0 /\ extractedBytes' = extractedBytes
        /\ largestFileBytes' = largestFileBytes /\ Name' = Name
    BY <1>1, <1>3 DEF stats, LimitsInv, Name
  <2>2. /\ Name \notin FilesOf(tree) /\ FilesOf(tree') = FilesOf(tree) \cup {Name}
        /\ tree'[Name].size = 0 /\ \A p \in FilesOf(tree) : tree'[p].size = tree[p].size
    BY <1>3, CreateStep
  <2>3. /\ IsFiniteSet(FilesOf(tree)) /\ extractedBytes \in Nat
        /\ \A p \in FilesOf(tree) : tree[p].size \in Nat
    BY DEF LimitsInv, TypeInv, TypeOK, FilesOf
  <2>4. IsFiniteSet(FilesOf(tree'))
    BY <2>2, <2>3, FS_AddElement
  <2>5. \A p \in FilesOf(tree') : tree'[p].size \in Nat
    BY <2>2, <2>3
  <2>6. BytesOf(tree') = tree'[Name].size + Rest(tree', Name) /\ Rest(tree', Name) \in Nat
    BY <2>2, <2>4, <2>5, BytesApart
  <2>7. BytesOf(tree) = Rest(tree, Name)
    BY <2>2, <2>3, BytesApart
  <2>8. FilesOf(tree') \ {Name} = FilesOf(tree) \ {Name}
    BY <2>2
  <2>9. Rest(tree', Name) = Rest(tree, Name)
    BY <2>2, <2>3, <2>8, SameRest
  <2>10. BytesOf(tree') = BytesOf(tree)
    BY <2>2, <2>6, <2>7, <2>9
  <2>11. FilesOf(tree)' = FilesOf(tree') /\ BytesOf(tree)' = BytesOf(tree')
    BY DEF FilesOf, BytesOf
  <2>12. \A p : ~Begun(p) /\ (Begun(p)' <=> p = Name)
    BY <1>1, <1>3, <2>1 DEF Begun
  <2>13. /\ \A p \in FilesOf(tree') : p # Name => tree'[p].size <= largestFileBytes
         /\ largestFileBytes = 0
            \/ \E p \in FilesOf(tree') : p # Name /\ tree'[p].size = largestFileBytes
    BY <2>2, <2>12 DEF LimitsInv
  <2>14. 0 <= MaxFileBytes + 1 /\ extractedBytes <= MaxTotalBytes + 1
    BY <2>3, LimitsAssumption DEF LimitsInv
  <2>15. BytesOf(tree) = extractedBytes /\ extractedBytes + 0 = extractedBytes
    BY <2>1, <2>3 DEF LimitsInv
  <2> QED
    BY <1>3, <2>1, <2>4, <2>10, <2>11, <2>12, <2>13, <2>14, <2>15 DEF LimitsInv
<1> QED
  BY <1>2, <1>3 DEF CreateFile

\* What is copied stays below one byte more than is allowed.
LEMMA CopyLimits ==
  ASSUME TypeInv, TreeInv, LimitsInv, Copy
  PROVE  LimitsInv'
<1>1. /\ pc = "copy" /\ pc' = "copy" /\ copied' = copied + 1
      /\ extractedBytes' = extractedBytes /\ largestFileBytes' = largestFileBytes /\ Name' = Name
      /\ copied < Min({cur.data, ReadLimit + 1})
  BY DEF Copy, stats, Name
<1>2. /\ Name \in FilesOf(tree) /\ FilesOf(tree') = FilesOf(tree)
      /\ tree'[Name].size = copied + 1
      /\ \A p \in FilesOf(tree) : p # Name => tree'[p].size = tree[p].size
  BY CopyStep
<1>3. /\ copied \in Nat /\ extractedBytes \in Nat /\ Rest(tree, Name) = extractedBytes
      /\ IsFiniteSet(FilesOf(tree)) /\ \A p \in FilesOf(tree) : tree[p].size \in Nat
      /\ \A p \in FilesOf(tree) : p # Name => tree[p].size <= largestFileBytes
      /\ largestFileBytes = 0
         \/ \E p \in FilesOf(tree) : p # Name /\ tree[p].size = largestFileBytes
  BY <1>1, FileBegun
<1>4. \A p \in FilesOf(tree') : tree'[p].size \in Nat
  BY <1>2, <1>3
<1>5. BytesOf(tree') = tree'[Name].size + Rest(tree', Name)
  BY <1>2, <1>3, <1>4, BytesApart
<1>6. Rest(tree', Name) = Rest(tree, Name)
  BY <1>2, <1>3, SameRest
<1>7. BytesOf(tree') = extractedBytes' + copied'
  BY <1>1, <1>2, <1>3, <1>5, <1>6
<1>8. copied' <= MaxFileBytes + 1 /\ extractedBytes' + copied' <= MaxTotalBytes + 1
  <2>1. cur.data \in Nat
    BY <1>1, CurTypes, EntryFacts
  <2>2. /\ Min({cur.data, ReadLimit + 1}) \in Nat
        /\ Min({cur.data, ReadLimit + 1}) <= ReadLimit + 1
        /\ ReadLimit \in Nat /\ ReadLimit <= MaxFileBytes
        /\ extractedBytes + ReadLimit <= MaxTotalBytes
    BY <2>1, ReadLimitFacts
  <2>3. MaxFileBytes \in Nat /\ MaxTotalBytes \in Nat
    BY LimitsAssumption
  <2> QED
    BY <1>1, <1>3, <2>2, <2>3
<1>9. FilesOf(tree)' = FilesOf(tree') /\ BytesOf(tree)' = BytesOf(tree')
  BY DEF FilesOf, BytesOf
<1>10. \A p : Begun(p)' <=> p = Name
  BY <1>1 DEF Begun
<1>11. /\ \A p \in FilesOf(tree') : p # Name => tree'[p].size <= largestFileBytes
       /\ largestFileBytes = 0
          \/ \E p \in FilesOf(tree') : p # Name /\ tree'[p].size = largestFileBytes
  BY <1>2, <1>3
<1> QED
  BY <1>1, <1>2, <1>3, <1>7, <1>8, <1>9, <1>10, <1>11 DEF LimitsInv

\* A complete file counts in the statistics.
LEMMA FinishLimits ==
  ASSUME TypeInv, TypeInv', TreeInv, LimitsInv, FinishFile
  PROVE  LimitsInv' \/ DiskInv'
<1>1. pc = "copy"
  BY DEF FinishFile
<1>2. CASE RemoveFile /\ \E r : Abandoned(r)
  BY <1>1, <1>2, AbandonedFile
<1>3. CASE /\ copied <= ReadLimit /\ copied = cur.size
           /\ Accepted
           /\ extractedBytes' = extractedBytes + copied
           /\ largestFileBytes' = Max({largestFileBytes, cur.size})
           /\ UNCHANGED <<tree, directoryModes>>
  <2>1. /\ Name \in FilesOf(tree) /\ tree[Name].size = copied /\ copied \in Nat
        /\ \A p \in FilesOf(tree) : tree[p].size \in Nat
        /\ extractedBytes \in Nat
        /\ \A p \in FilesOf(tree) : p # Name => tree[p].size <= largestFileBytes
        /\ largestFileBytes = 0
           \/ \E p \in FilesOf(tree) : p # Name /\ tree[p].size = largestFileBytes
    BY <1>1, FileBegun
  <2>2. /\ largestFileBytes \in Nat /\ MaxFileBytes \in Nat /\ MaxTotalBytes \in Nat
        /\ largestFileBytes <= MaxFileBytes /\ largestFileBytes <= extractedBytes
    BY LimitsAssumption DEF TypeInv, TypeOK, LimitsInv
  <2>3. /\ largestFileBytes' \in {largestFileBytes, copied} /\ largestFileBytes' \in Nat
        /\ largestFileBytes' >= largestFileBytes /\ largestFileBytes' >= copied
    BY <1>3, <2>1, <2>2, LargerOfTwo
  <2>4. /\ ReadLimit \in Nat /\ ReadLimit <= MaxFileBytes
        /\ extractedBytes + ReadLimit <= MaxTotalBytes
    BY ReadLimitFacts
  <2>5. copied' = 0 /\ pc' = "next" /\ tree' = tree
    BY <1>3 DEF Accepted
  <2>6. /\ extractedBytes' <= MaxTotalBytes /\ largestFileBytes' <= MaxFileBytes
        /\ largestFileBytes' <= extractedBytes'
    BY <1>3, <2>1, <2>2, <2>3, <2>4
  <2>7. \A p \in FilesOf(tree) : tree[p].size <= largestFileBytes'
    BY <2>1, <2>2, <2>3
  <2>8. largestFileBytes' = 0 \/ \E p \in FilesOf(tree) : tree[p].size = largestFileBytes'
    BY <2>1, <2>3
  <2>9. BytesOf(tree) = extractedBytes' + copied'
    BY <1>3, <2>1, <2>5 DEF LimitsInv
  <2>10. FilesOf(tree)' = FilesOf(tree) /\ BytesOf(tree)' = BytesOf(tree)
    BY <2>5 DEF FilesOf, BytesOf
  <2>11. \A p : ~Begun(p)'
    BY <2>5 DEF Begun
  <2> QED
    BY <2>5, <2>6, <2>7, <2>8, <2>9, <2>10, <2>11 DEF LimitsInv
<1> QED
  BY <1>2, <1>3 DEF FinishFile

\* Every step keeps the bytes on disk those that were counted, but for a file that
\* was begun and stays when the extraction fails.
LEMMA LimitsStep ==
  TypeInv /\ TypeInv' /\ ExtractInv /\ LimitsInv /\ [Next]_vars => LimitsInv' \/ DiskInv'
<1> SUFFICES ASSUME TypeInv, TypeInv', ExtractInv, LimitsInv, [Next]_vars
             PROVE  LimitsInv' \/ DiskInv'
  OBVIOUS
<1>1. pc # "failed" => TreeInv
  BY DEF ExtractInv
<1>2. ASSUME UNCHANGED <<tree, copied, extractedBytes, largestFileBytes>>,
             pc # "copy", pc' # "copy"
      PROVE  LimitsInv'
  <2>1. SameFiles(tree, tree')
    BY <1>2 DEF SameFiles
  <2> QED
    BY <1>2, <2>1, QuietLimits
<1>3. ASSUME NEW e \in Entries, RefuseEntry(e) PROVE LimitsInv'
  BY <1>2, <1>3 DEF RefuseEntry, stats
<1>4. ASSUME NEW e \in Entries, TakeEntry(e) PROVE LimitsInv'
  BY <1>2, <1>4 DEF TakeEntry, stats
<1>5. CASE MakeParent
  <2>1. pc = "write"
    BY <1>5 DEF MakeParent
  <2>2. pc' = "write" /\ SameFiles(tree, tree')
    BY <1>1, <1>5, <2>1, ParentStep
  <2>3. UNCHANGED <<copied, extractedBytes, largestFileBytes>>
    BY <1>5, <2>2 DEF MakeParent, stats, Abandoned
  <2> QED
    BY <2>1, <2>2, <2>3, QuietLimits
<1>6. CASE MakeDirectory
  <2>1. pc = "write"
    BY <1>6 DEF MakeDirectory, Writing
  <2>2. pc' = "next" /\ SameFiles(tree, tree')
    BY <1>1, <1>6, <2>1, DirectoryStep
  <2>3. copied' = copied /\ UNCHANGED <<extractedBytes, largestFileBytes>>
    BY <1>6, <2>1 DEF MakeDirectory, stats, Abandoned, Accepted, LimitsInv
  <2> QED
    BY <2>1, <2>2, <2>3, QuietLimits
<1>7. CASE CreateFile
  <2>1. pc = "write"
    BY <1>7 DEF CreateFile, Writing
  <2> QED
    BY <1>1, <1>7, <2>1, CreateLimits
<1>8. CASE Copy
  <2>1. pc = "copy"
    BY <1>8 DEF Copy
  <2> QED
    BY <1>1, <1>8, <2>1, CopyLimits
<1>9. CASE FinishFile
  <2>1. pc = "copy"
    BY <1>9 DEF FinishFile
  <2> QED
    BY <1>1, <1>9, <2>1, FinishLimits
<1>10. CASE MakeSymlink \/ MakeHardlink
  <2>1. pc = "write"
    BY <1>10 DEF MakeSymlink, MakeHardlink, Writing
  <2>2. PICK r, v : PlaceLink(r, v)
    BY <1>10 DEF MakeSymlink, MakeHardlink
  <2>3. CASE Abandoned(r) /\ UNCHANGED tree
    BY <2>1, <2>3, AbandonLimits
  <2>4. CASE Accepted /\ UNCHANGED <<directoryModes, stats>>
    <3>1. pc' = "next" /\ copied' = copied /\ UNCHANGED <<extractedBytes, largestFileBytes>>
      BY <2>1, <2>4 DEF Accepted, stats, LimitsInv
    <3>2. SameFiles(tree, tree')
      BY <1>1, <1>10, <2>1, <3>1, SymlinkStep, HardlinkStep
    <3> QED
      BY <2>1, <3>1, <3>2, QuietLimits
  <2> QED
    BY <2>2, <2>3, <2>4 DEF PlaceLink
<1>11. CASE IOError
  <2>1. PICK r : Abandoned(r)
    BY <1>11 DEF IOError
  <2>2. CASE pc = "copy"
    BY <1>1, <1>11, <2>1, <2>2, AbandonedFile DEF IOError
  <2>3. CASE pc # "copy"
    BY <1>11, <2>1, <2>3, AbandonLimits DEF IOError
  <2> QED
    BY <2>2, <2>3
<1>12. CASE EndOfArchive
  BY <1>2, <1>12 DEF EndOfArchive, stats
<1>13. ASSUME NEW p \in pending, ApplyMode(p) PROVE LimitsInv'
  <2>1. pc = "chmod"
    BY <1>13 DEF ApplyMode
  <2>2. pc' = "chmod" /\ SameFiles(tree, tree')
    BY <1>1, <1>13, <2>1, ModeStep
  <2>3. UNCHANGED <<copied, extractedBytes, largestFileBytes>>
    BY <1>13, <2>2 DEF ApplyMode, stats, Abandoned
  <2> QED
    BY <2>1, <2>2, <2>3, QuietLimits
<1>14. CASE Return
  BY <1>2, <1>14 DEF Return, stats
<1>15. CASE UNCHANGED vars
  BY <1>15 DEF vars, LimitsInv, FilesOf, BytesOf, Begun, Name
<1> QED
  BY <1>3, <1>4, <1>5, <1>6, <1>7, <1>8, <1>9, <1>10, <1>11, <1>12, <1>13, <1>14, <1>15
     DEF Next, Ended

\* Every step keeps what is on disk within the limits.
LEMMA DiskStep ==
  TypeInv /\ TypeInv' /\ ExtractInv /\ DiskInv /\ [Next]_vars => DiskInv'
<1> SUFFICES ASSUME TypeInv, TypeInv', ExtractInv, DiskInv, [Next]_vars PROVE DiskInv'
  OBVIOUS
<1>1. CASE pc # "failed"
  <2>1. LimitsInv
    BY <1>1 DEF DiskInv
  <2> QED
    BY <2>1, LimitsStep, CountedStep
<1>2. CASE pc = "failed"
  <2>1. UNCHANGED vars
    BY <1>2 DEF Next, Ended, RefuseEntry, TakeEntry, MakeParent, MakeDirectory, CreateFile, Copy,
       FinishFile, MakeSymlink, MakeHardlink, IOError, EndOfArchive, ApplyMode, Return, Writing
  <2> QED
    BY <1>2, <2>1 DEF vars, DiskInv, LeftInv, FilesOf, BytesOf
<1> QED
  BY <1>1, <1>2

\* Nothing is counted, and nothing is there.
LEMMA InitLimits == Init => CountInv /\ DiskInv
<1> SUFFICES ASSUME Init PROVE CountInv /\ DiskInv
  OBVIOUS
<1>1. /\ DOMAIN entries = {} /\ FilesOf(tree) = {} /\ pc = "next"
      /\ extractedBytes = 0 /\ largestFileBytes = 0 /\ entryCount = 0 /\ copied = 0
  BY DEF Init, Empty, FilesOf
<1>2. IsFiniteSet({}) /\ Cardinality({}) = 0
  BY FS_EmptySet
<1>3. BytesOf(tree) = 0
  <2> DEFINE f == [p \in FilesOf(tree) |-> tree[p].size]
  <2>1. \A x \in FilesOf(tree) : f[x] \in Nat
    BY <1>1
  <2>2. BytesOf(tree) = Sum(f, FilesOf(tree))
    BY DEF BytesOf
  <2> HIDE DEF f
  <2> QED
    BY <1>1, <1>2, <2>1, <2>2, SumFacts
<1>4. CountInv
  BY <1>1, <1>2, LimitsAssumption DEF CountInv, InHand
<1>5. LimitsInv
  BY <1>1, <1>2, <1>3, LimitsAssumption DEF LimitsInv, Begun
<1> QED
  BY <1>1, <1>4, <1>5 DEF DiskInv

\* The limits hold in every extraction.
LEMMA Counting == Spec => [](TypeInv /\ CountInv /\ DiskInv)
<1>1. Init => CountInv /\ DiskInv
  BY InitLimits
<1>2. /\ TypeInv /\ TypeInv' /\ ExtractInv /\ CountInv /\ DiskInv /\ [Next]_vars
      => CountInv' /\ DiskInv'
  BY CountStep, DiskStep
<1> QED
  BY <1>1, <1>2, Extraction, PTL DEF Spec

\* The largest of the sizes is the one that is a size and not exceeded.
LEMMA LargestSize ==
  ASSUME NEW S \in SUBSET Nat, NEW m \in S, \A x \in S : x <= m
  PROVE  Max(S) = m
<1> DEFINE is(x) == x \in S /\ \A y \in S : x >= y
<1>1. is(m)
  OBVIOUS
<1>2. \A x : is(x) => x = m
  OBVIOUS
<1>3. Max(S) = CHOOSE x \in S : \A y \in S : x >= y
  BY DEF Max
<1>4. Max(S) \in S /\ \A y \in S : Max(S) >= y
  BY <1>1, <1>3
<1> QED
  BY <1>2, <1>4

\* At no moment of any extraction, whatever the archive declares and whatever
\* fails, is more on disk than the limits allow, but for the one byte by which
\* extractRegularFile notices that a file has more, also when it cannot remove
\* the file; and what is counted for the
\* manifest is what the tree holds.
THEOREM LimitsHoldOnDisk == Spec => []WithinLimits
<1>1. ASSUME TypeInv, CountInv, LimitsInv, ExtractInv, pc # "failed" PROVE WithinLimits
  <2>1. /\ extractedBytes \in Nat /\ copied \in Nat /\ largestFileBytes \in Nat
        /\ entryCount \in Nat
        /\ MaxTotalBytes \in Nat /\ MaxFileBytes \in Nat /\ MaxEntries \in Nat
    BY <1>1, LimitsAssumption DEF TypeInv, TypeOK
  <2>2. OwnFiles = FilesOf(tree) /\ BytesOnDisk = extractedBytes + copied
    BY <1>1, BytesNow DEF LimitsInv
  <2>3. \A p \in FilesOf(tree) : tree[p].size \in Nat
    BY <1>1 DEF TypeInv, TypeOK, FilesOf
  <2>4. DiskBounded
    <3>1. CASE pc = "copy"
      <4>1. tree[Name].size = copied
        BY <1>1, <3>1, FileBegun DEF ExtractInv
      <4>2. \A p \in FilesOf(tree) : tree[p].size <= MaxFileBytes + 1
        <5> SUFFICES ASSUME NEW p \in FilesOf(tree) PROVE tree[p].size <= MaxFileBytes + 1
          OBVIOUS
        <5>1. CASE p = Name
          BY <1>1, <3>1, <4>1, <5>1 DEF LimitsInv
        <5>2. CASE p # Name
          BY <1>1, <2>1, <2>3, <5>2 DEF LimitsInv, Begun
        <5> QED
          BY <5>1, <5>2
      <4> QED
        BY <1>1, <2>2, <3>1, <4>2 DEF DiskBounded, LimitsInv
    <3>2. CASE pc # "copy"
      <4>1. copied = 0 /\ extractedBytes <= MaxTotalBytes
        BY <1>1, <3>2 DEF LimitsInv
      <4>2. \A p \in FilesOf(tree) : tree[p].size <= MaxFileBytes
        BY <1>1, <2>1, <2>3, <3>2 DEF LimitsInv, Begun
      <4>3. BytesOnDisk <= MaxTotalBytes + 0
        BY <2>1, <2>2, <4>1
      <4>4. \A p \in OwnFiles : tree[p].size <= MaxFileBytes + 0
        BY <2>1, <2>2, <2>3, <4>2
      <4> QED
        BY <1>1, <3>2, <4>3, <4>4 DEF DiskBounded
    <3> QED
      BY <3>1, <3>2
  <2>5. StatisticsOfTree
    <3> SUFFICES ASSUME pc = "done" PROVE StatisticsOfTree
      BY DEF StatisticsOfTree
    <3>1. copied = 0 /\ \A p : ~Begun(p)
      BY <1>1 DEF LimitsInv, Begun
    <3> DEFINE sizes == {0} \cup {tree[p].size : p \in OwnFiles}
    <3>2. sizes \in SUBSET Nat
      BY <2>2, <2>3
    <3>3. largestFileBytes \in sizes
      BY <1>1, <2>2, <3>1 DEF LimitsInv
    <3>4. \A x \in sizes : x <= largestFileBytes
      BY <1>1, <2>1, <2>2, <3>1 DEF LimitsInv
    <3> HIDE DEF sizes
    <3>5. Max(sizes) = largestFileBytes
      BY <3>2, <3>3, <3>4, LargestSize
    <3>6. Cardinality(DOMAIN entries) <= entryCount /\ entryCount <= MaxEntries
      <4>1. Cardinality(DOMAIN entries) \in Nat /\ InHand = 0
        BY <1>1, FS_CardinalityType DEF CountInv, InHand
      <4> QED
        BY <1>1, <4>1 DEF CountInv
    <3>7. extractedBytes = BytesOnDisk
      BY <2>1, <2>2, <3>1
    <3> QED
      BY <1>1, <3>5, <3>6, <3>7 DEF StatisticsOfTree, LimitsInv, sizes
  <2> QED
    BY <2>4, <2>5 DEF WithinLimits
<1>2. ASSUME TypeInv, DiskInv, pc = "failed" PROVE WithinLimits
  <2>1. LeftInv
    BY <1>2 DEF DiskInv
  <2>2. OwnFiles = FilesOf(tree) /\ BytesOnDisk = BytesOf(tree)
    BY <1>2, <2>1, BytesNow DEF LeftInv
  <2> QED
    BY <1>2, <2>1, <2>2 DEF LeftInv, WithinLimits, DiskBounded, StatisticsOfTree
<1>3. TypeInv /\ CountInv /\ DiskInv /\ ExtractInv => WithinLimits
  BY <1>1, <1>2 DEF DiskInv
<1> QED
  BY <1>3, Extraction, Counting, PTL

-----------------------------------------------------------------------------
(* The accepted names.                                                     *)

\* What path.Clean does with one component after acc.
Component(acc, c) ==
  IF c \in {"", "."} THEN acc
  ELSE IF c = ".." /\ acc # <<>> /\ Last(acc) # ".." THEN Front(acc)
  ELSE Append(acc, c)

\* The recursion that Lexical is by the definition of FoldLeft.
IsLexical(g, path) ==
  g = [s \in SUBSET DOMAIN path |->
         IF s = {} THEN <<>> ELSE Component(g[s \ {Max(s)}], path[Max(s)])]

\* Lexical applies it from the first component to the last.
LEMMA LexicalIsFold ==
  ASSUME NEW path
  PROVE  Lexical(path) = (CHOOSE g : IsLexical(g, path))[DOMAIN path]
BY DEF Lexical, FoldLeft, MapThenFoldSet, IsLexical, Component

\* A set of positions that is not empty has a last one.
LEMMA LastPosition ==
  ASSUME NEW n \in Nat, NEW S \in SUBSET (1..n), S # {}
  PROVE  Max(S) \in S /\ \A y \in S : y <= Max(S)
<1> DEFINE bounds == {u \in Nat : \A y \in S : y <= u}
<1>1. bounds \in SUBSET Nat /\ n \in bounds
  OBVIOUS
<1> DEFINE m == Min(bounds)
<1>2. m \in bounds /\ \A u \in bounds : m <= u
  <2> HIDE DEF bounds
  <2> QED
    BY <1>1, LeastMember
<1>3. m \in Nat /\ \A y \in S : y <= m
  BY <1>2
<1> HIDE DEF m
<1>4. m \in S
  <2> SUFFICES ASSUME m \notin S PROVE FALSE
    OBVIOUS
  <2>1. PICK z \in S : z \in 1..n
    OBVIOUS
  <2>2. m - 1 \in Nat
    BY <1>3, <2>1
  <2>3. \A y \in S : y <= m - 1
    BY <1>3
  <2>4. m - 1 \in bounds
    BY <2>2, <2>3
  <2> HIDE DEF bounds
  <2> QED
    BY <1>2, <1>3, <2>4
<1>5. \E x \in S : \A y \in S : x >= y
  BY <1>3, <1>4
<1> QED
  BY <1>5 DEF Max

\* One component makes a path of a path.
LEMMA ComponentPath ==
  ASSUME NEW acc \in Seq(STRING), NEW c \in STRING
  PROVE  Component(acc, c) \in Seq(STRING)
<1>1. acc # <<>> => Front(acc) \in Seq(STRING)
  BY DEF Front
<1>2. Append(acc, c) \in Seq(STRING)
  BY AppendProperties
<1> QED
  BY <1>1, <1>2 DEF Component

\* Of a path path.Clean takes one component after the other.
LEMMA LexicalSteps ==
  ASSUME NEW path \in Paths
  PROVE  \E g : /\ Lexical(path) = g[1..Len(path)]
                /\ g[{}] = <<>>
                /\ \A k \in 1..Len(path) : g[1..k] = Component(g[1..(k - 1)], path[k])
<1> DEFINE S == DOMAIN path
           c == [s \in SUBSET S |-> Max(s)]
           step == [i \in S |-> [acc \in Seq(STRING) |-> Component(acc, path[i])]]
<1>1. path \in Seq(STRING) /\ Len(path) \in Nat /\ S = 1..Len(path)
  BY DEF Paths
<1>2. IsFiniteSet(S)
  BY <1>1, FS_Interval
<1>3. \A i \in S : path[i] \in STRING
  BY <1>1
<1>4. step \in [S -> [Seq(STRING) -> Seq(STRING)]]
  BY <1>3, ComponentPath
<1>5. \A s \in SUBSET S : s # {} => Max(s) \in s
  BY <1>1, LastPosition
<1>6. Chooses(c, S)
  BY <1>5 DEF Chooses
<1>7. \A s \in SUBSET S : c[s] = Max(s)
  OBVIOUS
<1>8. \A i \in S, acc \in Seq(STRING) : step[i][acc] = Component(acc, path[i])
  OBVIOUS
<1>9. <<>> \in Seq(STRING)
  BY EmptySeq
<1> HIDE DEF c, step, S
<1>10. PICK g \in [SUBSET S -> Seq(STRING)] : IsFold(g, S, c, step, <<>>)
  BY <1>2, <1>4, <1>6, <1>9, FoldExists
<1>11. ASSUME NEW s \in SUBSET S
       PROVE  g[s] = IF s = {} THEN <<>> ELSE Component(g[s \ {Max(s)}], path[Max(s)])
  <2>1. CASE s = {}
    BY <1>10, <2>1 DEF IsFold
  <2>2. CASE s # {}
    <3>1. g[s] = step[Max(s)][g[s \ {Max(s)}]]
      BY <1>7, <1>10, <2>2 DEF IsFold
    <3>2. g[s \ {Max(s)}] \in Seq(STRING) /\ Max(s) \in S
      BY <1>5, <1>10, <2>2
    <3> QED
      BY <1>8, <2>2, <3>1, <3>2
  <2> QED
    BY <2>1, <2>2
<1>12. IsLexical(g, path)
  BY <1>10, <1>11 DEF IsLexical, S
<1> DEFINE h == CHOOSE h : IsLexical(h, path)
<1>13. IsLexical(h, path)
  BY <1>12
<1>14. Lexical(path) = h[1..Len(path)]
  BY <1>1, LexicalIsFold DEF S
<1> HIDE DEF h
<1>15. \A s \in SUBSET S :
         h[s] = IF s = {} THEN <<>> ELSE Component(h[s \ {Max(s)}], path[Max(s)])
  BY <1>13 DEF IsLexical, S
<1>16. h[{}] = <<>>
  BY <1>15
<1>17. ASSUME NEW k \in 1..Len(path) PROVE h[1..k] = Component(h[1..(k - 1)], path[k])
  <2>1. 1..k \in SUBSET S /\ 1..k # {} /\ k \in Nat
    <3>1. k \in Nat /\ k >= 1 /\ k <= Len(path) /\ Len(path) \in Nat
      BY <1>1
    <3>2. k \in 1..k /\ \A i \in 1..k : i \in 1..Len(path)
      BY ONLY <3>1
    <3> QED
      BY <1>1, <3>1, <3>2
  <2>2. Max(1..k) = k
    <3>1. 1..k \in SUBSET (1..k)
      OBVIOUS
    <3>2. Max(1..k) \in 1..k /\ \A y \in 1..k : y <= Max(1..k)
      BY ONLY <2>1, <3>1, LastPosition
    <3> QED
      BY <2>1, <3>2
  <2>3. (1..k) \ {k} = 1..(k - 1)
    BY <2>1
  <2> QED
    BY <1>15, <2>1, <2>2, <2>3
<1> QED
  BY <1>14, <1>16, <1>17

\* What normalizeArchivePath takes off a raw name: the first and the last
\* component that stay.
LEMMA CleanParts ==
  ASSUME NEW raw \in Paths
  PROVE  \E first \in 1..Len(raw) : \E last \in first..Len(raw) :
           /\ Clean(raw) = SubSeq(raw, first, last)
           /\ \A i \in 1..(first - 1) : raw[i] = "."
           /\ last = Len(raw) \/ (last = Len(raw) - 1 /\ raw[Len(raw)] = "")
<1> DEFINE starts == {i \in 1..Len(raw) : raw[i] # "." \/ i = Len(raw)}
           start == Min(starts)
           rest == SubSeq(raw, start, Len(raw))
<1>1. Len(raw) \in Nat /\ Len(raw) >= 1 /\ raw \in Seq(STRING)
  BY DEF Paths
<1>2. starts \in SUBSET Nat /\ starts # {}
  BY <1>1
<1>3. start \in 1..Len(raw) /\ \A i \in 1..(start - 1) : raw[i] = "."
  <2>1. start \in starts /\ \A y \in starts : start <= y
    <3> HIDE DEF starts
    <3> QED
      BY <1>2, LeastMember
  <2>2. start \in Nat /\ start <= Len(raw)
    BY <1>1, <2>1
  <2>3. ASSUME NEW i \in 1..(start - 1) PROVE raw[i] = "."
    <3>1. i \in 1..Len(raw) /\ ~(start <= i)
      <4> HIDE DEF start
      <4> QED
        BY <1>1, <2>2
    <3>2. i \notin starts
      BY <2>1, <3>1
    <3> QED
      BY <3>1, <3>2
  <2> QED
    BY <2>1, <2>3
<1> HIDE DEF start, starts
<1>4. /\ rest \in Seq(STRING) /\ Len(rest) = Len(raw) - start + 1
      /\ \A i \in 1..(Len(raw) - start + 1) : rest[i] = raw[start + i - 1]
  <2>1. start \in Int /\ Len(raw) \in Int /\ start <= Len(raw)
        /\ \A i \in start..Len(raw) : raw[i] \in STRING
    BY <1>1, <1>3
  <2>2. rest \in Seq(STRING) /\ Len(rest) = Len(raw) - start + 1
    BY ONLY <2>1, SubSeqProperties
  <2> QED
    BY <1>1, <1>3, <2>2
<1>5. Clean(raw) = IF Len(rest) > 1 /\ Last(rest) = "" THEN Front(rest) ELSE rest
  BY DEF Clean, rest, start, starts
<1>6. CASE Len(rest) > 1 /\ Last(rest) = ""
  <2> DEFINE end == Len(raw) - 1
  <2>1. start < Len(raw) /\ end \in start..Len(raw)
    <3> HIDE DEF rest
    <3>1. start \in Nat /\ Len(rest) = Len(raw) - start + 1 /\ Len(rest) > 1
      <4>1. start \in Nat
        BY <1>1, <1>3
      <4>2. Len(rest) = Len(raw) - start + 1
        BY <1>4
      <4> QED
        BY <1>6, <4>1, <4>2
    <3> QED
      BY ONLY <1>1, <3>1
  <2>2. Clean(raw) = Front(rest)
    BY <1>5, <1>6
  <2>3. Front(rest) = SubSeq(raw, start, end)
    <3>1. Len(rest) - 1 = end - start + 1 /\ end - start + 1 \in Nat
      BY <1>1, <1>3, <1>4, <2>1
    <3>2. /\ Front(rest) \in Seq(STRING) /\ Len(Front(rest)) = Len(rest) - 1
          /\ \A i \in 1..(Len(rest) - 1) : Front(rest)[i] = rest[i]
      <4> HIDE DEF rest, end
      <4>1. rest \in Seq(STRING) /\ Len(rest) - 1 \in Nat
        BY <1>4, <3>1
      <4>2. Len(rest) - 1 \in Int /\ 1 \in Int /\ \A i \in 1..(Len(rest) - 1) : rest[i] \in STRING
        BY ONLY <4>1
      <4> DEFINE u == SubSeq(rest, 1, Len(rest) - 1)
      <4>3. /\ u \in Seq(STRING)
            /\ Len(u) = IF 1 <= Len(rest) - 1 THEN (Len(rest) - 1) - 1 + 1 ELSE 0
            /\ \A i \in 1..((Len(rest) - 1) - 1 + 1) : u[i] = rest[1 + i - 1]
        BY ONLY <4>2, SubSeqProperties
      <4>4. Front(rest) = u
        BY DEF Front
      <4> HIDE DEF u
      <4>5. Len(u) = Len(rest) - 1
        <5> DEFINE l == Len(rest)
                   m == Len(u)
        <5>1. l - 1 \in Nat /\ l \in Nat
          BY <4>1
        <5>2. m = IF 1 <= l - 1 THEN (l - 1) - 1 + 1 ELSE 0
          BY <4>3
        <5> HIDE DEF l, m
        <5>3. m = l - 1
          BY ONLY <5>1, <5>2
        <5> QED
          BY <5>3 DEF l, m
      <4>6. \A i \in 1..(Len(rest) - 1) : u[i] = rest[i]
        <5> SUFFICES ASSUME NEW i \in 1..(Len(rest) - 1) PROVE u[i] = rest[i]
          OBVIOUS
        <5>1. i \in 1..((Len(rest) - 1) - 1 + 1) /\ 1 + i - 1 = i
          BY <4>1
        <5> QED
          BY <4>3, <5>1
      <4> QED
        BY <4>3, <4>4, <4>5, <4>6
    <3>3. /\ SubSeq(raw, start, end) \in Seq(STRING) /\ Len(SubSeq(raw, start, end)) = end - start + 1
          /\ \A i \in 1..(end - start + 1) : SubSeq(raw, start, end)[i] = raw[start + i - 1]
      BY <1>1, <1>3, <2>1
    <3>4. \A i \in 1..(end - start + 1) : rest[i] = raw[start + i - 1]
      BY <1>1, <1>3, <1>4, <2>1
    <3>5. \A i \in 1..(end - start + 1) : Front(rest)[i] = SubSeq(raw, start, end)[i]
      BY <3>1, <3>2, <3>3, <3>4
    <3> HIDE DEF rest, end
    <3> QED
      BY ONLY <3>1, <3>2, <3>3, <3>5, SeqEqual
  <2>4. raw[Len(raw)] = ""
    <3>1. Last(rest) = rest[Len(raw) - start + 1]
      BY <1>4 DEF Last
    <3>2. Len(raw) - start + 1 \in 1..(Len(raw) - start + 1)
      BY <1>1, <1>3
    <3>3. rest[Len(raw) - start + 1] = raw[start + (Len(raw) - start + 1) - 1]
      BY <1>4, <3>2
    <3>4. start + (Len(raw) - start + 1) - 1 = Len(raw)
      BY <1>1, <1>3
    <3> QED
      BY <1>6, <3>1, <3>3, <3>4
  <2> HIDE DEF rest
  <2> QED
    BY <1>3, <2>1, <2>2, <2>3, <2>4
<1>7. CASE ~(Len(rest) > 1 /\ Last(rest) = "")
  <2>1. Clean(raw) = SubSeq(raw, start, Len(raw))
    BY <1>5, <1>7
  <2>2. Len(raw) \in start..Len(raw)
    BY <1>1, <1>3
  <2> QED
    BY <1>3, <2>1, <2>2
<1> QED
  BY <1>6, <1>7

\* normalizeArchivePath and path.Clean make the same of a valid name, and it is
\* one below the destination.
LEMMA ValidNames ==
  ASSUME NEW raw \in Paths, ValidName(raw)
  PROVE  Lexical(raw) = Clean(raw) /\ ".." \notin ToSet(Clean(raw)) /\ Clean(raw) # <<>>
<1>1. PICK first \in 1..Len(raw) : \E last \in first..Len(raw) :
        /\ Clean(raw) = SubSeq(raw, first, last)
        /\ \A i \in 1..(first - 1) : raw[i] = "."
        /\ last = Len(raw) \/ (last = Len(raw) - 1 /\ raw[Len(raw)] = "")
  BY CleanParts
<1>2. PICK last \in first..Len(raw) :
        /\ Clean(raw) = SubSeq(raw, first, last)
        /\ \A i \in 1..(first - 1) : raw[i] = "."
        /\ last = Len(raw) \/ (last = Len(raw) - 1 /\ raw[Len(raw)] = "")
  BY <1>1
<1>3. PICK g : /\ Lexical(raw) = g[1..Len(raw)]
               /\ g[{}] = <<>>
               /\ \A k \in 1..Len(raw) : g[1..k] = Component(g[1..(k - 1)], raw[k])
  BY LexicalSteps
<1>4. /\ raw \in Seq(STRING) /\ Len(raw) \in Nat /\ first \in Nat /\ last \in Nat
      /\ first >= 1 /\ first <= last /\ last <= Len(raw)
  BY DEF Paths
<1>5. /\ \A k \in first..last : SubSeq(raw, first, k) \in Seq(STRING)
                                /\ Len(SubSeq(raw, first, k)) = k - first + 1
                                /\ \A i \in 1..(k - first + 1) : SubSeq(raw, first, k)[i] = raw[first + i - 1]
  BY <1>4
<1>6. \A k \in first..last : raw[k] \notin {"", ".", ".."}
  <2> SUFFICES ASSUME NEW k \in first..last PROVE raw[k] \notin {"", ".", ".."}
    OBVIOUS
  <2> DEFINE i == k - first + 1
  <2>1. i \in 1..(last - first + 1) /\ first + i - 1 = k /\ last \in first..last
    BY <1>4
  <2> HIDE DEF i
  <2>2. i \in DOMAIN Clean(raw) /\ Clean(raw)[i] = raw[k]
    <3>1. Clean(raw) = SubSeq(raw, first, last)
      BY <1>2
    <3>2. /\ Clean(raw) \in Seq(STRING) /\ Len(Clean(raw)) = last - first + 1
          /\ \A j \in 1..(last - first + 1) : Clean(raw)[j] = raw[first + j - 1]
      BY <1>5, <2>1, <3>1
    <3>3. Clean(raw)[i] = raw[k]
      BY <2>1, <3>2
    <3> QED
      BY <2>1, <3>2, <3>3
  <2>3. raw[k] \in ToSet(Clean(raw))
    BY <2>2 DEF ToSet
  <2> QED
    BY <2>3 DEF ValidName
\* What path.Clean has made of the first k components.
<1> DEFINE Made(k) == IF k < first THEN <<>>
                      ELSE SubSeq(raw, first, IF k <= last THEN k ELSE last)
           bad == {k \in 0..Len(raw) : g[1..k] # Made(k)}
<1>7. bad = {}
  <2> SUFFICES ASSUME bad # {} PROVE FALSE
    OBVIOUS
  <2>1. bad \in SUBSET Nat
    BY <1>4
  <2> DEFINE k == Min(bad)
  <2>2. k \in bad /\ \A j \in bad : k <= j
    <3> HIDE DEF bad
    <3> QED
      BY <2>1, LeastMember
  <2>3. k \in Nat /\ k <= Len(raw) /\ g[1..k] # Made(k)
    <3> HIDE DEF Made
    <3> QED
      BY <1>4, <2>2
  <2>4. \A j \in 0..Len(raw) : j < k => g[1..j] = Made(j)
    <3> HIDE DEF Made
    <3> QED
      BY <2>2, <2>3
  <2> HIDE DEF k, bad
  <2>5. k # 0
    <3> SUFFICES ASSUME k = 0 PROVE FALSE
      OBVIOUS
    <3>1. 1..k = {} /\ k < first
      BY <1>4
    <3> QED
      BY <1>3, <2>3, <3>1
  <2>6. /\ k \in 1..Len(raw) /\ k - 1 \in 0..Len(raw) /\ k - 1 < k /\ k - 1 \in Nat
        /\ raw[k] \in STRING
    BY <1>4, <2>3, <2>5
  <2>7. g[1..k] = Component(Made(k - 1), raw[k])
    <3> HIDE DEF Made
    <3> QED
      BY <1>3, <2>4, <2>6
  <2>8. CASE k < first
    <3>1. raw[k] = "."
      <4>1. k \in 1..(first - 1)
        BY <1>4, <2>6, <2>8
      <4> QED
        BY <1>2, <4>1
    <3>2. Made(k) = <<>> /\ Made(k - 1) = <<>>
      BY <1>4, <2>6, <2>8
    <3> HIDE DEF Made
    <3> QED
      BY <2>3, <2>7, <3>1, <3>2 DEF Component
  <2>9. CASE k \in first..last
    <3>1. Component(Made(k - 1), raw[k]) = Append(Made(k - 1), raw[k])
      <4> HIDE DEF Made
      <4> QED
        BY <1>6, <2>9 DEF Component
    <3>2. Append(Made(k - 1), raw[k]) = SubSeq(raw, first, k)
      <4>1. CASE k = first
        <5>1. Made(k - 1) = <<>>
          BY <1>4, <2>6, <4>1
        <5>2. /\ SubSeq(raw, first, k) \in Seq(STRING) /\ Len(SubSeq(raw, first, k)) = 1
              /\ SubSeq(raw, first, k)[1] = raw[k]
          BY <1>4, <1>5, <2>9, <4>1
        <5>3. /\ Append(<<>>, raw[k]) \in Seq(STRING) /\ Len(Append(<<>>, raw[k])) = 1
              /\ Append(<<>>, raw[k])[1] = raw[k]
          BY <2>6
        <5> DEFINE u == Append(<<>>, raw[k])
                   v == SubSeq(raw, first, k)
        <5> HIDE DEF u, v
        <5>4. \A i \in 1..1 : u[i] = v[i]
          BY <5>2, <5>3 DEF u, v
        <5>5. u \in Seq(STRING) /\ v \in Seq(STRING) /\ Len(u) = 1 /\ Len(v) = 1
          BY <5>2, <5>3 DEF u, v
        <5>6. u = v
          BY ONLY <5>4, <5>5, SeqEqual
        <5> QED
          BY <5>1, <5>6 DEF u, v
      <4>2. CASE k # first
        <5>1. Made(k - 1) = SubSeq(raw, first, k - 1) /\ k - 1 \in first..last
          BY <1>4, <2>6, <2>9, <4>2
        <5> DEFINE u == SubSeq(raw, first, k - 1)
                   v == SubSeq(raw, first, k)
                   m == k - first
        <5>2. /\ u \in Seq(STRING) /\ Len(u) = m /\ \A i \in 1..m : u[i] = raw[first + i - 1]
          <6>1. (k - 1) - first + 1 = m
            BY <1>4, <2>6
          <6> QED
            BY <1>5, <5>1, <6>1
        <5>3. /\ v \in Seq(STRING) /\ Len(v) = m + 1 /\ \A i \in 1..(m + 1) : v[i] = raw[first + i - 1]
          BY <1>5, <2>9
        <5>4. m \in Nat /\ first + (m + 1) - 1 = k
          BY <1>4, <2>6, <2>9
        <5> HIDE DEF u, v, m
        <5>5. /\ Append(u, raw[k]) \in Seq(STRING) /\ Len(Append(u, raw[k])) = m + 1
              /\ \A i \in 1..m : Append(u, raw[k])[i] = u[i]
              /\ Append(u, raw[k])[m + 1] = raw[k]
          BY <2>6, <5>2, AppendProperties
        <5>6. \A i \in 1..(m + 1) : Append(u, raw[k])[i] = v[i]
          <6> SUFFICES ASSUME NEW i \in 1..(m + 1) PROVE Append(u, raw[k])[i] = v[i]
            OBVIOUS
          <6>1. CASE i \in 1..m
            BY <5>2, <5>3, <5>5, <6>1
          <6>2. CASE i = m + 1
            BY <5>3, <5>4, <5>5, <6>2
          <6>3. i \in 1..m \/ i = m + 1
            BY ONLY <5>4, i \in 1..(m + 1)
          <6> QED
            BY <6>1, <6>2, <6>3
        <5>7. Append(u, raw[k]) = v
          BY ONLY <5>3, <5>5, <5>6, SeqEqual
        <5> QED
          BY <5>1, <5>7 DEF u, v
      <4> QED
        BY <4>1, <4>2
    <3>3. Made(k) = SubSeq(raw, first, k)
      BY <1>4, <2>6, <2>9
    <3> HIDE DEF Made
    <3> QED
      BY <2>3, <2>7, <3>1, <3>2, <3>3
  <2>10. CASE k > last
    <3>1. k = Len(raw) /\ last = Len(raw) - 1 /\ raw[k] = ""
      <4>1. k \in Nat /\ k <= Len(raw) /\ k > last
        BY <2>6, <2>10
      <4>2. last = Len(raw) - 1 /\ raw[Len(raw)] = ""
        <5>1. last # Len(raw)
          BY ONLY <1>4, <4>1
        <5> QED
          BY <1>2, <5>1
      <4>3. k = Len(raw)
        <5> DEFINE l == Len(raw)
        <5>1. l \in Nat /\ last = l - 1 /\ k \in Nat /\ k <= l /\ k > last
          BY <1>4, <4>1, <4>2
        <5> HIDE DEF l
        <5>2. k = l
          BY ONLY <5>1
        <5> QED
          BY <5>2 DEF l
      <4> QED
        BY <4>2, <4>3
    <3>2. Made(k) = Made(k - 1)
      <4>1. k - 1 = last /\ ~(k < first) /\ ~(k <= last) /\ ~(last < first) /\ last <= last
        <5>1. k = Len(raw) /\ last = Len(raw) - 1
          BY <3>1
        <5> QED
          BY ONLY <1>4, <5>1
      <4>2. Made(k) = SubSeq(raw, first, last) /\ Made(last) = SubSeq(raw, first, last)
        BY <4>1
      <4> HIDE DEF Made
      <4> QED
        BY <4>1, <4>2
    <3>3. Component(Made(k - 1), raw[k]) = Made(k - 1)
      <4> HIDE DEF Made
      <4> QED
        BY <3>1 DEF Component
    <3> HIDE DEF Made
    <3> QED
      BY <2>3, <2>7, <3>2, <3>3
  <2> QED
    BY <1>4, <2>6, <2>8, <2>9, <2>10
<1>8. Lexical(raw) = SubSeq(raw, first, last)
  <2>1. Len(raw) \in 0..Len(raw)
    BY <1>4
  <2>2. g[1..Len(raw)] = Made(Len(raw))
    <3> HIDE DEF Made
    <3> QED
      BY <1>7, <2>1
  <2>3. Made(Len(raw)) = SubSeq(raw, first, last)
    BY <1>4
  <2> QED
    BY <1>3, <2>2, <2>3
<1>9. Clean(raw) # <<>>
  BY CleanPath DEF Paths
<1> QED
  BY <1>2, <1>8, <1>9 DEF ValidName

\* Every accepted name, and the one at hand, passed normalizeArchivePath; what
\* was accepted stays compatible when the extraction fails.
AcceptedInv ==
  /\ \A n \in DOMAIN entries : n = Clean(entries[n].name) /\ ValidName(entries[n].name)
  /\ pc \in {"write", "copy"} => ValidName(cur.name)
  /\ EntriesCompatible

\* An entry that is recorded has a valid name.
LEMMA AcceptedPut ==
  ASSUME AcceptedInv, NEW e, ValidName(e.name), entries' = Put(entries, Clean(e.name), e)
  PROVE  \A n \in DOMAIN entries' : n = Clean(entries'[n].name) /\ ValidName(entries'[n].name)
<1>1. /\ DOMAIN entries' = DOMAIN entries \cup {Clean(e.name)} /\ entries'[Clean(e.name)] = e
      /\ \A n \in DOMAIN entries : n # Clean(e.name) => entries'[n] = entries[n]
  BY DEF Put
<1> QED
  BY <1>1 DEF AcceptedInv

\* Every step keeps the accepted names valid and the entries compatible.
LEMMA AcceptedStep ==
  TypeInv /\ ExtractInv /\ ExtractInv' /\ AcceptedInv /\ [Next]_vars => AcceptedInv'
<1> SUFFICES ASSUME TypeInv, ExtractInv', AcceptedInv, [Next]_vars PROVE AcceptedInv'
  OBVIOUS
<1>1. CASE entries' = entries /\ (pc' \in {"write", "copy"} => pc \in {"write", "copy"} /\ cur' = cur)
  BY <1>1 DEF AcceptedInv, EntriesCompatible
<1>2. ASSUME pc' # "failed",
             \A n \in DOMAIN entries' : n = Clean(entries'[n].name) /\ ValidName(entries'[n].name),
             pc' \in {"write", "copy"} => ValidName(cur'.name)
      PROVE  AcceptedInv'
  <2>1. EntriesCompatible'
    BY <1>2 DEF ExtractInv, TreeInv, NamesInv
  <2> QED
    BY <1>2, <2>1 DEF AcceptedInv
<1>3. ASSUME NEW r, Abandoned(r) PROVE AcceptedInv'
  BY <1>1, <1>3 DEF Abandoned, records
<1>4. CASE Accepted /\ pc \in {"write", "copy"}
  <2>1. pc' = "next" /\ entries' = Put(entries, Clean(cur.name), cur) /\ ValidName(cur.name)
    BY <1>4 DEF Accepted, Name, AcceptedInv
  <2> QED
    BY <1>2, <2>1, AcceptedPut
<1>5. ASSUME NEW e \in Entries, RefuseEntry(e) PROVE AcceptedInv'
  BY <1>1, <1>5 DEF RefuseEntry, records
<1>6. ASSUME NEW e \in Entries, TakeEntry(e) PROVE AcceptedInv'
  <2>1. pc = "next" /\ Refusal(e) = "none"
    BY <1>6 DEF TakeEntry
  <2>2. CASE RootMarker(e.name)
    <3>1. e.kind = "dir"
      BY <2>1, <2>2 DEF Refusal
    <3> QED
      BY <1>1, <1>6, <2>2, <3>1 DEF TakeEntry
  <2>3. CASE ~RootMarker(e.name)
    <3>1. ValidName(e.name)
      BY <2>1, <2>3 DEF Refusal
    <3>2. CASE e.kind = "char"
      BY <1>2, <1>6, <2>1, <3>1, <3>2, AcceptedPut DEF TakeEntry
    <3>3. CASE e.kind # "char"
      <4>1. pc' = "write" /\ cur' = e /\ entries' = entries
        BY <1>6, <2>3, <3>3 DEF TakeEntry
      <4> QED
        BY <1>2, <3>1, <4>1 DEF AcceptedInv
    <3> QED
      BY <3>2, <3>3
  <2> QED
    BY <2>2, <2>3
<1>7. CASE MakeParent
  BY <1>1, <1>3, <1>7 DEF MakeParent, records
<1>8. CASE MakeDirectory
  BY <1>3, <1>4, <1>8 DEF MakeDirectory, Writing
<1>9. CASE CreateFile
  BY <1>1, <1>3, <1>9 DEF CreateFile, Writing, records
<1>10. CASE Copy
  BY <1>1, <1>10 DEF Copy, records
<1>11. CASE FinishFile
  BY <1>3, <1>4, <1>11 DEF FinishFile
<1>12. CASE MakeSymlink \/ MakeHardlink
  <2>1. pc = "write" /\ \E r, v : PlaceLink(r, v)
    BY <1>12 DEF MakeSymlink, MakeHardlink, Writing
  <2> QED
    BY <1>3, <1>4, <2>1 DEF PlaceLink
<1>13. CASE IOError
  BY <1>3, <1>13 DEF IOError
<1>14. CASE EndOfArchive
  BY <1>1, <1>14 DEF EndOfArchive
<1>15. ASSUME NEW p \in pending, ApplyMode(p) PROVE AcceptedInv'
  BY <1>1, <1>3, <1>15 DEF ApplyMode
<1>16. CASE Return
  BY <1>1, <1>16 DEF Return, records
<1>17. CASE UNCHANGED vars
  BY <1>1, <1>17 DEF vars
<1> QED
  BY <1>5, <1>6, <1>7, <1>8, <1>9, <1>10, <1>11, <1>12, <1>13, <1>14, <1>15, <1>16, <1>17
     DEF Next, Ended

\* Whatever archive is extracted, and however far: the names that were accepted
\* are canonical ones below the destination, the entries under them compatible,
\* and the disk never contradicts them.
THEOREM NamesAreSound == Spec => []EntriesSound
<1>1. Init => AcceptedInv
  BY DEF Init, Empty, AcceptedInv, EntriesCompatible
<1>2. TypeInv /\ AcceptedInv => NamesDenoteThemselves
  <2> SUFFICES ASSUME TypeInv, AcceptedInv, NEW n \in DOMAIN entries
               PROVE  n = Lexical(entries[n].name) /\ ".." \notin ToSet(n) /\ n # <<>>
    BY DEF NamesDenoteThemselves
  <2>1. entries[n] \in Entries
    BY DEF TypeInv, TypeOK
  <2>2. entries[n].name \in Paths
    BY <2>1, EntryFacts
  <2> QED
    BY <2>2, ValidNames DEF AcceptedInv
<1>3. TypeInv /\ ExtractInv /\ AcceptedInv => EntriesSound
  BY <1>2 DEF EntriesSound, TypeInv, ExtractInv, AcceptedInv
<1> QED
  BY <1>1, <1>3, Extraction, AcceptedStep, PTL DEF Spec

-----------------------------------------------------------------------------
(* The order of flushes and rename.                                        *)

\* The two states of the disk are records of their shape.
Contents == [names : SUBSET Names, bytes : SUBSET Names]
Disks == [target : Targets, trees : [Trees -> Contents]]

Labels ==
  {"validate", "extract", "manifest", "syncManifest", "syncRootfs", "publish",
   "syncVersion", "returned"}

ShapeInv ==
  /\ stage \in Labels /\ attempt \in 0..MaxAttempts
  /\ stage \notin {"validate", "returned"} => attempt \in Trees
  /\ disk \in Disks /\ kept \in Disks

\* What is kept was written.
WrittenInv ==
  \A t \in Trees :
    /\ kept.trees[t].names \subseteq disk.trees[t].names
    /\ kept.trees[t].bytes \subseteq disk.trees[t].bytes

\* What the present tree has been given by each step.
BuildInv ==
  /\ stage \in {"manifest", "syncManifest", "syncRootfs"} =>
       Files \subseteq disk.trees[attempt].names
  /\ stage \in {"syncManifest", "syncRootfs"} =>
       "manifest" \in disk.trees[attempt].names \cap disk.trees[attempt].bytes

\* A tree whose manifest and names at the top are flushed.
Flushed(t) ==
  /\ "manifest" \in kept.trees[t].bytes
  /\ Top \cup {"manifest"} \subseteq kept.trees[t].names

\* The flushes precede the rename, and the rename what is kept of it.
FlushInv ==
  /\ stage = "syncRootfs" => "manifest" \in kept.trees[attempt].bytes
  /\ stage \in {"publish", "syncVersion"} => Flushed(attempt)
  /\ stage = "syncVersion" => disk.target = attempt
  /\ stage = "returned" => disk.target \in Trees
  /\ disk.target \in Trees => Flushed(disk.target)
  /\ kept.target \in Trees => Flushed(kept.target) /\ disk.target \in Trees

DurableInv == ShapeInv /\ WrittenInv /\ BuildInv /\ FlushInv

-----------------------------------------------------------------------------

\* The attempts are proper targets, distinct from nothing and from a stale entry.
LEMMA TargetFacts ==
  /\ Trees \subseteq Targets /\ None \in Targets /\ Stale \in Targets
  /\ None \notin Trees /\ Stale \notin Trees
  /\ 0 \in 0..MaxAttempts /\ Trees \subseteq 0..MaxAttempts
  /\ \A i \in 0..MaxAttempts : i < MaxAttempts => i + 1 \in Trees
BY AttemptsAssumption DEF Trees, Targets, None, Stale

\* The names and bytes of a tree are names of the archive or the manifest.
LEMMA NameFacts ==
  /\ Files \subseteq Names /\ Top \subseteq Files /\ "manifest" \in Names
  /\ EmptyTree \in Contents
BY DEF Files, Names, EmptyTree, Contents

\* The disk before the first attempt is in order.
LEMMA InitDurable == PowerInit => DurableInv
<1> SUFFICES ASSUME PowerInit PROVE DurableInv
  OBVIOUS
<1>1. PICK t \in {None, Stale} : disk = [target |-> t, trees |-> [i \in Trees |-> EmptyTree]]
  BY DEF PowerInit
<1>2. disk \in Disks /\ kept = disk
  BY <1>1, TargetFacts, NameFacts DEF PowerInit, Disks
<1>3. ShapeInv
  BY <1>2, TargetFacts DEF PowerInit, ShapeInv, Labels
<1>4. WrittenInv
  BY <1>2 DEF WrittenInv
<1>5. BuildInv
  BY DEF PowerInit, BuildInv
<1>6. FlushInv
  BY <1>1, <1>2, TargetFacts DEF PowerInit, FlushInv
<1> QED
  BY <1>3, <1>4, <1>5, <1>6 DEF DurableInv

\* Only a loss of power takes back what was written, and then to what is kept;
\* nothing takes back what is kept but a newer target.
LEMMA NextDurable == DurableInv /\ [PowerNext]_powerVars => DurableInv'
<1> SUFFICES ASSUME DurableInv, [PowerNext]_powerVars PROVE DurableInv'
  OBVIOUS
<1> USE TargetFacts, NameFacts DEF DurableInv
<1>1. CASE Validate
  <2>1. disk' = disk /\ kept' = kept /\ stage' \in {"returned", "extract"}
        /\ (stage' = "returned" => disk.target \in Trees)
    BY <1>1 DEF Validate, Accepts
  <2>2. ShapeInv'
    BY <1>1, <2>1 DEF Validate, ShapeInv, Labels
  <2> QED
    BY <2>1, <2>2 DEF WrittenInv, BuildInv, FlushInv, Flushed
<1>2. ASSUME NEW f \in Files, ExtractFile(f) PROVE DurableInv'
  <2>1. attempt \in Trees /\ stage = "extract" /\ stage' = stage /\ attempt' = attempt /\ kept' = kept
    BY <1>2 DEF ExtractFile, ShapeInv
  <2> DEFINE c == [names |-> disk.trees[attempt].names \cup {f},
                   bytes |-> disk.trees[attempt].bytes \cup {f}]
  <2>2. disk' = [disk EXCEPT !.trees[attempt] = c]
    BY <1>2 DEF ExtractFile
  <2>3. disk.trees[attempt] \in Contents
    BY <2>1 DEF ShapeInv, Disks
  <2>4. c \in Contents
    BY <2>3 DEF Contents
  <2>5. disk' \in Disks /\ disk'.target = disk.target
        /\ disk'.trees = [disk.trees EXCEPT ![attempt] = c]
    BY <2>1, <2>2, <2>4 DEF ShapeInv, Disks
  <2>6. ShapeInv'
    BY <2>1, <2>5 DEF ShapeInv
  <2>7. WrittenInv'
    BY <2>1, <2>5 DEF WrittenInv, ShapeInv, Disks
  <2>8. BuildInv' /\ FlushInv'
    BY <2>1, <2>5 DEF BuildInv, FlushInv, Flushed
  <2> QED
    BY <2>6, <2>7, <2>8
<1>3. CASE Extracted
  <2>1. ShapeInv' /\ WrittenInv'
    BY <1>3 DEF Extracted, ShapeInv, Labels, WrittenInv
  <2>2. BuildInv' /\ FlushInv'
    BY <1>3 DEF Extracted, BuildInv, FlushInv, Flushed
  <2> QED
    BY <2>1, <2>2
<1>4. CASE WriteManifest
  <2>1. attempt \in Trees /\ stage = "manifest" /\ stage' = "syncManifest" /\ attempt' = attempt /\ kept' = kept
    BY <1>4 DEF WriteManifest, ShapeInv
  <2> DEFINE c == [names |-> disk.trees[attempt].names \cup {"manifest"},
                   bytes |-> disk.trees[attempt].bytes \cup {"manifest"}]
  <2>2. disk' = [disk EXCEPT !.trees[attempt] = c]
    BY <1>4 DEF WriteManifest
  <2>3. disk.trees[attempt] \in Contents
    BY <2>1 DEF ShapeInv, Disks
  <2>4. c \in Contents
    BY <2>3 DEF Contents
  <2>5. disk' \in Disks /\ disk'.target = disk.target
        /\ disk'.trees = [disk.trees EXCEPT ![attempt] = c]
    BY <2>1, <2>2, <2>4 DEF ShapeInv, Disks
  <2>6. ShapeInv'
    BY <2>1, <2>5 DEF ShapeInv, Labels
  <2>7. WrittenInv'
    BY <2>1, <2>5 DEF WrittenInv, ShapeInv, Disks
  <2>8. BuildInv' /\ FlushInv'
    BY <2>1, <2>5 DEF BuildInv, FlushInv, Flushed, ShapeInv, Disks
  <2> QED
    BY <2>6, <2>7, <2>8
<1>5. CASE SyncManifest
  <2>1. attempt \in Trees /\ stage = "syncManifest" /\ stage' = "syncRootfs" /\ attempt' = attempt /\ disk' = disk
    BY <1>5 DEF SyncManifest, ShapeInv
  <2>2. kept.trees[attempt] \in Contents
    BY <2>1 DEF ShapeInv, Disks
  <2> DEFINE c == [kept.trees[attempt] EXCEPT !.bytes = @ \cup {"manifest"}]
  <2>3. c \in Contents /\ c.names = kept.trees[attempt].names
        /\ c.bytes = kept.trees[attempt].bytes \cup {"manifest"}
    BY <2>2 DEF Contents
  <2>4. kept' = [kept EXCEPT !.trees[attempt].bytes = @ \cup {"manifest"}]
    BY <1>5 DEF SyncManifest
  <2>5. kept' \in Disks /\ kept'.target = kept.target
        /\ kept'.trees = [kept.trees EXCEPT ![attempt] = c]
    BY <2>1, <2>3, <2>4 DEF ShapeInv, Disks
  <2>6. ShapeInv'
    BY <2>1, <2>5 DEF ShapeInv, Labels
  <2>7. WrittenInv'
    BY <2>1, <2>3, <2>5 DEF WrittenInv, BuildInv, ShapeInv, Disks
  <2>8. BuildInv'
    BY <2>1 DEF BuildInv
  <2>9. FlushInv'
    BY <2>1, <2>3, <2>5 DEF FlushInv, Flushed, ShapeInv, Disks
  <2> QED
    BY <2>6, <2>7, <2>8, <2>9
<1>6. CASE SyncRootfs
  <2>1. attempt \in Trees /\ stage = "syncRootfs" /\ stage' = "publish" /\ attempt' = attempt /\ disk' = disk
    BY <1>6 DEF SyncRootfs, ShapeInv
  <2>2. kept.trees[attempt] \in Contents
    BY <2>1 DEF ShapeInv, Disks
  <2> DEFINE c == [kept.trees[attempt] EXCEPT !.names = @ \cup Top \cup {"manifest"}]
  <2>3. c \in Contents /\ c.bytes = kept.trees[attempt].bytes
        /\ c.names = kept.trees[attempt].names \cup Top \cup {"manifest"}
    BY <2>2 DEF Contents
  <2>4. kept' = [kept EXCEPT !.trees[attempt].names = @ \cup Top \cup {"manifest"}]
    BY <1>6 DEF SyncRootfs
  <2>5. kept' \in Disks /\ kept'.target = kept.target
        /\ kept'.trees = [kept.trees EXCEPT ![attempt] = c]
    BY <2>1, <2>3, <2>4 DEF ShapeInv, Disks
  <2>6. ShapeInv'
    BY <2>1, <2>5 DEF ShapeInv, Labels
  <2>7. WrittenInv'
    BY <2>1, <2>3, <2>5 DEF WrittenInv, BuildInv, ShapeInv, Disks
  <2>8. BuildInv'
    BY <2>1 DEF BuildInv
  <2>9. FlushInv'
    BY <2>1, <2>3, <2>5 DEF FlushInv, Flushed, ShapeInv, Disks
  <2> QED
    BY <2>6, <2>7, <2>8, <2>9
<1>7. CASE Publish
  <2>1. attempt \in Trees /\ stage = "publish" /\ stage' = "syncVersion" /\ attempt' = attempt /\ kept' = kept
    BY <1>7 DEF Publish, ShapeInv
  <2>2. disk' \in Disks /\ disk'.target = attempt /\ disk'.trees = disk.trees
    BY <1>7, <2>1 DEF Publish, ShapeInv, Disks
  <2>3. ShapeInv' /\ WrittenInv'
    BY <2>1, <2>2 DEF ShapeInv, Labels, WrittenInv
  <2>4. BuildInv' /\ FlushInv'
    BY <2>1, <2>2 DEF BuildInv, FlushInv, Flushed
  <2> QED
    BY <2>3, <2>4
<1>8. CASE SyncVersion
  <2>1. stage = "syncVersion" /\ stage' = "returned" /\ attempt' = attempt /\ disk' = disk
        /\ disk.target \in Trees
    BY <1>8 DEF SyncVersion, FlushInv, ShapeInv
  <2>2. kept' \in Disks /\ kept'.target = disk.target /\ kept'.trees = kept.trees
    BY <1>8 DEF SyncVersion, ShapeInv, Disks
  <2>3. ShapeInv' /\ WrittenInv'
    BY <2>1, <2>2 DEF ShapeInv, Labels, WrittenInv
  <2>4. BuildInv' /\ FlushInv'
    BY <2>1, <2>2 DEF BuildInv, FlushInv, Flushed
  <2> QED
    BY <2>3, <2>4
<1>9. CASE Fail
  BY <1>9 DEF Fail, ShapeInv, Labels, WrittenInv, BuildInv, FlushInv, Flushed
<1>10. CASE Again
  BY <1>10 DEF Again, ShapeInv, Labels, WrittenInv, BuildInv, FlushInv, Flushed
<1>11. CASE Writeback
  <2>1. stage' = stage /\ attempt' = attempt /\ disk' = disk
    BY <1>11 DEF Writeback
  <2>2. /\ kept' \in Disks /\ WrittenInv'
        /\ kept'.target \in {kept.target, disk.target}
        /\ \A t \in Trees : /\ kept.trees[t].names \subseteq kept'.trees[t].names
                            /\ kept.trees[t].bytes \subseteq kept'.trees[t].bytes
    <3>1. ASSUME NEW t \in Trees, NEW n \in Names, n \in disk.trees[t].names,
                 kept' = [kept EXCEPT !.trees[t].names = @ \cup {n}]
          PROVE <2>2!1 /\ <2>2!2 /\ <2>2!3
      <4> DEFINE c == [kept.trees[t] EXCEPT !.names = @ \cup {n}]
      <4>1. c \in Contents /\ c.bytes = kept.trees[t].bytes
            /\ c.names = kept.trees[t].names \cup {n}
        BY DEF ShapeInv, Disks, Contents
      <4>2. kept' \in Disks /\ kept'.target = kept.target
            /\ kept'.trees = [kept.trees EXCEPT ![t] = c]
        BY <3>1, <4>1 DEF ShapeInv, Disks
      <4> QED
        BY <2>1, <3>1, <4>1, <4>2 DEF ShapeInv, Disks, WrittenInv
    <3>2. ASSUME NEW t \in Trees, NEW n \in Names, n \in disk.trees[t].bytes,
                 kept' = [kept EXCEPT !.trees[t].bytes = @ \cup {n}]
          PROVE <2>2!1 /\ <2>2!2 /\ <2>2!3
      <4> DEFINE c == [kept.trees[t] EXCEPT !.bytes = @ \cup {n}]
      <4>1. c \in Contents /\ c.names = kept.trees[t].names
            /\ c.bytes = kept.trees[t].bytes \cup {n}
        BY DEF ShapeInv, Disks, Contents
      <4>2. kept' \in Disks /\ kept'.target = kept.target
            /\ kept'.trees = [kept.trees EXCEPT ![t] = c]
        BY <3>2, <4>1 DEF ShapeInv, Disks
      <4> QED
        BY <2>1, <3>2, <4>1, <4>2 DEF ShapeInv, Disks, WrittenInv
    <3>3. ASSUME kept' = [kept EXCEPT !.target = disk.target]
          PROVE <2>2!1 /\ <2>2!2 /\ <2>2!3
      BY <2>1, <3>3 DEF ShapeInv, Disks, WrittenInv
    <3> QED
      BY <1>11, <3>1, <3>2, <3>3 DEF Writeback
  <2>3. ShapeInv' /\ BuildInv'
    BY <2>1, <2>2 DEF ShapeInv, BuildInv
  <2>4. FlushInv'
    BY <2>1, <2>2 DEF FlushInv, Flushed, ShapeInv
  <2> QED
    BY <2>2, <2>3, <2>4
<1>12. CASE PowerLoss
  BY <1>12 DEF PowerLoss, ShapeInv, Labels, WrittenInv, BuildInv, FlushInv, Flushed
<1>13. CASE UNCHANGED powerVars
  BY <1>13 DEF powerVars, ShapeInv, WrittenInv, BuildInv, FlushInv, Flushed
<1> QED
  BY <1>1, <1>2, <1>3, <1>4, <1>5, <1>6, <1>7, <1>8, <1>9, <1>10, <1>11, <1>12, <1>13 DEF PowerNext

\* The strengthening holds of every behaviour.
LEMMA Durable == PowerSpec => []DurableInv
BY InitDurable, NextDurable, PTL DEF PowerSpec

-----------------------------------------------------------------------------

\* Outside the step between rename and flush the kept target is the present one,
\* unless a run ended there.
TargetInv ==
  /\ unflushed \in BOOLEAN
  /\ ~unflushed /\ stage # "syncVersion" => kept.target = disk.target

\* Every step keeps the two targets together, or records that they differ.
LEMMA TargetStep == DurableInv /\ TargetInv /\ [PowerNext]_powerVars => TargetInv'
<1> SUFFICES ASSUME DurableInv, TargetInv, [PowerNext]_powerVars PROVE TargetInv'
  OBVIOUS
<1>0. kept \in Disks /\ disk \in Disks
  BY DEF DurableInv, ShapeInv
<1> USE DEF TargetInv
<1>1. CASE Validate \/ Extracted \/ Again \/ UNCHANGED powerVars
  BY <1>1 DEF Validate, Extracted, Again, powerVars
<1>2. ASSUME NEW f \in Files, ExtractFile(f) PROVE TargetInv'
  BY <1>2, <1>0 DEF ExtractFile, Disks
<1>3. CASE WriteManifest \/ SyncManifest \/ SyncRootfs
  BY <1>3, <1>0 DEF WriteManifest, SyncManifest, SyncRootfs, Disks
<1>4. CASE Publish \/ Fail \/ PowerLoss
  BY <1>4, <1>0 DEF Publish, Fail, PowerLoss, Disks
<1>5. CASE SyncVersion
  BY <1>5, <1>0 DEF SyncVersion, Disks
<1>6. CASE Writeback
  BY <1>6, <1>0 DEF Writeback, Disks
<1> QED
  BY <1>1, <1>2, <1>3, <1>4, <1>5, <1>6 DEF PowerNext

\* The targets agree in every behaviour.
LEMMA TargetsAgree == PowerSpec => []TargetInv
<1>1. PowerInit => TargetInv
  BY DEF PowerInit, TargetInv
<1> QED
  BY <1>1, TargetStep, Durable, PTL DEF PowerSpec

\* The variables always have their types, and nothing is kept that was not written.
THEOREM PowerTypes == PowerSpec => []PowerTypeOK
<1>1. DurableInv /\ TargetInv => PowerTypeOK
  BY TargetFacts
     DEF DurableInv, ShapeInv, WrittenInv, TargetInv, PowerTypeOK, Disks, Contents, Labels
<1> QED
  BY <1>1, Durable, TargetsAgree, PTL

\* Whenever the power goes, what writeManifest and publishReplacement leave under
\* the published name has its whole manifest and every name at its top.
THEOREM PublishedWhole == PowerSpec => []PublishedIsWhole
<1>1. DurableInv => PublishedIsWhole
  BY DEF DurableInv, FlushInv, Flushed, PublishedIsWhole
<1> QED
  BY <1>1, Durable, PTL

\* Where provision returns, the entry survives from then on every loss of power,
\* failure and later attempt: after a download since the version directory is
\* flushed last, and for an entry found valid since the run that published it came
\* to that flush.  Only where that run was cut short before is nothing claimed.
THEOREM Survives == PowerSpec => ProvisionedSurvives
<1> DEFINE Step == /\ stage' = "returned" /\ ~unflushed' => Accepts(kept')
                   /\ Accepts(kept) => Accepts(kept')
<1>1. DurableInv /\ DurableInv' /\ TargetInv' /\ [PowerNext]_powerVars => [Step]_powerVars
  <2> SUFFICES ASSUME DurableInv, DurableInv', TargetInv', PowerNext PROVE Step
    OBVIOUS
  <2>1. ASSUME kept'.target \in Trees PROVE Accepts(kept')
    BY <2>1 DEF DurableInv, FlushInv, Flushed, Accepts
  <2>2. ASSUME Accepts(kept) PROVE kept'.target \in Trees
    <3>1. kept.target \in Trees /\ disk.target \in Trees
      BY <2>2 DEF Accepts, DurableInv, FlushInv
    <3>2. kept'.target \in {kept.target, disk.target}
      BY DEF PowerNext, Validate, ExtractFile, Extracted, WriteManifest, SyncManifest, SyncRootfs,
             Publish, SyncVersion, Fail, Again, Writeback, PowerLoss, DurableInv, ShapeInv, Disks
    <3> QED
      BY <3>1, <3>2
  <2>3. ASSUME stage' = "returned", ~unflushed' PROVE kept'.target \in Trees
    <3>1. kept'.target = disk'.target
      BY <2>3 DEF TargetInv
    <3>2. disk'.target \in Trees
      BY <2>3 DEF DurableInv, FlushInv
    <3> QED
      BY <3>1, <3>2
  <2> QED
    BY <2>1, <2>2, <2>3
<1> QED
  BY <1>1, Durable, TargetsAgree, PTL DEF PowerSpec, ProvisionedSurvives
=============================================================================
