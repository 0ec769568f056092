----------------------------- MODULE FoldTheorems -----------------------------
(***************************************************************************)
(* What the folds of the community modules compute, for every finite set:  *)
(* the recursion they are defined by has a solution, and it can be         *)
(* unfolded one element at a time.  The proofs are by minimal              *)
(* counterexample, a subset of a finite set that has no smaller one.       *)
(* From them: sums over functions, over groups and over sequences, and a   *)
(* fold over a sequence as a recursion that takes the last place off.  And *)
(* how sequences grow, place by place, and what division keeps.            *)
(***************************************************************************)
EXTENDS Integers, FiniteSets, Sequences, SequencesExt, FiniteSetTheorems,
        WellFoundedInduction, TLAPS

LEMMA MinimalSubset ==
  ASSUME NEW S, IsFiniteSet(S), NEW T, T \subseteq SUBSET S, T # {}
  PROVE  \E x \in T : \A y \in T : y \subseteq x => y = x
<1>1. IsWellFoundedOn(StrictSubsetOrdering(S), SUBSET S)
  BY FS_StrictSubsetOrderingWellFounded, FS_FiniteSubsetsOfFinite
<1>2. PICK x \in T : \A y \in T : ~(<<y, x>> \in StrictSubsetOrdering(S))
  BY <1>1, WFMin
<1>3. \A y \in T : y \subseteq x => y = x
  BY <1>2 DEF StrictSubsetOrdering
<1> QED BY <1>3

-------------------------------------------------------------------------------
(* Recursion over the subsets of a finite set: c picks the element that is   *)
(* taken away, and F combines it with the result for the rest.               *)

Picks(c, D) == /\ c \in [(SUBSET D) \ {{}} -> D]
               /\ \A s \in (SUBSET D) \ {{}} : c[s] \in s

\* g solves the recursion on the subsets of D.
Solves(g, D, V, base, c, F) ==
    /\ g \in [SUBSET D -> V]
    /\ \A s \in SUBSET D : g[s] = IF s = {} THEN base ELSE F[c[s]][g[s \ {c[s]}]]

\* Two solutions agree where both are defined.
LEMMA SolutionsAgree ==
  ASSUME NEW D, IsFiniteSet(D), NEW V, NEW base, NEW c, NEW F, Picks(c, D),
         NEW S \in SUBSET D, NEW T \in SUBSET D, NEW g, NEW h,
         Solves(g, S, V, base, c, F), Solves(h, T, V, base, c, F),
         NEW u \in SUBSET (S \intersect T)
  PROVE  g[u] = h[u]
<1> DEFINE W == {w \in SUBSET (S \intersect T) : g[w] # h[w]}
<1>1. SUFFICES ASSUME W # {} PROVE FALSE
  OBVIOUS
<1>2. PICK w \in W : \A y \in W : y \subseteq w => y = w
  <2> HIDE DEF W
  <2>1. W \subseteq SUBSET D
    BY DEF W
  <2> QED BY <1>1, <2>1, MinimalSubset
<1>3. w # {}
  BY <1>2 DEF Solves
<1>4. c[w] \in w /\ w \in SUBSET D
  BY <1>2, <1>3 DEF Picks
<1>5. w \ {c[w]} \notin W
  BY <1>2, <1>4
<1>6. g[w \ {c[w]}] = h[w \ {c[w]}]
  BY <1>2, <1>5
<1> QED BY <1>2, <1>3, <1>6 DEF Solves

LEMMA SolutionExists ==
  ASSUME NEW D, IsFiniteSet(D), NEW V, NEW base \in V, NEW c, Picks(c, D),
         NEW F \in [D -> [V -> V]]
  PROVE  \E g : Solves(g, D, V, base, c, F)
<1> DEFINE Sol(s, g) == Solves(g, s, V, base, c, F)
           W == {w \in SUBSET D : ~ \E g : Sol(w, g)}
<1>1. SUFFICES ASSUME W # {} PROVE FALSE
  <2>1. D \in SUBSET D
    OBVIOUS
  <2> QED BY <2>1
<1>2. PICK w \in W : \A y \in W : y \subseteq w => y = w
  <2>1. W \subseteq SUBSET D
    OBVIOUS
  <2> HIDE DEF W
  <2> QED BY <1>1, <2>1, MinimalSubset
<1> DEFINE h(s) == CHOOSE g : Sol(s, g)
           v(s) == h(s)[s]
           p == c[w]
           G == [s \in SUBSET w |->
                   IF s # w THEN v(s)
                   ELSE IF w = {} THEN base ELSE F[p][v(w \ {p})]]
<1>3. \A s \in SUBSET w : s # w => Sol(s, h(s)) /\ s \in SUBSET D
  <2> HIDE DEF Sol
  <2> TAKE s \in SUBSET w
  <2> SUFFICES ASSUME s # w PROVE Sol(s, h(s)) /\ s \in SUBSET D
    OBVIOUS
  <2>1. s \notin W /\ s \in SUBSET D
    BY <1>2
  <2>2. \E g : Sol(s, g)
    BY <2>1
  <2> QED BY <2>1, <2>2
<1>4. w # {} => p \in w /\ w \ {p} \in SUBSET w /\ w \ {p} # w
  BY <1>2 DEF Picks
<1>5. \A s \in SUBSET w : s # w => v(s) \in V
  <2> HIDE DEF h
  <2> QED BY <1>3 DEF Solves
<1>6. G \in [SUBSET w -> V]
  <2>0. base \in V
    OBVIOUS
  <2>1. w # {} => p \in D /\ v(w \ {p}) \in V
    <3> HIDE DEF v, p
    <3>1. w \in SUBSET D
      BY <1>2
    <3> QED BY <1>4, <1>5, <3>1
  <2>2. w # {} => F[p][v(w \ {p})] \in V
    <3> HIDE DEF v, p
    <3> QED BY <2>1
  <2> HIDE DEF v, p, W
  <2> QED BY <1>5, <2>0, <2>2
\* Smaller subsets: the solution for s, restricted, is the solution for the rest.
<1>7. ASSUME NEW s \in SUBSET w, s # w, s # {}
      PROVE  v(s) = F[c[s]][v(s \ {c[s]})]
  <2>1. c[s] \in s /\ s \in SUBSET D /\ s \ {c[s]} \in SUBSET w /\ s \ {c[s]} # w
    BY <1>2, <1>7 DEF Picks
  <2> DEFINE r == s \ {c[s]}
  <2>2. Sol(s, h(s)) /\ Sol(r, h(r)) /\ r \in SUBSET D /\ r \in SUBSET (s \intersect r)
    BY <1>3, <1>7, <2>1
  <2>3. h(s)[r] = h(r)[r]
    <3>1. \A x, y : Solves(x, s, V, base, c, F) /\ Solves(y, r, V, base, c, F) => x[r] = y[r]
      <4> TAKE x, y
      <4> SUFFICES ASSUME Solves(x, s, V, base, c, F), Solves(y, r, V, base, c, F)
                   PROVE  x[r] = y[r]
        OBVIOUS
      <4> s \in SUBSET D /\ r \in SUBSET D /\ r \in SUBSET (s \intersect r)
        BY <2>2
      <4> HIDE DEF r
      <4> QED BY SolutionsAgree, SMTT(30)
    <3> HIDE DEF h
    <3> QED BY <2>2, <3>1
  <2>4. h(s)[s] = F[c[s]][h(s)[r]]
    <3> HIDE DEF h
    <3> QED BY <1>7, <2>2 DEF Solves
  <2> QED BY <2>3, <2>4
<1>8. ASSUME NEW s \in SUBSET w, s # w, s = {}
      PROVE  v(s) = base
  <2>1. Sol(s, h(s))
    BY <1>3, <1>8
  <2> HIDE DEF h
  <2> QED BY <1>8, <2>1 DEF Solves
<1>9. \A s \in SUBSET w : G[s] = IF s = {} THEN base ELSE F[c[s]][G[s \ {c[s]}]]
  <2> TAKE s \in SUBSET w
  <2>1. CASE s = w
    <3> HIDE DEF v
    <3> QED BY <1>4, <2>1
  <2>2. CASE s # w
    <3>1. s # {} => s \ {c[s]} \in SUBSET w /\ s \ {c[s]} # w
      BY <1>2, <2>2 DEF Picks
    <3> HIDE DEF v
    <3> QED BY <1>7, <1>8, <2>2, <3>1
  <2> QED BY <2>1, <2>2
<1>10. Sol(w, G)
  <2> HIDE DEF G
  <2> QED BY <1>6, <1>9 DEF Solves
<1> QED BY <1>2, <1>10

-------------------------------------------------------------------------------
(* Sums of a function over a finite set (Functions!SumFunctionOnSet).        *)

SumPick(D) == [s \in (SUBSET D) \ {{}} |-> CHOOSE x \in s : TRUE]

\* g has the sums of f over the subsets of D.
Sums(g, f, D) ==
    /\ g \in [SUBSET D -> Int]
    /\ \A s \in SUBSET D : s = {} => g[s] = 0
    /\ \A s \in SUBSET D : \A x \in s : g[s] = f[x] + g[s \ {x}]

\* The recursion of the fold takes one element at a time.
LEMMA SumsInOrder ==
  ASSUME NEW D, IsFiniteSet(D), NEW f \in [D -> Int]
  PROVE  \E g : /\ g \in [SUBSET D -> Int]
                /\ \A s \in SUBSET D :
                      g[s] = IF s = {} THEN 0
                             ELSE f[SumPick(D)[s]] + g[s \ {SumPick(D)[s]}]
<1> DEFINE c == SumPick(D)
           F == [x \in D |-> [v \in Int |-> f[x] + v]]
<1>1. Picks(c, D)
  BY DEF Picks, SumPick
<1>2. F \in [D -> [Int -> Int]] /\ 0 \in Int
  OBVIOUS
<1>3. PICK g : Solves(g, D, Int, 0, c, F)
  <2> HIDE DEF c, F
  <2> QED BY <1>1, <1>2, SolutionExists
<1>4. ASSUME NEW s \in SUBSET D
      PROVE  g[s] = IF s = {} THEN 0 ELSE f[c[s]] + g[s \ {c[s]}]
  <2>1. s # {} => c[s] \in D /\ g[s \ {c[s]}] \in Int
    <3> HIDE DEF c, F
    <3> QED BY <1>1, <1>3 DEF Solves, Picks
  <2>2. s # {} => F[c[s]][g[s \ {c[s]}]] = f[c[s]] + g[s \ {c[s]}]
    <3> HIDE DEF c
    <3> QED BY <2>1
  <2> HIDE DEF c, F
  <2> QED BY <1>3, <2>2 DEF Solves
<1> QED BY <1>3, <1>4 DEF Solves

\* The order does not matter.
LEMMA SumsExist ==
  ASSUME NEW D, IsFiniteSet(D), NEW f \in [D -> Int]
  PROVE  \E g : Sums(g, f, D)
<1> DEFINE c == SumPick(D)
<1>1. PICK g : /\ g \in [SUBSET D -> Int]
               /\ \A s \in SUBSET D : g[s] = IF s = {} THEN 0 ELSE f[c[s]] + g[s \ {c[s]}]
  BY SumsInOrder
<1>2. \A s \in SUBSET D : s # {} => c[s] \in s
  BY DEF SumPick
<1> HIDE DEF c
<1> DEFINE W == {s \in SUBSET D : \E x \in s : g[s] # f[x] + g[s \ {x}]}
<1>3. W = {}
  <2> SUFFICES ASSUME W # {} PROVE FALSE
    OBVIOUS
  <2>1. PICK w \in W : \A y \in W : y \subseteq w => y = w
    <3>1. W \subseteq SUBSET D
      OBVIOUS
    <3> HIDE DEF W
    <3> QED BY <3>1, MinimalSubset
  <2>2. PICK x \in w : g[w] # f[x] + g[w \ {x}]
    BY <2>1
  <2> DEFINE p == c[w]
             r == w \ {p, x}
  <2>3. p \in w /\ p # x /\ w \in SUBSET D /\ g[w] = f[p] + g[w \ {p}]
    <3>1. w \in SUBSET D /\ w # {}
      BY <2>1, <2>2
    <3>2. p \in w /\ g[w] = f[p] + g[w \ {p}]
      BY <1>1, <1>2, <3>1
    <3> HIDE DEF p
    <3> QED BY <2>2, <3>1, <3>2
  <2>4. w \ {p} \notin W /\ w \ {x} \notin W /\ w \ {p} \in SUBSET D /\ w \ {x} \in SUBSET D
    BY <2>1, <2>2, <2>3
  <2>5. (w \ {p}) \ {x} = r /\ (w \ {x}) \ {p} = r /\ r \in SUBSET D
    BY <2>3
  <2>6. g[w \ {p}] = f[x] + g[r]
    <3>1. x \in w \ {p}
      BY <2>2, <2>3
    <3> HIDE DEF p, r
    <3> QED BY <2>4, <2>5, <3>1
  <2>7. g[w \ {x}] = f[p] + g[r]
    <3>1. p \in w \ {x}
      BY <2>2, <2>3
    <3> HIDE DEF p, r
    <3> QED BY <2>4, <2>5, <3>1
  <2>8. f[p] \in Int /\ f[x] \in Int /\ g[r] \in Int
    BY <1>1, <2>2, <2>3
  <2> HIDE DEF p, r
  <2> QED BY <2>2, <2>3, <2>6, <2>7, <2>8
<1>4. \A s \in SUBSET D : \A x \in s : g[s] = f[x] + g[s \ {x}]
  BY <1>3
<1> QED BY <1>1, <1>4 DEF Sums

\* The community module's fold computes them.
LEMMA SumsAre ==
  ASSUME NEW D, IsFiniteSet(D), NEW f \in [D -> Int], NEW g, Sums(g, f, D)
  PROVE  SumFunctionOnSet(f, D) = g[D]
<1> DEFINE It(h) == h = [s \in SUBSET D |-> IF s = {} THEN 0
                                            ELSE f[CHOOSE x \in s : TRUE]
                                                   + h[s \ {CHOOSE x \in s : TRUE}]]
           iter == CHOOSE h : It(h)
<1>1. SumFunctionOnSet(f, D) = iter[D]
  BY DEF SumFunctionOnSet, FoldFunctionOnSet, MapThenFoldSet
<1>2. It(g)
  <2>1. \A s \in SUBSET D : s # {} => (CHOOSE x \in s : TRUE) \in s
    OBVIOUS
  <2> QED BY <2>1 DEF Sums
<1>3. It(iter)
  <2> HIDE DEF It
  <2> QED BY <1>2
<1> HIDE DEF iter
<1> DEFINE W == {s \in SUBSET D : iter[s] # g[s]}
<1>4. W = {}
  <2> SUFFICES ASSUME W # {} PROVE FALSE
    OBVIOUS
  <2>1. PICK w \in W : \A y \in W : y \subseteq w => y = w
    <3>1. W \subseteq SUBSET D
      OBVIOUS
    <3> HIDE DEF W
    <3> QED BY <3>1, MinimalSubset
  <2> DEFINE p == CHOOSE x \in w : TRUE
  <2>2. CASE w = {}
    <3>1. \A h : It(h) => h[{}] = 0
      OBVIOUS
    <3> HIDE DEF It
    <3>2. iter[{}] = 0 /\ g[{}] = 0
      BY <1>2, <1>3, <3>1
    <3> QED BY <2>1, <2>2, <3>2
  <2>3. CASE w # {}
    <3>1. p \in w /\ w \ {p} \in SUBSET D
      BY <2>1, <2>3
    <3>2. w \ {p} \notin W
      BY <2>1, <3>1
    <3>3. iter[w] = f[p] + iter[w \ {p}] /\ g[w] = f[p] + g[w \ {p}]
      BY <1>2, <1>3, <2>1, <2>3
    <3> HIDE DEF p
    <3> QED BY <2>1, <3>1, <3>2, <3>3
  <2> QED BY <2>2, <2>3
<1> QED BY <1>1, <1>4

LEMMA SumType ==
  ASSUME NEW D, IsFiniteSet(D), NEW f \in [D -> Int]
  PROVE  SumFunctionOnSet(f, D) \in Int
<1>1. PICK g : Sums(g, f, D)
  BY SumsExist
<1>2. SumFunctionOnSet(f, D) = g[D]
  BY <1>1, SumsAre
<1>3. D \in SUBSET D
  OBVIOUS
<1> QED BY <1>1, <1>2, <1>3 DEF Sums

\* A change at one place changes the sum by as much.
LEMMA SumChange ==
  ASSUME NEW D, IsFiniteSet(D), NEW f \in [D -> Int], NEW h \in [D -> Int],
         NEW t \in D, \A x \in D \ {t} : h[x] = f[x]
  PROVE  SumFunctionOnSet(h, D) = SumFunctionOnSet(f, D) + (h[t] - f[t])
<1>1. PICK g : Sums(g, f, D)
  BY SumsExist
<1>2. PICK k : Sums(k, h, D)
  BY SumsExist
<1> DEFINE W == {s \in SUBSET (D \ {t}) : k[s] # g[s]}
<1>3. W = {}
  <2> SUFFICES ASSUME W # {} PROVE FALSE
    OBVIOUS
  <2>1. PICK w \in W : \A y \in W : y \subseteq w => y = w
    <3>1. W \subseteq SUBSET D
      OBVIOUS
    <3> HIDE DEF W
    <3> QED BY <3>1, MinimalSubset
  <2>2. w # {}
    BY <1>1, <1>2, <2>1 DEF Sums
  <2>3. PICK x \in w : TRUE
    BY <2>2
  <2>4. w \ {x} \notin W /\ w \ {x} \in SUBSET (D \ {t}) /\ x \in D \ {t} /\ w \in SUBSET D
    BY <2>1
  <2>5. k[w] = h[x] + k[w \ {x}] /\ g[w] = f[x] + g[w \ {x}]
    BY <1>1, <1>2, <2>4 DEF Sums
  <2> QED BY <2>1, <2>4, <2>5
<1>4. k[D \ {t}] = g[D \ {t}] /\ g[D \ {t}] \in Int
  BY <1>1, <1>3 DEF Sums
<1>5. k[D] = h[t] + k[D \ {t}] /\ g[D] = f[t] + g[D \ {t}]
  BY <1>1, <1>2 DEF Sums
<1>6. SumFunctionOnSet(h, D) = k[D] /\ SumFunctionOnSet(f, D) = g[D]
  BY <1>1, <1>2, SumsAre
<1> QED BY <1>4, <1>5, <1>6

\* A sum of natural numbers is one, and no summand is larger.
LEMMA SumOfNaturals ==
  ASSUME NEW D, IsFiniteSet(D), NEW f \in [D -> Nat]
  PROVE  /\ SumFunctionOnSet(f, D) \in Nat
         /\ \A t \in D : f[t] <= SumFunctionOnSet(f, D)
<1>0. f \in [D -> Int]
  OBVIOUS
<1>1. PICK g : Sums(g, f, D)
  BY <1>0, SumsExist
<1> DEFINE W == {s \in SUBSET D : g[s] \notin Nat}
<1>2. W = {}
  <2> SUFFICES ASSUME W # {} PROVE FALSE
    OBVIOUS
  <2>1. PICK w \in W : \A y \in W : y \subseteq w => y = w
    <3>1. W \subseteq SUBSET D
      OBVIOUS
    <3> HIDE DEF W
    <3> QED BY <3>1, MinimalSubset
  <2>2. w # {}
    BY <1>1, <2>1 DEF Sums
  <2>3. PICK x \in w : TRUE
    BY <2>2
  <2>4. w \ {x} \notin W /\ w \ {x} \in SUBSET D /\ x \in D /\ w \in SUBSET D
    BY <2>1
  <2>5. g[w] = f[x] + g[w \ {x}]
    BY <1>1, <2>4 DEF Sums
  <2> QED BY <2>1, <2>4, <2>5
<1>3. SumFunctionOnSet(f, D) = g[D]
  BY <1>0, <1>1, SumsAre
<1>4. \A t \in D : g[D] = f[t] + g[D \ {t}] /\ g[D \ {t}] \in Nat
  BY <1>1, <1>2 DEF Sums
<1>5. g[D] \in Nat
  BY <1>2
<1>6. \A t \in D : f[t] <= g[D]
  <2> TAKE t \in D
  <2>1. f[t] \in Nat /\ g[D \ {t}] \in Nat /\ g[D] = f[t] + g[D \ {t}]
    BY <1>4
  <2> HIDE DEF W
  <2> QED BY ONLY <2>1
<1> QED BY <1>3, <1>5, <1>6

\* A solution of the recursion is the sum.
LEMMA SumIsSolution ==
  ASSUME NEW D, IsFiniteSet(D), NEW f \in [D -> Int], NEW g, Sums(g, f, D)
  PROVE  DOMAIN f = D /\ SumFunction(f) = g[D] /\ SumFunction(f) \in Int
<1>1. SumFunctionOnSet(f, D) = g[D] /\ D \in SUBSET D
  BY SumsAre
<1> QED BY <1>1 DEF SumFunction, Sums

LEMMA SumIsInt ==
  ASSUME NEW D, IsFiniteSet(D), NEW f \in [D -> Int]
  PROVE  SumFunction(f) \in Int
<1>1. PICK g : Sums(g, f, D)
  BY SumsExist
<1> QED BY <1>1, SumIsSolution

LEMMA SumOfZeros ==
  ASSUME NEW D, IsFiniteSet(D), NEW f \in [D -> {0}]
  PROVE  SumFunction(f) = 0
<1> DEFINE g == [s \in SUBSET D |-> 0]
<1>1. f \in [D -> Int] /\ \A x \in D : f[x] = 0
  OBVIOUS
<1>2. Sums(g, f, D)
  BY <1>1 DEF Sums
<1>3. g[D] = 0
  OBVIOUS
<1> HIDE DEF g
<1> QED BY <1>1, <1>2, <1>3, SumIsSolution

LEMMA SumOfSums ==
  ASSUME NEW D, IsFiniteSet(D), NEW f \in [D -> Int], NEW h \in [D -> Int], NEW e \in [D -> Int],
         \A x \in D : e[x] = f[x] + h[x]
  PROVE  SumFunction(e) = SumFunction(f) + SumFunction(h)
<1>1. PICK g : Sums(g, f, D)
  BY SumsExist
<1>2. PICK k : Sums(k, h, D)
  BY SumsExist
<1> DEFINE m == [s \in SUBSET D |-> g[s] + k[s]]
<1>3. g \in [SUBSET D -> Int] /\ k \in [SUBSET D -> Int]
  BY <1>1, <1>2 DEF Sums
<1>4. ASSUME NEW s \in SUBSET D, NEW x \in s
      PROVE  m[s] = e[x] + m[s \ {x}]
  <2>1. /\ g[s] = f[x] + g[s \ {x}] /\ k[s] = h[x] + k[s \ {x}]
        /\ s \ {x} \in SUBSET D /\ x \in D
    BY <1>1, <1>2 DEF Sums
  <2>2. /\ g[s \ {x}] \in Int /\ k[s \ {x}] \in Int /\ f[x] \in Int /\ h[x] \in Int
        /\ m[s] = g[s] + k[s] /\ m[s \ {x}] = g[s \ {x}] + k[s \ {x}] /\ e[x] = f[x] + h[x]
    BY <1>3, <2>1
  <2> HIDE DEF m
  <2> QED BY <2>1, <2>2
<1>5. Sums(m, e, D)
  <2>1. m \in [SUBSET D -> Int] /\ \A s \in SUBSET D : s = {} => m[s] = 0
    BY <1>1, <1>2, <1>3 DEF Sums
  <2> HIDE DEF m
  <2> QED BY <1>4, <2>1 DEF Sums
<1>6. m[D] = g[D] + k[D]
  OBVIOUS
<1> HIDE DEF m
<1> QED BY <1>1, <1>2, <1>5, <1>6, SumIsSolution

\* Renaming the places does not change a sum.
LEMMA SumOfImage ==
  ASSUME NEW D, IsFiniteSet(D), NEW E, IsFiniteSet(E), NEW p \in [D -> E],
         \A x, y \in D : p[x] = p[y] => x = y, \A z \in E : \E x \in D : p[x] = z,
         NEW f \in [E -> Int], NEW h \in [D -> Int], \A x \in D : h[x] = f[p[x]]
  PROVE  SumFunction(h) = SumFunction(f)
<1>1. PICK g : Sums(g, f, E)
  BY SumsExist
<1> DEFINE Image(s) == {p[x] : x \in s}
           k == [s \in SUBSET D |-> g[Image(s)]]
<1>2. \A s \in SUBSET D : Image(s) \in SUBSET E /\ (s = {} => Image(s) = {})
  OBVIOUS
<1>3. ASSUME NEW s \in SUBSET D, NEW x \in s
      PROVE  k[s] = h[x] + k[s \ {x}]
  <2>1. Image(s \ {x}) = Image(s) \ {p[x]} /\ p[x] \in Image(s)
    OBVIOUS
  <2>2. s \ {x} \in SUBSET D /\ Image(s) \in SUBSET E /\ h[x] = f[p[x]]
    BY <1>2
  <2>3. k[s] = g[Image(s)] /\ k[s \ {x}] = g[Image(s \ {x})]
    BY <2>2
  <2> HIDE DEF Image, k
  <2>4. g[Image(s)] = f[p[x]] + g[Image(s) \ {p[x]}]
    BY <1>1, <2>1, <2>2 DEF Sums
  <2> QED BY <2>1, <2>2, <2>3, <2>4
<1>4. k \in [SUBSET D -> Int] /\ \A s \in SUBSET D : s = {} => k[s] = 0
  <2> HIDE DEF Image
  <2> QED BY <1>1, <1>2 DEF Sums
<1>5. k[D] = g[E]
  <2>1. Image(D) = E
    OBVIOUS
  <2> HIDE DEF Image
  <2> QED BY <2>1
<1>6. Sums(k, h, D)
  <2> HIDE DEF k
  <2> QED BY <1>3, <1>4 DEF Sums
<1> HIDE DEF k, Image
<1> QED BY <1>1, <1>5, <1>6, SumIsSolution

LEMMA SumOfParts ==
  ASSUME NEW D, IsFiniteSet(D), NEW A \in SUBSET D, NEW f \in [D -> Int]
  PROVE  SumFunction(f) = SumFunction([x \in A |-> f[x]]) + SumFunction([x \in D \ A |-> f[x]])
<1>1. PICK g : Sums(g, f, D)
  BY SumsExist
<1> DEFINE B == D \ A
           fa == [x \in A |-> f[x]]
           fb == [x \in B |-> f[x]]
           ga == [s \in SUBSET A |-> g[s]]
           gb == [s \in SUBSET B |-> g[s]]
<1>2. IsFiniteSet(A) /\ IsFiniteSet(B) /\ fa \in [A -> Int] /\ fb \in [B -> Int]
  BY FS_Subset
<1>3. Sums(ga, fa, A) /\ Sums(gb, fb, B)
  BY <1>1 DEF Sums
<1>4. ga[A] = g[A] /\ gb[B] = g[B]
  OBVIOUS
<1>5. SumFunction(fa) = g[A] /\ SumFunction(fb) = g[B] /\ SumFunction(f) = g[D]
  <2> HIDE DEF fa, fb, ga, gb, B
  <2> QED BY <1>1, <1>2, <1>3, <1>4, SumIsSolution
<1> DEFINE W == {s \in SUBSET B : g[A \union s] # g[A] + g[s]}
<1>6. W = {}
  <2> SUFFICES ASSUME W # {} PROVE FALSE
    OBVIOUS
  <2>1. PICK w \in W : \A y \in W : y \subseteq w => y = w
    <3>1. W \subseteq SUBSET D
      OBVIOUS
    <3> HIDE DEF W
    <3> QED BY <3>1, MinimalSubset
  <2>2. w # {}
    <3> SUFFICES ASSUME w = {} PROVE FALSE
      OBVIOUS
    <3>1. g[w] = 0 /\ g[A] \in Int /\ A \union w = A
      BY <1>1 DEF Sums
    <3>2. g[A \union w] # g[A] + g[w]
      BY <2>1
    <3> HIDE DEF W
    <3> QED BY <3>1, <3>2
  <2>3. PICK x \in w : TRUE
    BY <2>2
  <2> DEFINE r == w \ {x}
  <2>4. /\ r \notin W /\ r \in SUBSET B /\ w \in SUBSET D /\ A \union w \in SUBSET D
        /\ x \in A \union w /\ (A \union w) \ {x} = A \union r
    BY <2>1
  <2>5. g[A \union r] = g[A] + g[r]
    BY <2>4
  <2>6. g[w] = f[x] + g[r] /\ g[A \union w] = f[x] + g[A \union r]
    <3> HIDE DEF W
    <3>1. g[A \union w] = f[x] + g[(A \union w) \ {x}]
      <4> HIDE DEF r
      <4> QED BY <1>1, <2>4 DEF Sums
    <3> QED BY <1>1, <2>4, <3>1 DEF Sums
  <2>7. g[A] \in Int /\ g[r] \in Int /\ f[x] \in Int
    <3> HIDE DEF W
    <3> QED BY <1>1, <2>4 DEF Sums
  <2>8. g[A \union w] # g[A] + g[w]
    BY <2>1
  <2> HIDE DEF W, r
  <2> QED BY <2>5, <2>6, <2>7, <2>8
<1>7. g[D] = g[A] + g[B]
  <2>1. D = A \union B /\ B \in SUBSET B
    OBVIOUS
  <2>2. B \notin W
    BY <1>6
  <2> QED BY <2>1, <2>2
<1> HIDE DEF W
<1> QED BY <1>5, <1>7

\* a and b are the products by group and by element: k is an element's group, q its
\* quantity, p a group's price and total what a group has of q.
Grouping(D, T, k, q, p, parts, total, a, b) ==
    /\ IsFiniteSet(D) /\ IsFiniteSet(T)
    /\ k \in [D -> T] /\ q \in [D -> Int] /\ p \in [T -> Int] /\ total \in [T -> Int]
    /\ \A t \in T : /\ parts[t] \in [D -> Int] /\ total[t] = SumFunction(parts[t])
                    /\ \A x \in D : parts[t][x] = IF k[x] = t THEN q[x] ELSE 0
    /\ a \in [T -> Int] /\ \A t \in T : a[t] = total[t] * p[t]
    /\ b \in [D -> Int] /\ \A x \in D : b[x] = q[x] * p[k[x]]

LEMMA SumByGroup ==
  ASSUME NEW D, NEW T, NEW k, NEW q, NEW p, NEW parts, NEW total, NEW a, NEW b,
         Grouping(D, T, k, q, p, parts, total, a, b)
  PROVE  SumFunction(a) = SumFunction(b)
<1>0. /\ IsFiniteSet(D) /\ IsFiniteSet(T)
      /\ k \in [D -> T] /\ q \in [D -> Int] /\ p \in [T -> Int] /\ total \in [T -> Int]
  BY DEF Grouping
<1> USE <1>0
<1> DEFINE part(t) == [x \in D |-> IF k[x] = t THEN q[x] ELSE 0]
           e == [x \in D |-> q[x] * p[k[x]]]
           G == [t \in T |-> CHOOSE g : Sums(g, part(t), D)]
           row(s) == [t \in T |-> G[t][s] * p[t]]
<1>1. \A t \in T : part(t) \in [D -> Int]
  OBVIOUS
<1>2. e \in [D -> Int]
  OBVIOUS
<1>3. \A t \in T : Sums(G[t], part(t), D)
  <2> TAKE t \in T
  <2> HIDE DEF part
  <2>1. \E g : Sums(g, part(t), D)
    BY <1>1, SumsExist
  <2> QED BY <2>1
<1> HIDE DEF G
<1>4. PICK h : Sums(h, e, D)
  <2> HIDE DEF e
  <2> QED BY <1>2, SumsExist
<1>5. ASSUME NEW s \in SUBSET D
      PROVE  row(s) \in [T -> Int]
  <2>1. \A t \in T : G[t][s] \in Int
    <3> HIDE DEF part
    <3> QED BY <1>3 DEF Sums
  <2> QED BY <2>1
<1> DEFINE W == {s \in SUBSET D : SumFunction(row(s)) # h[s]}
<1>6. W = {}
  <2> SUFFICES ASSUME W # {} PROVE FALSE
    OBVIOUS
  <2>1. PICK w \in W : \A y \in W : y \subseteq w => y = w
    <3>1. W \subseteq SUBSET D
      OBVIOUS
    <3> HIDE DEF W
    <3> QED BY <3>1, MinimalSubset
  <2>2. w \in SUBSET D /\ SumFunction(row(w)) # h[w]
    BY <2>1
  <2>3. w # {}
    <3> SUFFICES ASSUME w = {} PROVE FALSE
      OBVIOUS
    <3>1. \A t \in T : G[t][w] = 0
      <4> HIDE DEF part
      <4> QED BY <1>3, <2>2 DEF Sums
    <3>2. row(w) \in [T -> {0}] /\ h[w] = 0
      BY <1>4, <2>2, <3>1 DEF Sums
    <3> HIDE DEF row, W
    <3> QED BY <2>2, <3>2, SumOfZeros
  <2>4. PICK x \in w : TRUE
    BY <2>3
  <2> DEFINE r == w \ {x}
             t == k[x]
  <2>5. r \in SUBSET D /\ SumFunction(row(r)) = h[r] /\ x \in D /\ t \in T
    <3>1. r \in SUBSET D /\ r \subseteq w /\ r # w /\ x \in D
      BY <2>2, <2>4
    <3>2. r \notin W
      <4> HIDE DEF W, r
      <4> QED BY <2>1, <3>1
    <3>3. t \in T
      BY <3>1
    <3> HIDE DEF row, r, t
    <3> QED BY <3>1, <3>2, <3>3
  <2>6. \A u \in T : G[u][w] = part(u)[x] + G[u][r] /\ G[u][r] \in Int
    <3> SUFFICES ASSUME NEW u \in T
                 PROVE  G[u][w] = part(u)[x] + G[u][r] /\ G[u][r] \in Int
      OBVIOUS
    <3>1. Sums(G[u], part(u), D)
      BY <1>3
    <3> HIDE DEF part, G
    <3> QED BY <2>2, <2>4, <2>5, <3>1 DEF Sums
  <2>7. part(t)[x] = q[x] /\ \A u \in T \ {t} : part(u)[x] = 0
    BY <2>5
  <2>8. /\ \A u \in T \ {t} : row(w)[u] = row(r)[u]
        /\ row(w)[t] = (q[x] + G[t][r]) * p[t] /\ row(r)[t] = G[t][r] * p[t]
    <3> HIDE DEF part, r, t
    <3>1. \A u \in T \ {t} : G[u][w] = G[u][r]
      BY <2>6, <2>7
    <3>2. G[t][w] = q[x] + G[t][r]
      BY <2>5, <2>6, <2>7
    <3> QED BY <2>5, <3>1, <3>2
  <2>9. SumFunctionOnSet(row(w), T) = SumFunctionOnSet(row(r), T) + (row(w)[t] - row(r)[t])
    <3>1. row(w) \in [T -> Int] /\ row(r) \in [T -> Int]
      BY <1>5, <2>2, <2>5
    <3> HIDE DEF row, r, t
    <3> QED BY <2>5, <2>8, <3>1, SumChange
  <2>10. SumFunction(row(w)) = SumFunction(row(r)) + (row(w)[t] - row(r)[t])
    <3>1. DOMAIN row(w) = T /\ DOMAIN row(r) = T
      OBVIOUS
    <3> HIDE DEF row, r, t
    <3> QED BY <2>9, <3>1 DEF SumFunction
  <2>11. row(w)[t] - row(r)[t] = e[x]
    <3>1. q[x] \in Int /\ G[t][r] \in Int /\ p[t] \in Int
      BY <2>5, <2>6
    <3>2. (q[x] + G[t][r]) * p[t] - G[t][r] * p[t] = q[x] * p[t]
      <4> HIDE DEF r, t
      <4> QED BY <3>1
    <3>3. e[x] = q[x] * p[t]
      BY <2>5
    <3> HIDE DEF row, e, r, t
    <3> QED BY <2>8, <3>2, <3>3
  <2>12. h[w] = e[x] + h[r] /\ h[r] \in Int /\ e[x] \in Int
    <3>1. x \in D /\ r \in SUBSET D /\ e[x] \in Int
      BY <1>2, <2>5
    <3> HIDE DEF e
    <3> QED BY <1>4, <2>2, <3>1 DEF Sums
  <2> HIDE DEF row, e, r, t, W
  <2> QED BY <2>2, <2>5, <2>10, <2>11, <2>12
<1>7. SumFunction(row(D)) = h[D]
  BY <1>6
<1>8. \A t \in T : total[t] = G[t][D]
  <2> TAKE t \in T
  <2>1. total[t] = SumFunction(parts[t]) /\ parts[t] = part(t)
    BY DEF Grouping
  <2> HIDE DEF part
  <2> QED BY <1>1, <1>3, <2>1, SumIsSolution
<1>9. row(D) = a /\ e = b
  BY <1>8 DEF Grouping
<1>10. SumFunction(e) = h[D]
  <2> HIDE DEF e
  <2> QED BY <1>2, <1>4, SumIsSolution
<1> HIDE DEF W, part, row, e
<1> QED BY <1>7, <1>9, <1>10

-------------------------------------------------------------------------------
(* Sums over the elements of a sequence.                                     *)

\* w weighs the elements.
SeqSum(w, s) == SumFunction([i \in DOMAIN s |-> w[s[i]]])

LEMMA SeqView ==
  ASSUME NEW S, NEW s, s \in Seq(S)
  PROVE  /\ Len(s) \in Nat /\ DOMAIN s = 1..Len(s) /\ IsFiniteSet(DOMAIN s)
         /\ s \in [DOMAIN s -> S]
<1>1. Len(s) \in Nat /\ DOMAIN s = 1..Len(s) /\ s \in [1..Len(s) -> S]
  OBVIOUS
<1>2. IsFiniteSet(1..Len(s))
  BY <1>1, FS_Interval
<1> QED BY <1>1, <1>2

LEMMA WeightsType ==
  ASSUME NEW S, NEW w, w \in [S -> Int], NEW s, s \in Seq(S)
  PROVE  [i \in DOMAIN s |-> w[s[i]]] \in [DOMAIN s -> Int]
  BY SeqView

LEMMA SeqSumIsInt ==
  ASSUME NEW S, NEW w, w \in [S -> Int], NEW s, s \in Seq(S)
  PROVE  SeqSum(w, s) \in Int
  BY SeqView, WeightsType, SumIsInt DEF SeqSum

LEMMA SeqSumOfEmpty ==
  ASSUME NEW S, NEW w, w \in [S -> Int]
  PROVE  SeqSum(w, <<>>) = 0
<1> DEFINE f == [i \in DOMAIN <<>> |-> w[<<>>[i]]]
<1>1. f \in [{} -> {0}] /\ IsFiniteSet({})
  BY FS_EmptySet
<1> HIDE DEF f
<1>2. SumFunction(f) = 0
  BY <1>1, SumOfZeros
<1> QED BY <1>2 DEF SeqSum, f

\* Two sequences whose elements weigh the same.
LEMMA SeqSumOfMap ==
  ASSUME NEW s, NEW r, DOMAIN r = DOMAIN s, NEW v, NEW w, \A i \in DOMAIN s : v[r[i]] = w[s[i]]
  PROVE  SeqSum(v, r) = SeqSum(w, s)
<1>1. [i \in DOMAIN r |-> v[r[i]]] = [i \in DOMAIN s |-> w[s[i]]]
  OBVIOUS
<1> QED BY <1>1 DEF SeqSum

\* The weight u is the sum of the weights v and w.
Adds(u, v, w, S) ==
    /\ u \in [S -> Int] /\ v \in [S -> Int] /\ w \in [S -> Int]
    /\ \A e \in S : u[e] = v[e] + w[e]

LEMMA SeqSumOfSums ==
  ASSUME NEW S, NEW u, NEW v, NEW w, Adds(u, v, w, S), NEW s, s \in Seq(S)
  PROVE  SeqSum(u, s) = SeqSum(v, s) + SeqSum(w, s)
<1> DEFINE N == DOMAIN s
           fu == [i \in N |-> u[s[i]]]
           fv == [i \in N |-> v[s[i]]]
           fw == [i \in N |-> w[s[i]]]
<1>1. /\ IsFiniteSet(N) /\ fu \in [N -> Int] /\ fv \in [N -> Int] /\ fw \in [N -> Int]
      /\ \A i \in N : fu[i] = fv[i] + fw[i]
  BY SeqView DEF Adds
<1>2. SumFunction(fu) = SumFunction(fv) + SumFunction(fw)
  <2> HIDE DEF N, fu, fv, fw
  <2> QED BY ONLY <1>1, SumOfSums
<1> QED BY <1>2 DEF SeqSum

LEMMA SeqSumOfConcat ==
  ASSUME NEW S, NEW w, w \in [S -> Int], NEW r, r \in Seq(S), NEW s, s \in Seq(S)
  PROVE  r \o s \in Seq(S) /\ SeqSum(w, r \o s) = SeqSum(w, r) + SeqSum(w, s)
<1> DEFINE m == Len(r)
           n == Len(s)
           D == 1..(m + n)
           A == 1..m
           B == D \ A
           f == [i \in D |-> w[(r \o s)[i]]]
           fa == [i \in A |-> f[i]]
           fb == [i \in B |-> f[i]]
           fs == [i \in 1..n |-> w[s[i]]]
<1>1. /\ m \in Nat /\ n \in Nat /\ DOMAIN r = 1..m /\ DOMAIN s = 1..n
      /\ r \o s \in Seq(S) /\ DOMAIN (r \o s) = D
      /\ \A i \in 1..m : (r \o s)[i] = r[i]
      /\ \A i \in 1..n : (r \o s)[i + m] = s[i]
  OBVIOUS
<1>2. IsFiniteSet(D) /\ IsFiniteSet(B) /\ IsFiniteSet(1..n) /\ A \in SUBSET D
  <2>1. IsFiniteSet(D) /\ IsFiniteSet(1..n)
    BY <1>1, FS_Interval
  <2>2. B \subseteq D /\ A \in SUBSET D
    BY <1>1
  <2> HIDE DEF B, D
  <2> QED BY <2>1, <2>2, FS_Subset
<1>3. /\ SeqSum(w, r \o s) = SumFunction(f) /\ SeqSum(w, s) = SumFunction(fs)
      /\ SeqSum(w, r) = SumFunction(fa)
  <2>1. fa = [i \in 1..m |-> w[r[i]]]
    BY <1>1
  <2>2. SeqSum(w, r) = SumFunction([i \in 1..m |-> w[r[i]]])
    BY <1>1 DEF SeqSum
  <2>3. SeqSum(w, r \o s) = SumFunction(f) /\ SeqSum(w, s) = SumFunction(fs)
    BY ONLY <1>1 DEF SeqSum
  <2> QED BY ONLY <2>1, <2>2, <2>3
<1>4. f \in [D -> Int] /\ fs \in [1..n -> Int]
  <2>1. [i \in DOMAIN (r \o s) |-> w[(r \o s)[i]]] \in [DOMAIN (r \o s) -> Int]
    BY <1>1, WeightsType
  <2>2. [i \in DOMAIN s |-> w[s[i]]] \in [DOMAIN s -> Int]
    BY WeightsType
  <2> QED BY <1>1, <2>1, <2>2
<1>5. SumFunction(f) = SumFunction(fa) + SumFunction(fb)
  <2> HIDE DEF f, D, A
  <2> QED BY ONLY <1>2, <1>4, SumOfParts
<1>6. SumFunction(fs) = SumFunction(fb)
  <2> DEFINE p == [i \in 1..n |-> i + m]
  <2>1. p \in [1..n -> B] /\ \A x, y \in 1..n : p[x] = p[y] => x = y
    BY <1>1
  <2>2. \A z \in B : \E x \in 1..n : p[x] = z
    <3> TAKE z \in B
    <3>1. z - m \in 1..n /\ p[z - m] = z
      BY <1>1
    <3> QED BY <3>1
  <2>3. \A x \in 1..n : fs[x] = fb[p[x]]
    BY <1>1, <2>1
  <2>4. fb \in [B -> Int]
    <3> HIDE DEF f
    <3> QED BY <1>4
  <2> DEFINE N == 1..n
  <2>5. /\ IsFiniteSet(N) /\ IsFiniteSet(B) /\ p \in [N -> B] /\ fb \in [B -> Int]
        /\ fs \in [N -> Int] /\ (\A x, y \in N : p[x] = p[y] => x = y)
        /\ (\A z \in B : \E x \in N : p[x] = z) /\ (\A x \in N : fs[x] = fb[p[x]])
    BY <1>2, <1>4, <2>1, <2>2, <2>3, <2>4
  <2> HIDE DEF p, fs, fb, B, N
  <2> QED BY ONLY <2>5, SumOfImage
<1> QED BY <1>1, <1>3, <1>5, <1>6

LEMMA SeqSumOfOne ==
  ASSUME NEW S, NEW w, w \in [S -> Int], NEW e \in S
  PROVE  <<e>> \in Seq(S) /\ SeqSum(w, <<e>>) = w[e]
<1> DEFINE f == [i \in {1} |-> w[e]]
<1>1. <<e>> \in Seq(S) /\ SeqSum(w, <<e>>) = SumFunction(f)
  <2>1. DOMAIN <<e>> = {1} /\ <<e>>[1] = e
    OBVIOUS
  <2>2. [i \in DOMAIN <<e>> |-> w[<<e>>[i]]] = f
    BY <2>1
  <2> QED BY <2>2 DEF SeqSum
<1>2. PICK g : Sums(g, f, {1})
  BY SumsExist, FS_Singleton
<1>3. SumFunction(f) = g[{1}]
  <2>1. f \in [{1} -> Int]
    OBVIOUS
  <2> HIDE DEF f
  <2> QED BY <1>2, <2>1, SumIsSolution, FS_Singleton
<1>4. g[{1}] = f[1] + g[{1} \ {1}] /\ g[{1} \ {1}] = 0
  BY <1>2 DEF Sums
<1> QED BY <1>1, <1>3, <1>4

LEMMA SeqSumOfAppend ==
  ASSUME NEW S, NEW w, w \in [S -> Int], NEW s, s \in Seq(S), NEW e, e \in S
  PROVE  SeqSum(w, Append(s, e)) = SeqSum(w, s) + w[e]
<1> DEFINE c == <<e>>
<1>1. Append(s, e) = s \o c
  OBVIOUS
<1>2. w \in [S -> Int] /\ s \in Seq(S) /\ c \in Seq(S) /\ SeqSum(w, c) = w[e]
  BY SeqSumOfOne
<1> HIDE DEF c
<1>3. SeqSum(w, s \o c) = SeqSum(w, s) + SeqSum(w, c)
  BY ONLY <1>2, SeqSumOfConcat
<1> QED BY <1>1, <1>2, <1>3

LEMMA SeqSumOfUpdate ==
  ASSUME NEW S, NEW w, w \in [S -> Int], NEW s, s \in Seq(S), NEW i, i \in DOMAIN s, NEW e, e \in S
  PROVE  SeqSum(w, ReplaceAt(s, i, e)) = SeqSum(w, s) + (w[e] - w[s[i]])
<1> DEFINE r == [s EXCEPT ![i] = e]
           f == [j \in DOMAIN s |-> w[s[j]]]
           h == [j \in DOMAIN s |-> w[r[j]]]
<1>1. r \in Seq(S) /\ DOMAIN r = DOMAIN s /\ r[i] = e /\ \A j \in DOMAIN s \ {i} : r[j] = s[j]
  OBVIOUS
<1>2. f \in [DOMAIN s -> Int] /\ h \in [DOMAIN s -> Int] /\ s[i] \in S
  <2> HIDE DEF r
  <2>1. [j \in DOMAIN r |-> w[r[j]]] \in [DOMAIN r -> Int]
    BY <1>1, WeightsType
  <2> QED BY <1>1, <2>1, WeightsType, SeqView
<1>3. /\ SeqSum(w, r) = SumFunctionOnSet(h, DOMAIN s)
      /\ SeqSum(w, s) = SumFunctionOnSet(f, DOMAIN s)
  <2> HIDE DEF r
  <2> QED BY <1>1 DEF SeqSum, SumFunction
<1>4. h[i] = w[e] /\ f[i] = w[s[i]] /\ \A j \in DOMAIN s \ {i} : h[j] = f[j]
  <2> HIDE DEF r
  <2> QED BY <1>1
<1>5. SumFunctionOnSet(h, DOMAIN s) = SumFunctionOnSet(f, DOMAIN s) + (h[i] - f[i])
  <2> DEFINE N == DOMAIN s
  <2>1. /\ IsFiniteSet(N) /\ f \in [N -> Int] /\ h \in [N -> Int] /\ i \in N
        /\ \A j \in N \ {i} : h[j] = f[j]
    BY <1>2, <1>4, SeqView
  <2> HIDE DEF f, h, N
  <2>2. SumFunctionOnSet(h, N) = SumFunctionOnSet(f, N) + (h[i] - f[i])
    BY ONLY <2>1, SumChange
  <2> QED BY <2>2 DEF N
<1> HIDE DEF f, h
<1> QED BY <1>1, <1>2, <1>3, <1>4, <1>5 DEF ReplaceAt

\* What concatenation and RemoveAt do, place by place.
LEMMA ConcatView ==
  ASSUME NEW S, NEW r, r \in Seq(S), NEW s, s \in Seq(S)
  PROVE  /\ r \o s \in Seq(S) /\ Len(r \o s) = Len(r) + Len(s)
         /\ \A j \in 1..Len(r) : (r \o s)[j] = r[j]
         /\ \A j \in 1..Len(s) : (r \o s)[Len(r) + j] = s[j]
  OBVIOUS

LEMMA SameSequence ==
  ASSUME NEW S, NEW r, r \in Seq(S), NEW s, s \in Seq(S), Len(r) = Len(s),
         \A j \in 1..Len(s) : r[j] = s[j]
  PROVE  r = s
  OBVIOUS

LEMMA SubSeqView ==
  ASSUME NEW S, NEW s, s \in Seq(S), NEW from, from \in Nat \ {0}, NEW to, to \in Nat,
         from <= to + 1, to <= Len(s)
  PROVE  /\ SubSeq(s, from, to) \in Seq(S) /\ Len(SubSeq(s, from, to)) = to - from + 1
         /\ \A j \in 1..to - from + 1 : SubSeq(s, from, to)[j] = s[from - 1 + j]
<1> DEFINE r == [j \in 1..to - from + 1 |-> s[from - 1 + j]]
<1>1. SubSeq(s, from, to) = r
  OBVIOUS
<1>2. \A j \in 1..to - from + 1 : s[from - 1 + j] \in S
  <2>1. Len(s) \in Nat /\ \A j \in 1..Len(s) : s[j] \in S
    BY SeqView
  <2>2. \A j \in 1..to - from + 1 : from - 1 + j \in 1..Len(s)
    BY <2>1
  <2> QED BY <2>1, <2>2
<1>3. r \in [1..to - from + 1 -> S] /\ to - from + 1 \in Nat
  BY <1>2
<1>4. r \in Seq(S) /\ Len(r) = to - from + 1
  BY <1>3
<1>5. \A j \in 1..to - from + 1 : r[j] = s[from - 1 + j]
  OBVIOUS
<1> HIDE DEF r
<1> QED BY <1>1, <1>4, <1>5

\* r is s without its i-th element.
Without(r, s, i) == \A j \in DOMAIN r : r[j] = IF j < i THEN s[j] ELSE s[j + 1]

LEMMA RemovalStep ==
  ASSUME NEW S, NEW w, w \in [S -> Int], NEW s, s \in Seq(S), NEW i, i \in DOMAIN s
  PROVE  LET r == RemoveAt(s, i)
         IN  /\ r \in Seq(S) /\ s[i] \in S /\ Len(r) = Len(s) - 1
             /\ Without(r, s, i)
             /\ SeqSum(w, r) = SeqSum(w, s) - w[s[i]]
<1> DEFINE n == Len(s)
           a == SubSeq(s, 1, i - 1)
           b == SubSeq(s, i + 1, n)
           c == <<s[i]>>
           d == a \o c
           r == a \o b
<1>1. n \in Nat /\ DOMAIN s = 1..n /\ i \in 1..n /\ s[i] \in S
  BY SeqView
<1>2. a \in Seq(S) /\ Len(a) = i - 1 /\ \A j \in 1..i - 1 : a[j] = s[j]
  <2> DEFINE m == i - 1
  <2>1. /\ s \in Seq(S) /\ 1 \in Nat \ {0} /\ m \in Nat /\ 1 <= m + 1 /\ m <= Len(s)
        /\ m - 1 + 1 = m /\ \A j \in 1..m : 1 - 1 + j = j
    BY <1>1
  <2> HIDE DEF m
  <2>2. /\ SubSeq(s, 1, m) \in Seq(S) /\ Len(SubSeq(s, 1, m)) = m - 1 + 1
        /\ \A j \in 1..m - 1 + 1 : SubSeq(s, 1, m)[j] = s[1 - 1 + j]
    BY ONLY <2>1, SubSeqView
  <2> DEFINE x == SubSeq(s, 1, m)
  <2>3. x \in Seq(S) /\ Len(x) = m - 1 + 1 /\ \A j \in 1..m - 1 + 1 : x[j] = s[1 - 1 + j]
    BY <2>2
  <2> HIDE DEF x
  <2>4. x \in Seq(S) /\ Len(x) = m /\ \A j \in 1..m : x[j] = s[j]
    BY ONLY <2>1, <2>3
  <2> QED BY <2>4 DEF m, x
<1>3. b \in Seq(S) /\ Len(b) = n - i /\ \A j \in 1..n - i : b[j] = s[i + j]
  <2> DEFINE f == i + 1
  <2>1. /\ s \in Seq(S) /\ f \in Nat \ {0} /\ n \in Nat /\ f <= n + 1 /\ n <= Len(s)
        /\ n - f + 1 = n - i /\ \A j \in 1..n - i : f - 1 + j = i + j
    <3>1. n - f + 1 = n - i /\ \A j \in 1..n - i : f - 1 + j = i + j
      BY ONLY <1>1
    <3> QED BY <1>1, <3>1
  <2> HIDE DEF f, n
  <2>2. /\ SubSeq(s, f, n) \in Seq(S) /\ Len(SubSeq(s, f, n)) = n - f + 1
        /\ \A j \in 1..n - f + 1 : SubSeq(s, f, n)[j] = s[f - 1 + j]
    BY ONLY <2>1, SubSeqView
  <2> DEFINE x == SubSeq(s, f, n)
  <2>3. x \in Seq(S) /\ Len(x) = n - f + 1 /\ \A j \in 1..n - f + 1 : x[j] = s[f - 1 + j]
    BY <2>2
  <2> HIDE DEF x
  <2>4. x \in Seq(S) /\ Len(x) = n - i /\ \A j \in 1..n - i : x[j] = s[i + j]
    BY ONLY <2>1, <2>3
  <2> QED BY <2>4 DEF f, x
<1>4. c \in Seq(S) /\ Len(c) = 1 /\ c[1] = s[i] /\ SeqSum(w, c) = w[s[i]]
  BY <1>1, SeqSumOfOne
<1>5. RemoveAt(s, i) = r
  BY DEF RemoveAt
<1> HIDE DEF a, b, c
<1>6. /\ d \in Seq(S) /\ Len(d) = i /\ \A j \in 1..i : d[j] = s[j]
  <2>0. a \in Seq(S) /\ c \in Seq(S)
    BY <1>2, <1>4
  <2>1. /\ a \o c \in Seq(S) /\ Len(a \o c) = Len(a) + Len(c)
        /\ \A j \in 1..Len(a) : (a \o c)[j] = a[j]
        /\ \A j \in 1..Len(c) : (a \o c)[Len(a) + j] = c[j]
    BY ONLY <2>0, ConcatView
  <2>2. /\ d \in Seq(S) /\ Len(d) = Len(a) + Len(c)
        /\ \A j \in 1..Len(a) : d[j] = a[j]
        /\ \A j \in 1..Len(c) : d[Len(a) + j] = c[j]
    BY <2>1
  <2> HIDE DEF d, n
  <2>3. d[i] = s[i]
    <3>1. Len(a) + 1 = i /\ 1 \in 1..Len(c)
      BY <1>1, <1>2, <1>4
    <3>2. d[Len(a) + 1] = c[1]
      BY <2>2, <3>1
    <3> QED BY <1>4, <3>1, <3>2
  <2>4. Len(d) = i
    BY <1>1, <1>2, <1>4, <2>2
  <2>5. ASSUME NEW j \in 1..i PROVE d[j] = s[j]
    <3>1. j = i \/ j \in 1..i - 1
      BY <1>1
    <3> QED BY <1>2, <2>2, <2>3, <3>1
  <2> QED BY <2>2, <2>4, <2>5
<1>7. /\ r \in Seq(S) /\ Len(r) = n - 1
      /\ \A j \in 1..n - 1 : r[j] = IF j < i THEN s[j] ELSE s[j + 1]
  <2>0. a \in Seq(S) /\ b \in Seq(S)
    BY <1>2, <1>3
  <2>1. /\ a \o b \in Seq(S) /\ Len(a \o b) = Len(a) + Len(b)
        /\ \A j \in 1..Len(a) : (a \o b)[j] = a[j]
        /\ \A j \in 1..Len(b) : (a \o b)[Len(a) + j] = b[j]
    BY ONLY <2>0, ConcatView
  <2>2. /\ r \in Seq(S) /\ Len(r) = Len(a) + Len(b)
        /\ \A j \in 1..Len(a) : r[j] = a[j]
        /\ \A j \in 1..Len(b) : r[Len(a) + j] = b[j]
    BY <2>1
  <2> HIDE DEF r, n
  <2>3. ASSUME NEW j \in 1..n - 1
        PROVE  r[j] = IF j < i THEN s[j] ELSE s[j + 1]
    <3>1. CASE j < i
      <4>1. j \in 1..i - 1
        BY <1>1, <3>1
      <4>2. r[j] = a[j] /\ a[j] = s[j]
        BY <1>2, <2>2, <4>1
      <4> QED BY <3>1, <4>2
    <3>2. CASE ~(j < i)
      <4> DEFINE m == j - (i - 1)
      <4>1. m \in 1..n - i /\ Len(a) + m = j /\ i + m = j + 1
        <5>1. i \in Int /\ n \in Int /\ j \in 1..n - 1 /\ Len(a) = i - 1
          BY <1>1, <1>2
        <5> QED BY ONLY <3>2, <5>1
      <4> HIDE DEF m
      <4>2. r[Len(a) + m] = b[m] /\ b[m] = s[i + m]
        BY <1>3, <2>2, <4>1
      <4> QED BY <3>2, <4>1, <4>2
    <3> QED BY <3>1, <3>2
  <2>4. Len(r) = n - 1
    BY <1>1, <1>2, <1>3, <2>2
  <2> QED BY <2>2, <2>3, <2>4
<1>8. s = d \o b
  <2> HIDE DEF d
  <2>0. d \in Seq(S) /\ b \in Seq(S)
    BY <1>3, <1>6
  <2>1. /\ d \o b \in Seq(S) /\ Len(d \o b) = Len(d) + Len(b)
        /\ \A j \in 1..Len(d) : (d \o b)[j] = d[j]
        /\ \A j \in 1..Len(b) : (d \o b)[Len(d) + j] = b[j]
    BY ONLY <2>0, ConcatView
  <2> DEFINE e == d \o b
  <2>2. /\ e \in Seq(S) /\ Len(e) = Len(d) + Len(b)
        /\ \A j \in 1..Len(d) : e[j] = d[j]
        /\ \A j \in 1..Len(b) : e[Len(d) + j] = b[j]
    BY <2>1
  <2> HIDE DEF e, n
  <2>3. ASSUME NEW j \in 1..n
        PROVE  e[j] = s[j]
    <3>1. CASE j <= i
      <4>1. j \in 1..i
        BY <1>1, <3>1
      <4> QED BY <1>6, <2>2, <4>1
    <3>2. CASE j > i
      <4> DEFINE m == j - i
      <4>1. m \in 1..n - i /\ i + m = j
        BY <1>1, <3>2
      <4> HIDE DEF m
      <4>2. e[Len(d) + m] = b[m] /\ b[m] = s[i + m]
        BY <1>3, <2>2, <4>1
      <4> QED BY <1>6, <4>1, <4>2
    <3> QED BY <1>1, <3>1, <3>2
  <2>4. Len(e) = n
    BY <1>1, <1>3, <1>6, <2>2
  <2>5. s \in Seq(S) /\ e \in Seq(S) /\ Len(e) = Len(s) /\ \A j \in 1..Len(s) : e[j] = s[j]
    BY <2>2, <2>3, <2>4 DEF n
  <2>6. e = s
    BY ONLY <2>5, SameSequence
  <2> QED BY <2>6 DEF e
<1>9. SeqSum(w, s) = SeqSum(w, a) + w[s[i]] + SeqSum(w, b)
  <2>1. w \in [S -> Int] /\ a \in Seq(S) /\ c \in Seq(S)
    BY <1>2, <1>4
  <2>2. SeqSum(w, a \o c) = SeqSum(w, a) + SeqSum(w, c)
    BY ONLY <2>1, SeqSumOfConcat
  <2>3. w \in [S -> Int] /\ d \in Seq(S) /\ b \in Seq(S)
    BY <1>3, <1>6
  <2>4. SeqSum(w, d) = SeqSum(w, a) + SeqSum(w, c)
    BY <2>2
  <2> HIDE DEF d
  <2>5. SeqSum(w, d \o b) = SeqSum(w, d) + SeqSum(w, b)
    BY ONLY <2>3, SeqSumOfConcat
  <2> QED BY <1>4, <1>8, <2>4, <2>5
<1>10. SeqSum(w, r) = SeqSum(w, a) + SeqSum(w, b)
  <2>1. w \in [S -> Int] /\ a \in Seq(S) /\ b \in Seq(S)
    BY <1>2, <1>3
  <2> QED BY ONLY <2>1, SeqSumOfConcat
<1>11. SeqSum(w, a) \in Int /\ SeqSum(w, b) \in Int /\ w[s[i]] \in Int
  BY <1>1, <1>2, <1>3, SeqSumIsInt
<1> HIDE DEF r, d
<1>12. SeqSum(w, r) = SeqSum(w, s) - w[s[i]]
  BY <1>9, <1>10, <1>11
<1>13. DOMAIN r = 1..n - 1
  BY <1>1, <1>7
<1> QED BY <1>1, <1>5, <1>7, <1>12, <1>13 DEF Without

LEMMA SeqSumOfRemoval ==
  ASSUME NEW S, NEW w, w \in [S -> Int], NEW s, s \in Seq(S), NEW i, i \in DOMAIN s
  PROVE  SeqSum(w, RemoveAt(s, i)) = SeqSum(w, s) - w[s[i]]
  BY RemovalStep

LEMMA RemovalView ==
  ASSUME NEW S, NEW s, s \in Seq(S), NEW i, i \in DOMAIN s
  PROVE  /\ RemoveAt(s, i) \in Seq(S) /\ DOMAIN RemoveAt(s, i) = 1..Len(s) - 1
         /\ \A j \in 1..Len(s) - 1 : RemoveAt(s, i)[j] = IF j < i THEN s[j] ELSE s[j + 1]
<1> DEFINE w == [x \in S |-> 0]
           r == RemoveAt(s, i)
<1>1. w \in [S -> Int] /\ s \in Seq(S) /\ i \in DOMAIN s
  OBVIOUS
<1> HIDE DEF w
<1>2. r \in Seq(S) /\ Len(r) = Len(s) - 1
  BY ONLY <1>1, RemovalStep
<1>3. Without(r, s, i)
  BY ONLY <1>1, RemovalStep
<1>4. DOMAIN r = 1..Len(r)
  <2> HIDE DEF r
  <2> QED BY <1>2
<1> QED BY <1>2, <1>3, <1>4 DEF Without

-------------------------------------------------------------------------------
(* Folds that take the last element of a sequence first.                     *)

LEMMA MaxOfFinite ==
  ASSUME NEW D, IsFiniteSet(D), D \subseteq Int, D # {}
  PROVE  Max(D) \in D /\ \A y \in D : y <= Max(D)
<1> DEFINE HasMax(s) == \E x \in s : \A y \in s : y <= x
           W == {s \in SUBSET D : s # {} /\ ~HasMax(s)}
<1>1. W = {}
  <2> SUFFICES ASSUME W # {} PROVE FALSE
    OBVIOUS
  <2>1. PICK w \in W : \A y \in W : y \subseteq w => y = w
    <3>1. IsFiniteSet(D) /\ W \subseteq SUBSET D /\ W # {}
      OBVIOUS
    <3> HIDE DEF W
    <3> QED BY ONLY <3>1, MinimalSubset
  <2>2. w \in SUBSET D /\ w # {} /\ ~HasMax(w)
    BY <2>1
  <2>3. PICK x \in w : TRUE
    BY <2>2
  <2>4. w \ {x} # {}
    <3> SUFFICES ASSUME w \ {x} = {} PROVE FALSE
      OBVIOUS
    <3>1. w = {x} /\ x <= x
      BY <2>2, <2>3
    <3> QED BY <2>2, <3>1
  <2>5. HasMax(w \ {x})
    <3>1. w \ {x} \notin W /\ w \ {x} \in SUBSET D
      <4> HIDE DEF W
      <4> QED BY <2>1, <2>2, <2>3
    <3> HIDE DEF HasMax
    <3> QED BY <2>4, <3>1
  <2>6. PICK m \in w \ {x} : \A y \in w \ {x} : y <= m
    BY <2>5
  <2>7. m \in Int /\ x \in Int /\ w \subseteq Int
    BY <2>2
  <2>8. HasMax(w)
    <3>1. CASE x <= m
      <4>1. \A y \in w : y <= m
        BY <2>6, <2>7, <3>1
      <4> QED BY <2>6, <4>1
    <3>2. CASE ~(x <= m)
      <4>1. \A y \in w : y <= x
        <5> TAKE y \in w
        <5>1. CASE y = x
          BY <2>7, <5>1
        <5>2. CASE y # x
          <6>1. y <= m /\ y \in Int
            BY <2>6, <2>7, <5>2
          <6> QED BY <2>7, <3>2, <6>1
        <5> QED BY <5>1, <5>2
      <4> QED BY <2>3, <4>1
    <3> QED BY <3>1, <3>2
  <2> QED BY <2>2, <2>8
<1>2. HasMax(D)
  BY <1>1
<1>3. \E x \in D : \A y \in D : x >= y
  BY <1>2
<1>4. Max(D) \in D /\ \A y \in D : Max(D) >= y
  BY <1>3 DEF Max
<1>5. Max(D) \in Int
  BY <1>4
<1> QED BY <1>4, <1>5

LastPick(D) == [s \in (SUBSET D) \ {{}} |-> Max(s)]

LEMMA LastPicks ==
  ASSUME NEW n, n \in Nat
  PROVE  /\ IsFiniteSet(1..n) /\ Picks(LastPick(1..n), 1..n)
         /\ \A s \in SUBSET (1..n) : s # {} => LastPick(1..n)[s] = Max(s)
<1>1. IsFiniteSet(1..n)
  BY FS_Interval
<1>2. ASSUME NEW s \in SUBSET (1..n), s # {}
      PROVE  Max(s) \in s
  <2> DEFINE N == 1..n
  <2>0. IsFiniteSet(N) /\ s \in SUBSET N /\ s \subseteq Int /\ s # {}
    BY <1>1, <1>2
  <2> HIDE DEF N
  <2>1. IsFiniteSet(s)
    BY ONLY <2>0, FS_Subset
  <2> QED BY ONLY <2>0, <2>1, MaxOfFinite
<1>3. \A s \in (SUBSET (1..n)) \ {{}} : Max(s) \in s
  BY <1>2
<1> QED BY <1>1, <1>3 DEF Picks, LastPick

\* The last element of 1..n is n.
LEMMA LastOfInterval ==
  ASSUME NEW n, n \in Nat
  PROVE  Max(1..n + 1) = n + 1 /\ (1..n + 1) \ {n + 1} = 1..n
<1>1. n + 1 \in 1..n + 1 /\ \A y \in 1..n + 1 : y <= n + 1
  OBVIOUS
<1>2. Max(1..n + 1) \in 1..n + 1 /\ Max(1..n + 1) >= n + 1
  BY <1>1 DEF Max
<1> QED BY <1>2

\* h follows the recursion as long as its values stay in V.
Follows(h, D, V, base, c, F) ==
    \A s \in SUBSET D :
        /\ s = {} => h[s] = base
        /\ s # {} /\ h[s \ {c[s]}] \in V => h[s] = F[c[s]][h[s \ {c[s]}]]

LEMMA RecursionIs ==
  ASSUME NEW D, IsFiniteSet(D), NEW V, NEW base, NEW c, NEW F, Picks(c, D),
         NEW g, Solves(g, D, V, base, c, F), NEW h, Follows(h, D, V, base, c, F)
  PROVE  \A s \in SUBSET D : h[s] = g[s]
<1> DEFINE W == {s \in SUBSET D : h[s] # g[s]}
<1>1. SUFFICES ASSUME W # {} PROVE FALSE
  OBVIOUS
<1>2. PICK w \in W : \A y \in W : y \subseteq w => y = w
  <2>1. W \subseteq SUBSET D
    OBVIOUS
  <2> HIDE DEF W
  <2> QED BY <1>1, <2>1, MinimalSubset
<1>3. w \in SUBSET D /\ h[w] # g[w]
  BY <1>2
<1>4. w # {}
  BY <1>3 DEF Solves, Follows
<1> DEFINE p == c[w]
<1>5. p \in w /\ w \ {p} \in SUBSET D
  BY <1>3, <1>4 DEF Picks
<1>6. h[w \ {p}] = g[w \ {p}]
  BY <1>2, <1>5
<1>7. g[w \ {p}] \in V /\ g[w] = F[p][g[w \ {p}]]
  BY <1>3, <1>4, <1>5 DEF Solves
<1>8. h[w] = F[p][h[w \ {p}]]
  BY <1>3, <1>4, <1>6, <1>7 DEF Follows
<1> QED BY <1>3, <1>6, <1>7, <1>8

\* The values of such a recursion, one place after the other.
Traces(t, n, V, base, F) ==
    /\ t \in [0..n -> V] /\ t[0] = base
    /\ \A i \in 1..n : t[i - 1] \in V /\ t[i] = F[i][t[i - 1]]

LEMMA TraceExists ==
  ASSUME NEW n, n \in Nat, NEW V, NEW base, base \in V, NEW F, F \in [1..n -> [V -> V]]
  PROVE  \E g, t : /\ Solves(g, 1..n, V, base, LastPick(1..n), F)
                   /\ Traces(t, n, V, base, F) /\ t[n] = g[1..n]
                   /\ \A i \in 0..n : t[i] = g[1..i]
<1> DEFINE D == 1..n
           c == LastPick(D)
<1>1. /\ IsFiniteSet(D) /\ Picks(c, D)
      /\ \A s \in SUBSET D : s # {} => c[s] = Max(s)
  BY LastPicks
<1>2. PICK g : Solves(g, D, V, base, c, F)
  <2>1. base \in V /\ F \in [D -> [V -> V]]
    OBVIOUS
  <2> HIDE DEF D, c
  <2> QED BY ONLY <1>1, <2>1, SolutionExists
<1> DEFINE t == [i \in 0..n |-> g[1..i]]
<1>3. \A i \in 0..n : 1..i \in SUBSET D /\ t[i] = g[1..i]
  OBVIOUS
<1>4. t \in [0..n -> V]
  <2>1. g \in [SUBSET D -> V]
    BY <1>2 DEF Solves
  <2> HIDE DEF D
  <2> QED BY <1>3, <2>1
<1>5. t[0] = base
  <2>1. 1..0 = {} /\ 0 \in 0..n
    OBVIOUS
  <2>2. {} \in SUBSET D /\ t[0] = g[{}]
    BY <1>3, <2>1
  <2> HIDE DEF t, c, D
  <2> QED BY <1>2, <2>2 DEF Solves
<1>6. ASSUME NEW i \in 1..n
      PROVE  t[i - 1] \in V /\ t[i] = F[i][t[i - 1]]
  <2>1. i - 1 \in Nat /\ i - 1 + 1 = i /\ i - 1 \in 0..n /\ i \in 0..n
    OBVIOUS
  <2>2. Max(1..i) = i /\ (1..i) \ {i} = 1..i - 1
    BY <2>1, LastOfInterval
  <2>3. 1..i \in SUBSET D /\ 1..i # {}
    <3>1. 1 \in 1..i
      OBVIOUS
    <3> QED BY <1>3, <2>1, <3>1
  <2>4. c[1..i] = i
    <3> HIDE DEF D, c
    <3> QED BY <1>1, <2>2, <2>3
  <2>5. g[1..i] = F[i][g[1..i - 1]]
    <3> HIDE DEF D, c
    <3> QED BY <1>2, <2>2, <2>3, <2>4 DEF Solves
  <2> HIDE DEF D, c
  <2> QED BY <1>3, <1>4, <2>1, <2>5
<1>7. Traces(t, n, V, base, F)
  <2> HIDE DEF t
  <2> QED BY <1>4, <1>5, <1>6 DEF Traces
<1>8. n \in 0..n
  OBVIOUS
<1> HIDE DEF t, c, D
<1>9. t[n] = g[D]
  BY <1>3, <1>8 DEF D
<1> QED BY <1>2, <1>3, <1>7, <1>9 DEF D, c

\* A fold whose values at the first places are those of the recursion is its trace:
\* h is the recursive function the fold is defined by.
LEMMA FoldIsTrace ==
  ASSUME NEW n, n \in Nat, NEW V, NEW base, NEW F, NEW g, NEW t,
         Solves(g, 1..n, V, base, LastPick(1..n), F), t[n] = g[1..n],
         NEW h, Follows(h, 1..n, V, base, LastPick(1..n), F)
  PROVE  h[1..n] = t[n]
<1> DEFINE D == 1..n
<1>1. IsFiniteSet(D) /\ Picks(LastPick(D), D) /\ D \in SUBSET D
  BY LastPicks
<1> DEFINE c == LastPick(D)
<1>2. Solves(g, D, V, base, c, F) /\ Follows(h, D, V, base, c, F)
  OBVIOUS
<1> HIDE DEF D, c
<1>3. \A s \in SUBSET D : h[s] = g[s]
  BY ONLY <1>1, <1>2, RecursionIs DEF c
<1> QED BY <1>1, <1>3 DEF D

-------------------------------------------------------------------------------
(* Sums over the elements of a finite set, listed in some order.             *)

LEMMA ListView ==
  ASSUME NEW T, IsFiniteSet(T)
  PROVE  LET s == SetToSeq(T)
             n == Cardinality(T)
         IN  /\ n \in Nat /\ s \in [1..n -> T] /\ IsInjective(s)
             /\ \A x \in T : \E i \in 1..n : s[i] = x
<1> DEFINE n == Cardinality(T)
           D == 1..n
           s == SetToSeq(T)
<1>1. n \in Nat /\ ExistsBijection(D, T)
  BY FS_CardinalityType
<1>2. PICK f : f \in Bijection(D, T)
  BY <1>1 DEF ExistsBijection
<1>3. f \in [D -> T] /\ IsInjective(f)
  BY <1>2 DEF Bijection, Injection, IsInjective
<1>4. s \in [D -> T] /\ IsInjective(s)
  BY <1>3 DEF SetToSeq
<1>5. Cardinality(D) = n
  BY <1>1, FS_Interval
<1>6. s \in Injection(D, T)
  BY <1>4 DEF Injection, IsInjective
<1>7. s \in Surjection(D, T)
  <2> HIDE DEF s, n, D
  <2> QED BY <1>5, <1>6, FS_Injection DEF n
<1>8. \A x \in T : \E i \in D : s[i] = x
  <2> HIDE DEF s, n, D
  <2> QED BY <1>7 DEF Surjection
<1> QED BY <1>1, <1>4, <1>8

\* An injective sequence has as many elements as its range.
LEMMA InjectiveLength ==
  ASSUME NEW S, NEW s, s \in Seq(S), IsInjective(s)
  PROVE  IsFiniteSet(ToSet(s)) /\ Cardinality(ToSet(s)) = Len(s)
<1> DEFINE n == Len(s)
           D == 1..n
           T == ToSet(s)
<1>1. n \in Nat /\ DOMAIN s = D /\ s \in [D -> S] /\ T = {s[i] : i \in D}
  BY SeqView DEF ToSet
<1>2. s \in [D -> T]
  <2> HIDE DEF n, D
  <2> QED BY <1>1
<1>3. \A x \in T : \E i \in D : s[i] = x
  <2> HIDE DEF n, D, T
  <2> QED BY <1>1
<1>4. s \in Surjection(D, T) /\ s \in Injection(D, T)
  <2> HIDE DEF n, D, T
  <2> QED BY <1>1, <1>2, <1>3 DEF Surjection, Injection, IsInjective
<1>5. IsFiniteSet(D) /\ Cardinality(D) = n
  BY <1>1, FS_Interval
<1> HIDE DEF n, D, T
<1>6. IsFiniteSet(T) /\ (Cardinality(T) = Cardinality(D) <=> s \in Injection(D, T))
  BY <1>4, <1>5, FS_Surjection
<1> QED BY <1>4, <1>5, <1>6 DEF T, n

LEMMA SumOfConstant ==
  ASSUME NEW D, IsFiniteSet(D), NEW k, k \in Int, NEW f, f \in [D -> {k}]
  PROVE  SumFunction(f) = k * Cardinality(D)
<1> DEFINE g == [s \in SUBSET D |-> k * Cardinality(s)]
<1>1. \A s \in SUBSET D : IsFiniteSet(s) /\ Cardinality(s) \in Nat
  BY FS_Subset, FS_CardinalityType
<1>2. f \in [D -> Int]
  OBVIOUS
<1>3. g \in [SUBSET D -> Int]
  BY <1>1
<1>4. g[{}] = 0
  BY FS_EmptySet
<1>5. ASSUME NEW s \in SUBSET D, NEW x \in s
      PROVE  g[s] = f[x] + g[s \ {x}]
  <2>1. Cardinality(s \ {x}) = Cardinality(s) - 1 /\ s \ {x} \in SUBSET D
    BY <1>1, FS_RemoveElement
  <2>2. f[x] = k
    OBVIOUS
  <2> DEFINE m == Cardinality(s)
  <2>3. m \in Nat /\ g[s] = k * m /\ g[s \ {x}] = k * (m - 1)
    BY <1>1, <2>1
  <2> HIDE DEF g, m
  <2>4. k * m = k + k * (m - 1)
    BY <2>3
  <2> QED BY <2>2, <2>3, <2>4
<1>6. Sums(g, f, D)
  <2> HIDE DEF g
  <2> QED BY <1>3, <1>4, <1>5 DEF Sums
<1>7. SumFunction(f) = g[D]
  <2> HIDE DEF g
  <2> QED BY <1>2, <1>6, SumIsSolution
<1> QED BY <1>7

-------------------------------------------------------------------------------
(* Recursion over the natural numbers.                                       *)

LEMMA LeastNatural ==
  ASSUME NEW S, S \subseteq Nat, S # {}
  PROVE  \E m \in S : \A k \in S : m <= k
<1>1. PICK m \in S : \A k \in S : ~(<<k, m>> \in OpToRel(<, Nat))
  BY NatLessThanWellFounded, WFMin
<1>2. \A k \in S : ~(k < m)
  BY <1>1 DEF OpToRel
<1>3. \A k \in S : m \in Nat /\ k \in Nat
  OBVIOUS
<1> QED BY <1>2, <1>3

\* Induction over the places of a list.
LEMMA PlaceInduction ==
  ASSUME NEW n, n \in Nat, NEW G, 0 \in G, \A i \in 1..n : i - 1 \in G => i \in G
  PROVE  0..n \subseteq G
<1> DEFINE Bad == {i \in 0..n : i \notin G}
<1>1. SUFFICES ASSUME Bad # {} PROVE FALSE
  OBVIOUS
<1>2. PICK m \in Bad : \A k \in Bad : m <= k
  <2>1. Bad \subseteq Nat
    OBVIOUS
  <2> HIDE DEF Bad
  <2> QED BY <1>1, <2>1, LeastNatural
<1>3. m \in 1..n /\ m - 1 \in 0..n /\ ~(m <= m - 1)
  OBVIOUS
<1>4. m - 1 \in G
  BY <1>2, <1>3
<1> QED BY <1>3, <1>4

\* G gives the value at a place from the values at the places before it.
Progressive(G, n, V) ==
    /\ G \in [1..n -> [[0..n -> V] -> V]]
    /\ \A i \in 1..n : \A f, h \in [0..n -> V] :
          (\A j \in 0..i - 1 : f[j] = h[j]) => G[i][f] = G[i][h]

\* s is what the recursion defines.
Courses(s, n, V, v, G) ==
    s \in [0..n -> V] /\ s[0] = v /\ \A i \in 1..n : s[i] = G[i][s]

LEMMA CourseOfValues ==
  ASSUME NEW n, n \in Nat, NEW V, NEW v, v \in V, NEW G, Progressive(G, n, V)
  PROVE  \E s : Courses(s, n, V, v, G)
<1> DEFINE N == 0..n
           W == [N -> V]
           base == [j \in N |-> v]
           F == [i \in 1..n |-> [f \in W |-> [f EXCEPT ![i] = G[i][f]]]]
<1>1. base \in W /\ F \in [1..n -> [W -> W]]
  <2>1. \A i \in 1..n, f \in W : G[i][f] \in V /\ i \in N
    BY DEF Progressive
  <2>2. \A i \in 1..n, f \in W : [f EXCEPT ![i] = G[i][f]] \in W
    BY <2>1
  <2> QED BY <2>2
<1>2. PICK t : Traces(t, n, W, base, F)
  <2> HIDE DEF W, base, F
  <2> QED BY <1>1, TraceExists
<1>3. /\ t \in [N -> W] /\ t[0] = base
      /\ \A i \in 1..n : t[i - 1] \in W /\ t[i] = F[i][t[i - 1]]
  BY <1>2 DEF Traces
<1>4. \A i \in 1..n : t[i] = [t[i - 1] EXCEPT ![i] = G[i][t[i - 1]]]
  <2> HIDE DEF W
  <2> QED BY <1>3
<1>5. \A i \in 1..n, k \in N : t[i][k] = IF k = i THEN G[i][t[i - 1]] ELSE t[i - 1][k]
  <2>1. \A i \in 1..n : t[i - 1] \in [N -> V]
    BY <1>3
  <2> HIDE DEF W, N, base, F
  <2> QED BY <1>4, <2>1
<1>6. ASSUME NEW i \in N, NEW j \in i..n
      PROVE  t[j][i] = t[i][i]
  <2> DEFINE Bad == {k \in i..n : t[k][i] # t[i][i]}
  <2>1. SUFFICES ASSUME Bad # {} PROVE FALSE
    OBVIOUS
  <2>2. Bad \subseteq Nat
    OBVIOUS
  <2>3. PICK m \in Bad : \A k \in Bad : m <= k
    <3> HIDE DEF Bad
    <3> QED BY <2>1, <2>2, LeastNatural
  <2>4. m \in i..n /\ t[m][i] # t[i][i] /\ m # i
    BY <2>3
  <2>5. m \in 1..n /\ m - 1 \in i..n /\ m - 1 < m /\ ~(m <= m - 1)
    BY <2>4
  <2>6. m - 1 \notin Bad
    <3> HIDE DEF Bad
    <3> QED BY <2>3, <2>5
  <2>7. t[m][i] = t[m - 1][i]
    <3> HIDE DEF Bad, N
    <3> QED BY <1>5, <2>4, <2>5
  <2> QED BY <2>4, <2>5, <2>6, <2>7
<1> DEFINE s == t[n]
<1>7. n \in N /\ 0 \in N /\ n \in 0..n
  OBVIOUS
<1>8. s \in [N -> V]
  <2> HIDE DEF N
  <2> QED BY <1>3, <1>7
<1>9. s[0] = v
  <2>1. s[0] = t[0][0] /\ base[0] = v
    <3> HIDE DEF base
    <3>1. s[0] = t[0][0]
      BY <1>6, <1>7
    <3> QED BY <1>7, <3>1 DEF base
  <2> HIDE DEF base, s
  <2> QED BY <1>3, <2>1
<1>10. ASSUME NEW i \in 1..n
       PROVE  s[i] = G[i][s]
  <2>1. i \in N /\ n \in i..n /\ i - 1 \in N
    OBVIOUS
  <2>2. s[i] = t[i][i]
    <3> HIDE DEF N
    <3> QED BY <1>6, <2>1
  <2>3. t[i][i] = G[i][t[i - 1]]
    <3> HIDE DEF N
    <3> QED BY <1>5, <2>1
  <2>4. ASSUME NEW k \in 0..i - 1
        PROVE  t[i - 1][k] = s[k]
    <3>1. k \in N /\ i - 1 \in k..n /\ n \in k..n
      BY <2>1
    <3>2. t[i - 1][k] = t[k][k] /\ s[k] = t[k][k]
      <4> HIDE DEF N
      <4> QED BY <1>6, <3>1
    <3> QED BY <3>2
  <2>5. t[i - 1] \in [N -> V]
    BY <1>3, <2>1
  <2> HIDE DEF s
  <2>6. G[i][t[i - 1]] = G[i][s]
    BY <1>8, <2>4, <2>5 DEF Progressive
  <2> QED BY <2>2, <2>3, <2>6
<1> HIDE DEF s, N, W, base, F
<1> QED BY <1>8, <1>9, <1>10 DEF N, Courses
-------------------------------------------------------------------------------
(* Dividing by a constant, and counting the weekdays among days.             *)

LEMMA DivisionBySpan ==
  ASSUME NEW span \in {3, 7, 21, 30, 60}, NEW x \in Nat, NEW y \in Nat, x <= y
  PROVE  /\ x \div span \in Nat /\ (x \div span) * span <= x
         /\ x < (x \div span) * span + span /\ x \div span <= y \div span
<1>1. CASE span = 3
  BY <1>1
<1>2. CASE span = 7
  BY <1>2
<1>3. CASE span = 21
  BY <1>3
<1>4. CASE span = 30
  BY <1>4
<1>5. CASE span = 60
  BY <1>5
<1> QED BY <1>1, <1>2, <1>3, <1>4, <1>5

IsWeekday(d) == d % 7 < 5

\* How many of the n days from a are weekdays.
Weekdays(a, n) == Cardinality({o \in 0..n - 1 : IsWeekday(a + o)})

LEMMA WeekdaysType ==
  ASSUME NEW a, a \in Int, NEW n, n \in Nat
  PROVE  /\ IsFiniteSet({o \in 0..n - 1 : IsWeekday(a + o)}) /\ Weekdays(a, n) \in Nat
<1>1. IsFiniteSet(0..n - 1)
  BY FS_Interval
<1>2. {o \in 0..n - 1 : IsWeekday(a + o)} \subseteq 0..n - 1
  OBVIOUS
<1> DEFINE D == 0..n - 1
           W == {o \in D : IsWeekday(a + o)}
<1> HIDE DEF D
<1>3. IsFiniteSet(W)
  BY <1>1, <1>2, FS_Subset DEF D
<1>4. Cardinality(W) \in Nat
  BY <1>3, FS_CardinalityType
<1> QED BY <1>3, <1>4 DEF Weekdays, D

\* Two of seven days are no weekdays.
LEMMA TwoDaysOff ==
  ASSUME NEW a, a \in Int, NEW n, n \in Nat
  PROVE  \E u \in n..n + 6, v \in n..n + 6 :
            /\ u # v
            /\ \A o \in n..n + 6 : IsWeekday(a + o) <=> o # u /\ o # v
<1> DEFINE r == (a + n) % 7
<1>1. r \in 0..6 /\ \A j \in 0..6 : (a + (n + j)) % 7 = IF r + j < 7 THEN r + j ELSE r + j - 7
  OBVIOUS
<1> DEFINE p == IF r <= 5 THEN 5 - r ELSE 6
           q == 6 - r
<1>2. /\ p \in 0..6 /\ q \in 0..6 /\ p # q
      /\ \A j \in 0..6 : (IF r + j < 7 THEN r + j ELSE r + j - 7) < 5 <=> j # p /\ j # q
  BY <1>1
<1> HIDE DEF r, p, q
<1>3. \A o \in n..n + 6 : o - n \in 0..6 /\ n + (o - n) = o
  OBVIOUS
<1>4. n + p \in n..n + 6 /\ n + q \in n..n + 6 /\ n + p # n + q
  BY <1>2
<1>5. ASSUME NEW o \in n..n + 6
      PROVE  IsWeekday(a + o) <=> o # n + p /\ o # n + q
  <2> DEFINE j == o - n
  <2>1. j \in 0..6 /\ o = n + j
    BY <1>3
  <2> HIDE DEF j
  <2>2. (a + o) % 7 = IF r + j < 7 THEN r + j ELSE r + j - 7
    BY <1>1, <2>1
  <2>3. IsWeekday(a + o) <=> j # p /\ j # q
    BY <1>2, <2>1, <2>2 DEF IsWeekday
  <2>4. (j # p <=> o # n + p) /\ (j # q <=> o # n + q)
    BY <1>2, <2>1
  <2> QED BY <2>3, <2>4
<1> QED BY <1>4, <1>5

LEMMA WeekHasFive ==
  ASSUME NEW a, a \in Int, NEW n, n \in Nat
  PROVE  /\ IsFiniteSet({o \in n..n + 6 : IsWeekday(a + o)})
         /\ Cardinality({o \in n..n + 6 : IsWeekday(a + o)}) = 5
<1> DEFINE D == n..n + 6
<1>1. PICK u \in D, v \in D : u # v /\ \A o \in D : IsWeekday(a + o) <=> o # u /\ o # v
  BY TwoDaysOff
<1>2. IsFiniteSet(D) /\ Cardinality(D) = 7
  BY FS_Interval
<1> HIDE DEF D
<1>3. {o \in D : IsWeekday(a + o)} = (D \ {u}) \ {v}
  BY <1>1
<1>4. IsFiniteSet(D \ {u}) /\ Cardinality(D \ {u}) = 6
  <2>1. /\ IsFiniteSet(D \ {u})
        /\ Cardinality(D \ {u}) = IF u \in D THEN Cardinality(D) - 1 ELSE Cardinality(D)
    BY <1>2, FS_RemoveElement
  <2> QED BY <1>2, <2>1
<1> DEFINE E == D \ {u}
<1>5. v \in E
  BY <1>1
<1> HIDE DEF E
<1>6. IsFiniteSet(E \ {v}) /\ Cardinality(E \ {v}) = 5
  <2>1. /\ IsFiniteSet(E \ {v})
        /\ Cardinality(E \ {v}) = IF v \in E THEN Cardinality(E) - 1 ELSE Cardinality(E)
    BY <1>4, FS_RemoveElement DEF E
  <2> QED BY <1>4, <1>5, <2>1 DEF E
<1> QED BY <1>3, <1>6 DEF E, D

LEMMA OneWeekMore ==
  ASSUME NEW a, a \in Int, NEW n, n \in Nat
  PROVE  Weekdays(a, n + 7) = Weekdays(a, n) + 5
<1> DEFINE A == {o \in 0..n - 1 : IsWeekday(a + o)}
           B == {o \in n..n + 6 : IsWeekday(a + o)}
           C == {o \in 0..(n + 7) - 1 : IsWeekday(a + o)}
<1>1. IsFiniteSet(A) /\ Cardinality(A) \in Nat
  BY WeekdaysType DEF Weekdays
<1>2. IsFiniteSet(B) /\ Cardinality(B) = 5
  BY WeekHasFive
<1>3. C = A \union B /\ A \intersect B = {}
  <2>1. \A o : o \in 0..(n + 7) - 1 <=> o \in 0..n - 1 \/ o \in n..n + 6
    OBVIOUS
  <2>2. \A o : ~(o \in 0..n - 1 /\ o \in n..n + 6)
    OBVIOUS
  <2> QED BY <2>1, <2>2
<1>4. Weekdays(a, n + 7) = Cardinality(C) /\ Weekdays(a, n) = Cardinality(A)
  BY DEF Weekdays
<1> HIDE DEF A, B, C
<1>5. Cardinality(A \union B)
        = Cardinality(A) + Cardinality(B) - Cardinality(A \intersect B)
  BY <1>1, <1>2, FS_Union
<1>6. Cardinality({}) = 0
  BY FS_EmptySet
<1>7. Cardinality(A \intersect B) = 0
  BY <1>3, <1>6
<1>8. Cardinality(A \union B) = Cardinality(A) + 5
  BY <1>1, <1>2, <1>5, <1>7
<1> QED BY <1>3, <1>4, <1>8

LEMMA WeeksMore ==
  ASSUME NEW a, a \in Int, NEW r, r \in Nat
  PROVE  \A q \in Nat : Weekdays(a, 7 * q + r) = 5 * q + Weekdays(a, r)
<1> DEFINE Bad == {q \in Nat : Weekdays(a, 7 * q + r) # 5 * q + Weekdays(a, r)}
<1>1. SUFFICES ASSUME Bad # {} PROVE FALSE
  OBVIOUS
<1>2. PICK q \in Bad : \A k \in Bad : q <= k
  <2> HIDE DEF Bad
  <2>1. Bad \subseteq Nat
    BY DEF Bad
  <2> QED BY <1>1, <2>1, LeastNatural
<1>3. q \in Nat /\ Weekdays(a, 7 * q + r) # 5 * q + Weekdays(a, r)
  OBVIOUS
<1>4. Weekdays(a, r) \in Nat
  BY WeekdaysType
<1>5. q # 0
  <2>1. 7 * 0 + r = r /\ 5 * 0 + Weekdays(a, r) = Weekdays(a, r)
    BY <1>4
  <2>2. q = 0 => 7 * q + r = r /\ 5 * q + Weekdays(a, r) = Weekdays(a, r)
    BY <2>1
  <2> QED BY <1>3, <2>2
<1>6. q - 1 \in Nat /\ q - 1 \notin Bad
  <2>1. q - 1 \in Nat /\ ~(q <= q - 1)
    BY <1>3, <1>5
  <2> HIDE DEF Bad
  <2> QED BY <1>2, <2>1
<1> DEFINE p == q - 1
           n == 7 * p + r
<1>7. Weekdays(a, n) = 5 * p + Weekdays(a, r) /\ n \in Nat
  BY <1>6
<1>8. n + 7 = 7 * q + r
  BY <1>3
<1>9. Weekdays(a, n + 7) = Weekdays(a, n) + 5
  <2> HIDE DEF n
  <2> QED BY <1>7, OneWeekMore
<1>10. 5 * p + Weekdays(a, r) + 5 = 5 * q + Weekdays(a, r)
  BY <1>3, <1>4
<1> HIDE DEF p, n
<1> QED BY <1>3, <1>7, <1>8, <1>9, <1>10

LEMMA FewDaysOff ==
  ASSUME NEW a, a \in Int, NEW r, r \in 0..6
  PROVE  Weekdays(a, r) + 2 >= r
<1> DEFINE A == {o \in 0..r - 1 : IsWeekday(a + o)}
           B == {o \in 0..0 + 6 : IsWeekday(a + o)}
           C == r..6
<1>1. IsFiniteSet(A) /\ Cardinality(A) \in Nat /\ Weekdays(a, r) = Cardinality(A)
  <2>1. r \in Nat
    OBVIOUS
  <2> QED BY <2>1, WeekdaysType DEF Weekdays
<1>2. IsFiniteSet(B) /\ Cardinality(B) = 5
  BY WeekHasFive
<1>3. IsFiniteSet(C) /\ Cardinality(C) = 7 - r
  BY FS_Interval
<1>4. B \subseteq A \union C
  OBVIOUS
<1> HIDE DEF A, B, C
<1>5. /\ IsFiniteSet(A \union C)
      /\ Cardinality(A \union C)
           = Cardinality(A) + Cardinality(C) - Cardinality(A \intersect C)
  BY <1>1, <1>3, FS_Union
<1>6. Cardinality(B) <= Cardinality(A \union C)
  BY <1>4, <1>5, FS_Subset
<1>7. Cardinality(A \intersect C) \in Nat
  <2>1. IsFiniteSet(A \intersect C)
    BY <1>1, FS_Subset
  <2> QED BY <2>1, FS_CardinalityType
<1> QED BY <1>1, <1>2, <1>3, <1>5, <1>6, <1>7

LEMMA DaysInWindow ==
  ASSUME NEW a, a \in Int, NEW n, n \in Nat
  PROVE  Cardinality({d \in a..(a + n) - 1 : IsWeekday(d)}) = Weekdays(a, n)
<1> DEFINE S == {o \in 0..n - 1 : IsWeekday(a + o)}
           T == {d \in a..(a + n) - 1 : IsWeekday(d)}
           f == [o \in S |-> a + o]
<1>1. f \in [S -> T]
  OBVIOUS
<1>2. \A o, p \in S : f[o] = f[p] => o = p
  OBVIOUS
<1>3. \A d \in T : d - a \in S /\ f[d - a] = d
  <2>1. \A d \in T : d - a \in 0..n - 1 /\ a + (d - a) = d /\ IsWeekday(d)
    OBVIOUS
  <2> QED BY <2>1
<1> HIDE DEF f, S, T
<1>4. f \in Bijection(S, T)
  <2>1. f \in Injection(S, T)
    BY <1>1, <1>2 DEF Injection, IsInjective
  <2>2. f \in Surjection(S, T)
    BY <1>1, <1>3 DEF Surjection
  <2> QED BY <2>1, <2>2 DEF Bijection
<1>5. IsFiniteSet(S)
  BY WeekdaysType DEF S
<1>6. Cardinality(T) = Cardinality(S)
  BY <1>4, <1>5, FS_Bijection DEF ExistsBijection
<1> QED BY <1>6 DEF S, T, Weekdays

LEMMA ManyWeekdays ==
  ASSUME NEW a, a \in Int, NEW n, n \in Nat
  PROVE  Weekdays(a, n) \in Nat /\ 7 * Weekdays(a, n) + 10 >= 5 * n
<1> DEFINE r == n % 7
           q == n \div 7
<1>1. r \in 0..6 /\ r \in Nat /\ q \in Nat /\ 7 * q + r = n
  OBVIOUS
<1> HIDE DEF r, q
<1>2. Weekdays(a, n) = 5 * q + Weekdays(a, r) /\ Weekdays(a, r) \in Nat
  BY <1>1, WeeksMore, WeekdaysType
<1>3. Weekdays(a, r) + 2 >= r
  BY <1>1, FewDaysOff
<1> DEFINE N == Weekdays(a, n)
           R == Weekdays(a, r)
<1> HIDE DEF N, R
<1>4. N = 5 * q + R /\ R \in Nat /\ R + 2 >= r
  BY <1>2, <1>3 DEF N, R
<1>5. N \in Nat /\ 7 * N + 10 >= 5 * n
  BY <1>1, <1>4
<1> QED BY <1>5 DEF N

\* Two weekdays among any five days.
LEMMA TwoWeekdaysSoon ==
  ASSUME NEW a, a \in Int
  PROVE  \E u \in a..a + 4, v \in a..a + 4 : u # v /\ IsWeekday(u) /\ IsWeekday(v)
<1>1. a % 7 \in 0..6
  OBVIOUS
<1>2. CASE a % 7 \in 0..3
  <2>1. a % 7 < 5 /\ (a + 1) % 7 < 5 /\ a # a + 1
    BY <1>2
  <2>2. a \in a..a + 4 /\ a + 1 \in a..a + 4
    OBVIOUS
  <2> QED BY <2>1, <2>2 DEF IsWeekday
<1>3. CASE a % 7 = 4
  <2>1. a % 7 < 5 /\ (a + 3) % 7 < 5 /\ a # a + 3
    BY <1>3
  <2>2. a \in a..a + 4 /\ a + 3 \in a..a + 4
    OBVIOUS
  <2> QED BY <2>1, <2>2 DEF IsWeekday
<1>4. CASE a % 7 = 5
  <2>1. (a + 2) % 7 < 5 /\ (a + 3) % 7 < 5 /\ a + 2 # a + 3
    BY <1>4
  <2>2. a + 2 \in a..a + 4 /\ a + 3 \in a..a + 4
    OBVIOUS
  <2> QED BY <2>1, <2>2 DEF IsWeekday
<1>5. CASE a % 7 = 6
  <2>1. (a + 1) % 7 < 5 /\ (a + 2) % 7 < 5 /\ a + 1 # a + 2
    BY <1>5
  <2>2. a + 1 \in a..a + 4 /\ a + 2 \in a..a + 4
    OBVIOUS
  <2> QED BY <2>1, <2>2 DEF IsWeekday
<1> QED BY <1>1, <1>2, <1>3, <1>4, <1>5

-------------------------------------------------------------------------------
(* The elements of a finite set in an order B, by how many come before them. *)

IsOrder(B, D) ==
    /\ \A x \in D : <<x, x>> \notin B
    /\ \A x, y, z \in D : <<x, y>> \in B /\ <<y, z>> \in B => <<x, z>> \in B
    /\ \A x, y \in D : x = y \/ <<x, y>> \in B \/ <<y, x>> \in B

ThoseUpTo(B, D, x) == {y \in D : y = x \/ <<y, x>> \in B}

PlaceOf(B, D, x) == Cardinality(ThoseUpTo(B, D, x))

LEMMA PlacesIncrease ==
  ASSUME NEW D, IsFiniteSet(D), NEW B, IsOrder(B, D)
  PROVE  /\ \A x \in D : PlaceOf(B, D, x) \in 1..Cardinality(D)
         /\ \A x, y \in D : <<x, y>> \in B => PlaceOf(B, D, x) < PlaceOf(B, D, y)
<1>1. ASSUME NEW x \in D
      PROVE  /\ IsFiniteSet(ThoseUpTo(B, D, x)) /\ PlaceOf(B, D, x) \in 1..Cardinality(D)
             /\ x \in ThoseUpTo(B, D, x)
  <2> DEFINE U == ThoseUpTo(B, D, x)
  <2>1. U \subseteq D /\ x \in U
    BY DEF ThoseUpTo
  <2> HIDE DEF U
  <2>2. IsFiniteSet(U) /\ Cardinality(U) <= Cardinality(D)
    BY <2>1, FS_Subset
  <2>3. Cardinality(U) \in Nat /\ Cardinality(D) \in Nat
    BY <2>2, FS_CardinalityType
  <2>4. Cardinality(U) # 0
    BY <2>1, <2>2, FS_EmptySet
  <2> QED BY <2>1, <2>2, <2>3, <2>4 DEF PlaceOf, U
<1>2. ASSUME NEW x \in D, NEW y \in D, <<x, y>> \in B
      PROVE  PlaceOf(B, D, x) < PlaceOf(B, D, y)
  <2> DEFINE U == ThoseUpTo(B, D, x)
             V == ThoseUpTo(B, D, y)
  <2>1. U \subseteq V /\ y \in V /\ y \notin U
    BY <1>2 DEF ThoseUpTo, IsOrder
  <2>2. IsFiniteSet(V) /\ IsFiniteSet(U)
    BY <1>1
  <2>3. Cardinality(U) \in Nat /\ Cardinality(V) \in Nat
    BY <2>2, FS_CardinalityType
  <2> HIDE DEF U, V
  <2>4. Cardinality(U) <= Cardinality(V) /\ (Cardinality(V) = Cardinality(U) => V = U)
    BY <2>1, <2>2, FS_Subset
  <2>5. Cardinality(U) < Cardinality(V)
    BY <2>1, <2>3, <2>4
  <2> QED BY <2>5 DEF PlaceOf, U, V
<1> QED BY <1>1, <1>2

\* Every place is taken.
LEMMA PlacesAreTaken ==
  ASSUME NEW D, IsFiniteSet(D), NEW B, IsOrder(B, D)
  PROVE  \A j \in 1..Cardinality(D) : \E x \in D : PlaceOf(B, D, x) = j
<1> DEFINE n == Cardinality(D)
           T == 1..n
           f == [x \in D |-> PlaceOf(B, D, x)]
<1>1. n \in Nat /\ IsFiniteSet(T) /\ Cardinality(T) = n
  <2>1. n \in Nat
    BY FS_CardinalityType
  <2> HIDE DEF n
  <2> QED BY <2>1, FS_Interval
<1>2. f \in [D -> T] /\ \A x, y \in D : f[x] = f[y] => x = y
  <2>1. \A x \in D : f[x] \in T /\ f[x] \in Int
    BY PlacesIncrease
  <2>2. ASSUME NEW x \in D, NEW y \in D, f[x] = f[y] PROVE x = y
    <3>1. <<x, y>> \in B => f[x] < f[y]
      BY PlacesIncrease
    <3>2. <<y, x>> \in B => f[y] < f[x]
      BY PlacesIncrease
    <3>3. x = y \/ <<x, y>> \in B \/ <<y, x>> \in B
      BY DEF IsOrder
    <3> HIDE DEF f
    <3> QED BY <2>1, <2>2, <3>1, <3>2, <3>3
  <2> QED BY <2>1, <2>2
<1> HIDE DEF f, T, n
<1>3. f \in Injection(D, T)
  BY <1>2 DEF Injection, IsInjective
<1>4. f \in Surjection(D, T)
  BY <1>1, <1>3, FS_Injection DEF n
<1> QED BY <1>4 DEF Surjection, f, T, n

\* The list of the elements by their places.
ListsAll(s, B, D) ==
    /\ s \in Seq(D) /\ Len(s) = Cardinality(D)
    /\ \A i, j \in 1..Len(s) : i < j => <<s[i], s[j]>> \in B
    /\ \A x \in D : \E j \in 1..Len(s) : s[j] = x

LEMMA ListOfPlaces ==
  ASSUME NEW D, IsFiniteSet(D), NEW B, IsOrder(B, D), NEW s,
         s = [j \in 1..Cardinality(D) |-> CHOOSE x \in D : PlaceOf(B, D, x) = j]
  PROVE  ListsAll(s, B, D)
<1> DEFINE n == Cardinality(D)
<1>1. n \in Nat
  BY FS_CardinalityType
<1>2. ASSUME NEW j \in 1..n PROVE s[j] \in D /\ PlaceOf(B, D, s[j]) = j
  <2>1. s[j] = CHOOSE x \in D : PlaceOf(B, D, x) = j
    OBVIOUS
  <2>2. \E x \in D : PlaceOf(B, D, x) = j
    BY PlacesAreTaken
  <2> QED BY <2>1, <2>2
<1>3. s \in Seq(D) /\ Len(s) = n /\ DOMAIN s = 1..n
  <2> HIDE DEF n
  <2>1. s = [j \in 1..n |-> s[j]]
    BY DEF n
  <2>2. s \in [1..n -> D]
    BY <1>2, <2>1
  <2> QED BY ONLY <1>1, <2>2
<1>4. \A x, y \in D : PlaceOf(B, D, x) = PlaceOf(B, D, y) => x = y
  <2> SUFFICES ASSUME NEW x \in D, NEW y \in D, PlaceOf(B, D, x) = PlaceOf(B, D, y) PROVE x = y
    OBVIOUS
  <2>1. PlaceOf(B, D, x) \in Int /\ PlaceOf(B, D, y) \in Int
    BY PlacesIncrease
  <2>2. <<x, y>> \in B => PlaceOf(B, D, x) < PlaceOf(B, D, y)
    BY PlacesIncrease
  <2>3. <<y, x>> \in B => PlaceOf(B, D, y) < PlaceOf(B, D, x)
    BY PlacesIncrease
  <2>4. x = y \/ <<x, y>> \in B \/ <<y, x>> \in B
    BY DEF IsOrder
  <2> QED BY <2>1, <2>2, <2>3, <2>4
<1>5. ASSUME NEW i \in 1..n, NEW j \in 1..n, i < j PROVE <<s[i], s[j]>> \in B
  <2>1. s[i] \in D /\ s[j] \in D /\ PlaceOf(B, D, s[i]) = i /\ PlaceOf(B, D, s[j]) = j
    BY <1>2
  <2>2. s[i] # s[j]
    BY <1>5, <2>1
  <2>3. ~(<<s[j], s[i]>> \in B)
    <3>1. <<s[j], s[i]>> \in B => PlaceOf(B, D, s[j]) < PlaceOf(B, D, s[i])
      BY <2>1, PlacesIncrease
    <3> HIDE DEF n
    <3> QED BY <1>1, <1>5, <2>1, <3>1
  <2> QED BY <2>1, <2>2, <2>3 DEF IsOrder
<1>6. ASSUME NEW x \in D PROVE \E j \in 1..n : s[j] = x
  <2>1. PlaceOf(B, D, x) \in 1..n
    BY PlacesIncrease
  <2> HIDE DEF n
  <2> QED BY <1>2, <1>4, <2>1
<1> HIDE DEF n
<1>7. \A i, j \in 1..Len(s) : i < j => <<s[i], s[j]>> \in B
  BY <1>3, <1>5
<1>8. \A x \in D : \E j \in 1..Len(s) : s[j] = x
  BY <1>3, <1>6
<1> QED BY <1>3, <1>7, <1>8 DEF ListsAll, n

-------------------------------------------------------------------------------
(* Sequences, place by place: what grows by one, what is left of it, and     *)
(* what a function makes of it.                                              *)

LEMMA ElementsOf ==
  ASSUME NEW S, NEW s, s \in Seq(S)
  PROVE  \A i \in DOMAIN s : s[i] \in S
OBVIOUS

LEMMA AppendView ==
  ASSUME NEW S, NEW q, q \in Seq(S), NEW x, x \in S
  PROVE  /\ Append(q, x) \in Seq(S) /\ Len(Append(q, x)) = Len(q) + 1
         /\ \A j \in 1..Len(q) : Append(q, x)[j] = q[j]
         /\ Append(q, x)[Len(q) + 1] = x
OBVIOUS

LEMMA TailView ==
  ASSUME NEW S, NEW q, q \in Seq(S), q # <<>>
  PROVE  /\ Tail(q) \in Seq(S) /\ Len(Tail(q)) = Len(q) - 1 /\ Head(q) = q[1]
         /\ \A j \in 1..Len(q) - 1 : Tail(q)[j] = q[j + 1]
OBVIOUS

LEMMA MapView ==
  ASSUME NEW S, NEW n, n \in Nat, NEW f, f = [i \in 1..n |-> f[i]], \A i \in 1..n : f[i] \in S
  PROVE  f \in Seq(S) /\ Len(f) = n
<1>1. f \in [1..n -> S]
  OBVIOUS
<1> QED BY ONLY <1>1, n \in Nat

LEMMA GrownByOne ==
  ASSUME NEW S, NEW q, q \in Seq(S), NEW r, r \in Seq(S), Len(r) = Len(q) + 1,
         \A j \in 1..Len(q) : r[j] = q[j], NEW x, r[Len(q) + 1] = x
  PROVE  r = Append(q, x)
<1>1. Len(q) \in Nat /\ Len(q) + 1 \in 1..Len(r)
  OBVIOUS
<1>2. x \in S
  BY <1>1
<1>3. /\ Append(q, x) \in Seq(S) /\ Len(Append(q, x)) = Len(r)
      /\ \A j \in 1..Len(q) : Append(q, x)[j] = q[j]
      /\ Append(q, x)[Len(q) + 1] = x
  BY <1>2, AppendView
<1>4. \A j \in 1..Len(r) : r[j] = Append(q, x)[j]
  <2>1. \A j \in 1..Len(r) : j \in 1..Len(q) \/ j = Len(q) + 1
    BY <1>1
  <2> QED BY <1>3, <2>1
<1> QED BY <1>3, <1>4, SameSequence

LEMMA IntsGrownByOne ==
  ASSUME NEW q, q \in Seq(Int), NEW r, r \in Seq(Int), NEW x,
         Len(r) = Len(q) + 1 /\ r[Len(q) + 1] = x /\ \A j \in 1..Len(q) : r[j] = q[j]
  PROVE  r = Append(q, x)
<1> DEFINE Z == Int
<1>1. q \in Seq(Z) /\ r \in Seq(Z)
  OBVIOUS
<1> HIDE DEF Z
<1> QED BY <1>1, GrownByOne

LEMMA NaturalsAreIntegers ==
  ASSUME NEW q, q \in Seq(Nat)
  PROVE  q \in Seq(Int)
<1>1. Len(q) \in Nat /\ q = [i \in 1..Len(q) |-> q[i]] /\ \A i \in 1..Len(q) : q[i] \in Nat
  OBVIOUS
<1>2. \A i \in 1..Len(q) : q[i] \in Int
  BY <1>1
<1> DEFINE n == Len(q)
<1> HIDE DEF n
<1>3. q \in [1..n -> Int] /\ n \in Nat
  BY <1>1, <1>2 DEF n
<1> QED BY ONLY <1>3

\* A sequence grows by its elements.
LEMMA PrefixGrows ==
  ASSUME NEW S, NEW q, q \in Seq(S), NEW k, k \in 1..Len(q)
  PROVE  /\ SubSeq(q, 1, k - 1) \in Seq(S) /\ q[k] \in S
         /\ SubSeq(q, 1, k) = Append(SubSeq(q, 1, k - 1), q[k])
<1>1. Len(q) \in Nat /\ k \in Nat /\ k - 1 \in Nat /\ k <= Len(q) /\ k - 1 <= Len(q)
  OBVIOUS
<1>2. q[k] \in S
  OBVIOUS
<1>3. \A j \in {k - 1, k} : /\ SubSeq(q, 1, j) \in Seq(S) /\ Len(SubSeq(q, 1, j)) = j
                            /\ \A i \in 1..j : SubSeq(q, 1, j)[i] = q[i]
  <2>1. ASSUME NEW j, j \in Nat, j <= Len(q)
        PROVE  /\ SubSeq(q, 1, j) \in Seq(S) /\ Len(SubSeq(q, 1, j)) = j
               /\ \A i \in 1..j : SubSeq(q, 1, j)[i] = q[i]
    <3>1. /\ SubSeq(q, 1, j) \in Seq(S) /\ Len(SubSeq(q, 1, j)) = (j - 1) + 1
          /\ \A i \in 1..(j - 1) + 1 : SubSeq(q, 1, j)[i] = q[(1 - 1) + i]
      BY <2>1, SubSeqView
    <3> QED BY <2>1, <3>1
  <2> QED BY <1>1, <2>1
<1> DEFINE a == SubSeq(q, 1, k - 1)
           b == SubSeq(q, 1, k)
<1>4. a \in Seq(S) /\ b \in Seq(S) /\ Len(a) = k - 1 /\ Len(b) = k
  BY <1>3
<1>5. Len(b) = Len(a) + 1 /\ b[Len(a) + 1] = q[k] /\ \A i \in 1..Len(a) : b[i] = a[i]
  <2>1. \A i \in 1..k - 1 : a[i] = q[i] /\ i \in 1..k
    BY <1>1, <1>3
  <2>2. \A i \in 1..k : b[i] = q[i]
    BY <1>3
  <2>3. (k - 1) + 1 = k /\ k \in 1..k
    BY <1>1
  <2> HIDE DEF a, b
  <2> QED BY <1>4, <2>1, <2>2, <2>3
<1> HIDE DEF a, b
<1>6. b = Append(a, q[k])
  BY <1>4, <1>5, GrownByOne
<1> QED BY <1>2, <1>4, <1>6 DEF a, b

\* The last m of a sequence, or all there are.
LastUpTo(q, m) == IF Len(q) <= m THEN q ELSE SubSeq(q, Len(q) - m + 1, Len(q))

\* l is what is left of n places of q.
IsLast(l, S, q, n, m) ==
    /\ l \in Seq(S) /\ Len(l) = IF n <= m THEN n ELSE m
    /\ n <= m => \A j \in 1..n : l[j] = q[j]
    /\ m < n => \A j \in 1..m : l[j] = q[(n - m) + j]

LEMMA LastView ==
  ASSUME NEW S, NEW q, q \in Seq(S), NEW m, m \in Nat
  PROVE  IsLast(LastUpTo(q, m), S, q, Len(q), m)
<1> DEFINE n == Len(q)
           a == (n - m) + 1
<1>1. n \in Nat
  OBVIOUS
<1>2. CASE n <= m
  BY <1>1, <1>2 DEF LastUpTo, IsLast
<1>3. CASE m < n
  <2>1. a \in Nat \ {0} /\ a <= n + 1 /\ n <= n /\ (n - a) + 1 = m /\ a - 1 = n - m
    BY <1>1, <1>3
  <2>2. LastUpTo(q, m) = SubSeq(q, a, n)
    BY <1>1, <1>3 DEF LastUpTo
  <2> HIDE DEF n, a
  <2>3. /\ SubSeq(q, a, n) \in Seq(S) /\ Len(SubSeq(q, a, n)) = (n - a) + 1
        /\ \A j \in 1..(n - a) + 1 : SubSeq(q, a, n)[j] = q[(a - 1) + j]
    <3>1. a \in Nat \ {0} /\ n \in Nat /\ a <= n + 1 /\ n <= Len(q)
      BY <1>1, <2>1 DEF n
    <3> QED BY <3>1, SubSeqView
  <2>4. ~(n <= m)
    BY <1>1, <1>3
  <2> QED BY <2>1, <2>2, <2>3, <2>4 DEF n, IsLast
<1> QED BY <1>1, <1>2, <1>3

\* w of every element of q.
Mapped(w, q) == [i \in DOMAIN q |-> w[q[i]]]

\* Mapping w over q, and over one element x more.
MappedTo(T, w, q, x) ==
    /\ Mapped(w, q) \in Seq(T) /\ Len(Mapped(w, q)) = Len(q)
    /\ \A i \in 1..Len(q) : Mapped(w, q)[i] = w[q[i]]
    /\ Mapped(w, Append(q, x)) = Append(Mapped(w, q), w[x])

LEMMA MappedGrows ==
  ASSUME NEW S, NEW T, NEW w, w \in [S -> T], NEW q, q \in Seq(S), NEW x, x \in S
  PROVE  MappedTo(T, w, q, x)
<1>1. ASSUME NEW r, r \in Seq(S)
      PROVE  /\ Mapped(w, r) \in Seq(T) /\ Len(Mapped(w, r)) = Len(r)
             /\ \A i \in 1..Len(r) : Mapped(w, r)[i] = w[r[i]]
  <2> DEFINE f == Mapped(w, r)
             n == Len(r)
  <2>1. n \in Nat /\ DOMAIN r = 1..n /\ \A i \in 1..n : r[i] \in S
    <3>1. n \in Nat /\ DOMAIN r = 1..n
      OBVIOUS
    <3>2. \A i \in DOMAIN r : r[i] \in S
      BY <1>1, ElementsOf
    <3> QED BY <3>1, <3>2
  <2> HIDE DEF n
  <2>2. f = [i \in 1..n |-> f[i]] /\ \A i \in 1..n : f[i] = w[r[i]]
    BY <2>1 DEF Mapped
  <2> HIDE DEF f
  <2>3. \A i \in 1..n : f[i] \in T
    BY <2>1, <2>2
  <2>4. f \in Seq(T) /\ Len(f) = n
    BY <2>1, <2>2, <2>3, MapView
  <2> QED BY <2>2, <2>4 DEF f, n
<1> DEFINE r == Append(q, x)
           f == Mapped(w, q)
           g == Mapped(w, r)
           n == Len(q)
<1>2. r \in Seq(S) /\ Len(r) = n + 1 /\ r[n + 1] = x /\ \A j \in 1..n : r[j] = q[j]
  BY AppendView
<1> HIDE DEF r
<1>3. /\ f \in Seq(T) /\ Len(f) = n /\ \A i \in 1..n : f[i] = w[q[i]]
      /\ g \in Seq(T) /\ Len(g) = n + 1 /\ \A i \in 1..n + 1 : g[i] = w[r[i]]
  <2>1. g \in Seq(T) /\ Len(g) = Len(r) /\ \A i \in 1..Len(r) : g[i] = w[r[i]]
    BY <1>1, <1>2
  <2> HIDE DEF g, n
  <2>2. g \in Seq(T) /\ Len(g) = n + 1 /\ \A i \in 1..n + 1 : g[i] = w[r[i]]
    BY <1>2, <2>1
  <2> QED BY <1>1, <2>2 DEF n
<1>4. n \in Nat
  OBVIOUS
<1> HIDE DEF f, g, n
<1>5. n + 1 \in 1..n + 1 /\ \A j \in 1..n : j \in 1..n + 1
  BY <1>4
<1>6. g[n + 1] = w[x] /\ \A j \in 1..n : g[j] = f[j]
  BY <1>2, <1>3, <1>5
<1>7. g = Append(f, w[x])
  <2>1. g[Len(f) + 1] = w[x] /\ Len(g) = Len(f) + 1 /\ \A j \in 1..Len(f) : g[j] = f[j]
    BY <1>3, <1>6
  <2> QED BY <1>3, <2>1, GrownByOne
<1> QED BY <1>3, <1>7 DEF f, g, n, r, MappedTo

\* q is w of every element of s.
Imaged(w, s, q, T) ==
    q \in Seq(T) /\ Len(q) = Len(s) /\ \A i \in 1..Len(s) : q[i] = w[s[i]]

LEMMA LatestExists ==
  ASSUME NEW i, i \in Nat, NEW S, S \in SUBSET (1..i), S # {}
  PROVE  \E j \in S : \A k \in S : k <= j
<1>1. IsFiniteSet(1..i) /\ 1..i \in SUBSET Nat
  BY FS_Interval
<1>2. IsFiniteSet(S)
  BY <1>1, FS_Subset
<1>3. S \in SUBSET Int
  BY <1>1
<1> QED BY <1>2, <1>3, MaxOfFinite

LEMMA SumOfNothing ==
  ASSUME NEW f, f \in [{} -> Int]
  PROVE  SumFunction(f) = 0
<1>1. f \in [{} -> {0}] /\ IsFiniteSet({})
  BY FS_EmptySet
<1> QED BY <1>1, SumOfZeros

\* A sum without its zeros.
LEMMA SumWithoutZeros ==
  ASSUME NEW D, IsFiniteSet(D), NEW A, A \in SUBSET D, NEW f, f \in [D -> Int],
         \A x \in D \ A : f[x] = 0
  PROVE  SumFunction(f) = SumFunction([x \in A |-> f[x]])
<1> DEFINE g == [x \in A |-> f[x]]
           h == [x \in D \ A |-> f[x]]
<1>1. SumFunction(f) = SumFunction(g) + SumFunction(h)
  BY SumOfParts
<1>2. IsFiniteSet(D \ A) /\ IsFiniteSet(A)
  BY FS_Subset
<1>3. h \in [D \ A -> {0}] /\ g \in [A -> Int]
  OBVIOUS
<1> HIDE DEF g, h
<1>4. SumFunction(h) = 0 /\ SumFunction(g) \in Int
  BY <1>2, <1>3, SumOfZeros, SumIsInt
<1>5. SumFunction(f) = SumFunction(g)
  BY <1>1, <1>4
<1> QED BY <1>5 DEF g

\* s lists the integers of S in increasing order.
Listing(s, S) ==
    /\ s \in Seq(S)
    /\ \A i, j \in 1..Len(s) : i < j => s[i] < s[j]
    /\ \A x \in S : \E j \in 1..Len(s) : s[j] = x

LEMMA WiderSeq ==
  ASSUME NEW S, NEW T, S \subseteq T, NEW s, s \in Seq(S)
  PROVE  s \in Seq(T) /\ \A i \in 1..Len(s) : s[i] \in S
<1>1. s \in [1..Len(s) -> S] /\ Len(s) \in Nat
  OBVIOUS
<1>2. \A i \in 1..Len(s) : s[i] \in S
  BY <1>1
<1>3. s \in [1..Len(s) -> T]
  BY <1>1, <1>2
<1>4. s \in Seq(T)
  BY ONLY <1>1, <1>3
<1> QED BY <1>2, <1>4

\* What is let through of the first k times, spaced by a poll interval.
Admitted(p, times, k) ==
    /\ p \in Seq(Int)
    /\ \A i, j \in 1..Len(p) : i < j => p[i] < p[j]
    /\ \A i \in 1..Len(p) : \E l \in 1..k : p[i] = times[l]
    /\ k > 0 => Len(p) > 0 /\ p[1] = times[1]

Admits(p, time, poll) ==
    IF p # <<>> /\ time - p[Len(p)] < poll THEN p ELSE Append(p, time)

LEMMA GateKeeps ==
  ASSUME NEW times, times \in Seq(Int), NEW k, k \in 1..Len(times),
         \A i, j \in 1..Len(times) : i < j => times[i] < times[j],
         NEW p, Admitted(p, times, k - 1), NEW poll, poll \in Nat
  PROVE  Admitted(Admits(p, times[k], poll), times, k)
<1> DEFINE x == times[k]
           q == Append(p, x)
           n == Len(p)
<1>1. p \in Seq(Int) /\ n \in Nat /\ x \in Int /\ k \in Nat \ {0} /\ k <= Len(times)
  BY DEF Admitted
<1>2. \A i \in 1..n : p[i] \in Int /\ p[i] < x /\ \E l \in 1..k : p[i] = times[l]
  <2> SUFFICES ASSUME NEW i \in 1..n
               PROVE  p[i] \in Int /\ p[i] < x /\ \E l \in 1..k : p[i] = times[l]
    OBVIOUS
  <2>1. PICK l \in 1..k - 1 : p[i] = times[l]
    BY DEF Admitted
  <2>2. l \in 1..Len(times) /\ l < k /\ l \in 1..k /\ k \in 1..Len(times)
    BY <1>1
  <2> QED BY <1>1, <2>1, <2>2
<1>3. CASE Admits(p, x, poll) = p
  <2>1. n > 0 => p[1] = times[1]
    <3> SUFFICES ASSUME n > 0, k = 1 PROVE FALSE
      BY <1>1 DEF Admitted
    <3>1. 1 \in 1..n
      BY <1>1
    <3>2. \E l \in 1..k - 1 : TRUE
      BY <3>1 DEF Admitted
    <3> QED BY <3>2
  <2>2. n > 0
    <3> SUFFICES ASSUME p = <<>> PROVE FALSE
      BY <1>1
    <3>1. Append(p, x) = p
      BY <1>3 DEF Admits
    <3>2. Len(Append(p, x)) = Len(p) + 1
      BY <1>1
    <3> QED BY <1>1, <3>1, <3>2
  <2> HIDE DEF n
  <2>3. \A i \in 1..Len(p) : \E l \in 1..k : p[i] = times[l]
    BY <1>2 DEF n
  <2>4. \A i, j \in 1..Len(p) : i < j => p[i] < p[j]
    BY DEF Admitted
  <2>5. Admitted(p, times, k)
    BY <1>1, <2>1, <2>2, <2>3, <2>4 DEF Admitted, n
  <2> QED BY <1>3, <2>5
<1>4. CASE Admits(p, x, poll) = q
  <2>1. q \in Seq(Int) /\ Len(q) = n + 1 /\ q[n + 1] = x /\ \A i \in 1..n : q[i] = p[i]
    BY <1>1
  <2>2. \A i, j \in 1..n : i < j => p[i] < p[j]
    BY DEF Admitted
  <2>3. k - 1 > 0 => n > 0 /\ p[1] = times[1]
    BY DEF Admitted
  <2>4. n > 0 => k - 1 > 0
    <3> SUFFICES ASSUME n > 0 PROVE k - 1 > 0
      OBVIOUS
    <3>1. 1 \in 1..n
      BY <1>1
    <3>2. \E l \in 1..k - 1 : TRUE
      BY <3>1 DEF Admitted
    <3> QED BY <1>1, <3>2
  <2> HIDE DEF n, q
  <2>5. \A i \in 1..n + 1 : i = n + 1 \/ i \in 1..n
    BY <1>1
  <2>6. \A i, j \in 1..n + 1 : i < j => q[i] < q[j]
    <3> SUFFICES ASSUME NEW i \in 1..n + 1, NEW j \in 1..n + 1, i < j PROVE q[i] < q[j]
      OBVIOUS
    <3>1. i \in 1..n
      BY <1>1
    <3>2. CASE j \in 1..n
      BY <2>1, <2>2, <3>1, <3>2
    <3>3. CASE j = n + 1
      BY <1>2, <2>1, <3>1, <3>3
    <3> QED BY <2>5, <3>2, <3>3
  <2>7. \A i \in 1..n + 1 : \E l \in 1..k : q[i] = times[l]
    <3> SUFFICES ASSUME NEW i \in 1..n + 1 PROVE \E l \in 1..k : q[i] = times[l]
      OBVIOUS
    <3>1. CASE i \in 1..n
      BY <1>2, <2>1, <3>1
    <3>2. CASE i = n + 1
      <4>1. k \in 1..k
        BY <1>1
      <4> QED BY <2>1, <3>2, <4>1
    <3> QED BY <2>5, <3>1, <3>2
  <2>8. q[1] = times[1]
    <3>1. CASE n > 0
      BY <1>1, <2>1, <2>3, <2>4, <3>1
    <3>2. CASE n = 0
      <4>1. k = 1
        BY <1>1, <2>3, <3>2
      <4> QED BY <2>1, <3>2, <4>1
    <3> QED BY <1>1, <3>1, <3>2
  <2>9. Len(q) > 0
    BY <1>1, <2>1
  <2>10. Admitted(q, times, k)
    BY <2>1, <2>6, <2>7, <2>8, <2>9 DEF Admitted
  <2> QED BY <1>4, <2>10
<1> QED BY <1>3, <1>4 DEF Admits

Rising(s) == \A i, j \in 1..Len(s) : i < j => s[i] <= s[j]

Has(s, x) == \E i \in 1..Len(s) : s[i] = x

Twice(s, x) == \E i, j \in 1..Len(s) : i < j /\ s[i] = x /\ s[j] = x

\* A list that goes on with later values.
LEMMA ListGoesOn ==
  ASSUME NEW f, f \in Seq(Int), Rising(f), NEW S, S \subseteq Int, NEW a, Listing(a, S),
         \A x \in Int, y \in S : Has(f, x) => x <= y
  PROVE  /\ f \o a \in Seq(Int) /\ Rising(f \o a)
         /\ \A x \in Int : Has(f \o a, x) <=> Has(f, x) \/ x \in S
         /\ \A x \in Int : Twice(f \o a, x) => Twice(f, x) \/ (Has(f, x) /\ x \in S)
         /\ S # {} => /\ Len(f \o a) > 0 /\ (f \o a)[Len(f \o a)] \in S
                      /\ \A y \in S : y <= (f \o a)[Len(f \o a)]
         /\ S = {} => f \o a = f
<1> DEFINE g == f \o a
           m == Len(f)
           n == Len(a)
<1>1. /\ a \in Seq(Int) /\ \A i \in 1..n : a[i] \in S /\ a[i] \in Int
      /\ m \in Nat /\ n \in Nat /\ \A i \in 1..m : f[i] \in Int
  <2>1. a \in Seq(S)
    BY DEF Listing
  <2>2. a \in Seq(Int) /\ \A i \in 1..Len(a) : a[i] \in S
    BY ONLY <2>1, S \subseteq Int, WiderSeq
  <2> QED BY <2>2
<1>2. /\ g \in Seq(Int) /\ Len(g) = m + n
      /\ \A i \in 1..m + n : g[i] = IF i <= m THEN f[i] ELSE a[i - m]
  BY <1>1
<1>3. \A i, j \in 1..n : i < j => a[i] < a[j]
  BY DEF Listing
<1>4. \A x \in S : \E i \in 1..n : a[i] = x
  BY DEF Listing
<1>5. \A i \in 1..m, j \in 1..n : f[i] <= a[j]
  BY <1>1 DEF Has
<1>6. \A i, j \in 1..m : i < j => f[i] <= f[j]
  BY DEF Rising
<1>7. \A i \in 1..m : i \in 1..m + n /\ g[i] = f[i]
  BY <1>1, <1>2
<1>8. \A i \in 1..n : m + i \in 1..m + n /\ g[m + i] = a[i]
  <2> SUFFICES ASSUME NEW i \in 1..n PROVE m + i \in 1..m + n /\ g[m + i] = a[i]
    OBVIOUS
  <2>1. m + i \in 1..m + n /\ ~(m + i <= m) /\ (m + i) - m = i
    BY <1>1
  <2> HIDE DEF g, m, n
  <2> QED BY <1>2, <2>1
<1>9. \A i \in 1..m + n : i \in 1..m \/ \E k \in 1..n : i = m + k
  <2> SUFFICES ASSUME NEW i \in 1..m + n, i \notin 1..m PROVE \E k \in 1..n : i = m + k
    OBVIOUS
  <2> HIDE DEF m, n
  <2> DEFINE k == i - m
  <2>1. k \in 1..n /\ i = m + k
    BY <1>1
  <2> HIDE DEF k
  <2> QED BY <2>1
<1> HIDE DEF g, m, n
<1>10. ASSUME NEW i \in 1..m + n, NEW j \in 1..m + n, i < j
       PROVE  /\ g[i] <= g[j]
              /\ g[i] = g[j] => (i \in 1..m /\ j \in 1..m)
                                  \/ (i \in 1..m /\ \E l \in 1..n : j = m + l)
  <2>1. CASE i \in 1..m /\ j \in 1..m
    BY <1>6, <1>7, <1>10, <2>1
  <2>2. CASE i \in 1..m /\ j \notin 1..m
    <3>1. PICK l \in 1..n : j = m + l
      BY <1>9, <2>2
    <3> QED BY <1>5, <1>7, <1>8, <2>2, <3>1
  <2>3. CASE i \notin 1..m
    <3>1. PICK k \in 1..n : i = m + k
      BY <1>9, <2>3
    <3>2. j \notin 1..m
      BY <1>1, <1>10, <3>1
    <3>3. PICK l \in 1..n : j = m + l
      BY <1>9, <3>2
    <3>4. k < l
      BY <1>1, <1>10, <3>1, <3>3
    <3>5. a[k] < a[l] /\ a[k] \in Int /\ a[l] \in Int
      BY <1>1, <1>3, <3>4
    <3> QED BY <1>8, <3>1, <3>3, <3>5
  <2> QED BY <2>1, <2>2, <2>3
<1>11. Rising(g)
  BY <1>2, <1>10 DEF Rising
<1>12. ASSUME NEW x \in Int PROVE Has(g, x) <=> Has(f, x) \/ x \in S
  <2>1. Has(g, x) => Has(f, x) \/ x \in S
    <3> SUFFICES ASSUME Has(g, x) PROVE Has(f, x) \/ x \in S
      OBVIOUS
    <3>1. PICK i \in 1..m + n : g[i] = x
      BY <1>2 DEF Has
    <3>2. CASE i \in 1..m
      BY <1>7, <3>1, <3>2 DEF Has, m
    <3>3. CASE i \notin 1..m
      BY <1>1, <1>8, <1>9, <3>1, <3>3
    <3> QED BY <3>2, <3>3
  <2>2. Has(f, x) => Has(g, x)
    BY <1>2, <1>7 DEF Has, m
  <2>3. x \in S => Has(g, x)
    BY <1>2, <1>4, <1>8 DEF Has
  <2> QED BY <2>1, <2>2, <2>3
<1>13. ASSUME NEW x \in Int, Twice(g, x) PROVE Twice(f, x) \/ (Has(f, x) /\ x \in S)
  <2>1. PICK i \in 1..m + n, j \in 1..m + n : i < j /\ g[i] = x /\ g[j] = x
    BY <1>2, <1>13 DEF Twice
  <2>2. CASE i \in 1..m /\ j \in 1..m
    <3>1. f[i] = x /\ f[j] = x
      BY <1>7, <2>1, <2>2
    <3> QED BY <2>1, <2>2, <3>1 DEF Twice, m
  <2>3. CASE i \in 1..m /\ \E l \in 1..n : j = m + l
    <3>1. f[i] = x
      BY <1>7, <2>1, <2>3
    <3>2. x \in S
      BY <1>1, <1>8, <2>1, <2>3
    <3> QED BY <2>3, <3>1, <3>2 DEF Has, m
  <2> QED BY <1>10, <2>1, <2>2, <2>3
<1>14. ASSUME S # {} PROVE Len(g) > 0 /\ g[Len(g)] \in S /\ \A y \in S : y <= g[Len(g)]
  <2>1. n \in 1..n
    <3>1. PICK x \in S : TRUE
      BY <1>14
    <3>2. PICK i \in 1..n : a[i] = x
      BY <1>4
    <3> QED BY <1>1, <3>2
  <2>2. m + n = Len(g) /\ Len(g) > 0 /\ g[Len(g)] = a[n]
    BY <1>1, <1>2, <1>8, <2>1
  <2>3. ASSUME NEW y \in S PROVE y <= a[n]
    <3>1. PICK i \in 1..n : a[i] = y
      BY <1>4
    <3>2. i < n => a[i] < a[n]
      BY <1>3, <2>1
    <3>3. a[i] \in Int /\ a[n] \in Int
      BY <1>1, <2>1
    <3> QED BY <1>1, <3>1, <3>2, <3>3
  <2> QED BY <1>1, <2>1, <2>2, <2>3
<1>15. ASSUME S = {} PROVE g = f
  <2>1. n = 0
    <3>1. \A i \in 1..n : FALSE
      BY <1>1, <1>15
    <3> QED BY <1>1, <3>1
  <2>2. a = <<>>
    BY <1>1, <2>1 DEF n
  <2> QED BY <2>2 DEF g
<1> QED BY <1>2, <1>11, <1>12, <1>13, <1>14, <1>15 DEF g

\* The poll that a bar is for.
LEMMA PollOfBar ==
  ASSUME NEW p, p \in Seq(Int), \A i, j \in 1..Len(p) : i < j => p[i] < p[j],
         NEW i, i \in 1..Len(p), NEW b, b \in Int, b <= p[i]
  PROVE  \E j \in 1..i : b <= p[j] /\ \A k \in 1..(j - 1) : p[k] < b
<1> DEFINE S == {j \in 1..i : b <= p[j]}
<1>1. S \subseteq Nat /\ i \in S
  OBVIOUS
<1>2. PICK j \in S : \A k \in S : j <= k
  <2> HIDE DEF S
  <2> QED BY <1>1, LeastNatural
<1>3. j \in 1..i /\ b <= p[j]
  BY <1>2
<1>4. ASSUME NEW k \in 1..j - 1 PROVE p[k] < b
  <2>1. k \in 1..i /\ ~(j <= k) /\ p[k] \in Int
    BY <1>3
  <2>2. k \notin S
    <3> HIDE DEF S
    <3> QED BY <1>2, <2>1
  <2>3. ~(b <= p[k])
    BY <2>1, <2>2
  <2> QED BY <2>1, <2>3
<1> QED BY <1>3, <1>4

LEMMA SmallerFactor ==
  ASSUME NEW a, a \in Nat, NEW x, x \in Int, NEW y, y \in Int, x <= y
  PROVE  a * x <= a * y
<1> DEFINE k == y - x
<1>1. k \in Nat /\ y = x + k
  OBVIOUS
<1> HIDE DEF k
<1>2. a * k \in Nat /\ a * x \in Int
  BY <1>1
<1>3. a * y = a * x + a * k
  BY <1>1
<1> QED BY <1>2, <1>3

LEMMA FactorCancels ==
  ASSUME NEW a, a \in Nat \ {0}, NEW x, x \in Int, NEW y, y \in Int, a * x <= a * y
  PROVE  x <= y
<1> SUFFICES ASSUME y + 1 <= x PROVE FALSE
  OBVIOUS
<1>1. a * (y + 1) <= a * x
  BY SmallerFactor
<1>2. a * (y + 1) = a * y + a
  OBVIOUS
<1>3. a * y \in Int /\ a * x \in Int
  OBVIOUS
<1> QED BY <1>1, <1>2, <1>3

\* Quotients compared by their products.
LEMMA QuotientsAreOrdered ==
  ASSUME NEW a, a \in Nat, NEW b, b \in Nat \ {0}, NEW c, c \in Nat, NEW d, d \in Nat \ {0},
         NEW e, e \in Nat, NEW f, f \in Nat \ {0}, a * d <= c * b, c * f <= e * d
  PROVE  a * f <= e * b
<1>1. f * (a * d) <= f * (c * b)
  <2>1. a * d \in Int /\ c * b \in Int
    OBVIOUS
  <2> QED BY <2>1, SmallerFactor
<1>2. b * (c * f) <= b * (e * d)
  <2>1. c * f \in Int /\ e * d \in Int
    OBVIOUS
  <2> QED BY <2>1, SmallerFactor
<1>3. f * (a * d) = d * (a * f) /\ f * (c * b) = b * (c * f) /\ b * (e * d) = d * (e * b)
  OBVIOUS
<1>4. a * f \in Int /\ e * b \in Int
  OBVIOUS
<1>5. d * (a * f) <= d * (e * b)
  <2> DEFINE u == d * (a * f)
             v == b * (c * f)
             w == d * (e * b)
  <2>1. u \in Int /\ v \in Int /\ w \in Int
    OBVIOUS
  <2>2. u <= v /\ v <= w
    BY <1>1, <1>2, <1>3
  <2> HIDE DEF u, v, w
  <2>3. u <= w
    BY <2>1, <2>2
  <2> QED BY <2>3 DEF u, w
<1> QED BY <1>4, <1>5, FactorCancels

\* What an allocation of whole shares earns.
LEMMA ExactDivision ==
  ASSUME NEW a, a \in Int, NEW u, u \in Nat \ {0}, a % u = 0
  PROVE  a = u * (a \div u) /\ a \div u \in Int
OBVIOUS

LEMMA QuotientOfProduct ==
  ASSUME NEW k, k \in Int, NEW u, u \in Nat \ {0}
  PROVE  (u * k) \div u = k
<1> DEFINE q == (u * k) \div u
           r == (u * k) % u
<1>1. u * k \in Int
  OBVIOUS
<1>2. q \in Int /\ r \in 0..(u - 1) /\ u * k = u * q + r
  BY <1>1
<1> HIDE DEF q, r
<1>3. CASE q = k
  BY <1>3 DEF q
<1>4. CASE q <= k - 1
  <2>1. u * q <= u * (k - 1)
    BY <1>2, <1>4, SmallerFactor
  <2>2. u * (k - 1) = u * k - u /\ u * q \in Int
    BY <1>2
  <2> QED BY <1>1, <1>2, <2>1, <2>2
<1>5. CASE q >= k + 1
  <2>1. u * (k + 1) <= u * q
    BY <1>2, <1>5, SmallerFactor
  <2>2. u * (k + 1) = u * k + u /\ u * q \in Int
    BY <1>2
  <2> QED BY <1>1, <1>2, <2>1, <2>2
<1> QED BY <1>2, <1>3, <1>4, <1>5

LEMMA AllocationIsShares ==
  ASSUME NEW a, a \in Int, NEW u, u \in Nat \ {0}, NEW e, e \in Nat \ {0}, a % (u * e) = 0,
         NEW x, x \in Int
  PROVE  (a * (x - e)) \div (u * e) = ((a \div u) \div e) * x - (a \div u)
<1> DEFINE k == a \div (u * e)
<1>1. u * e \in Nat \ {0}
  OBVIOUS
<1>2. a = (u * e) * k /\ k \in Int
  BY <1>1, ExactDivision
<1> HIDE DEF k
<1>3. a = u * (e * k) /\ e * k \in Int
  BY <1>2
<1>4. a \div u = e * k
  BY <1>3, QuotientOfProduct
<1>5. (e * k) \div e = k
  BY <1>2, QuotientOfProduct
<1>6. a * (x - e) = (u * e) * (k * (x - e)) /\ k * (x - e) \in Int
  BY <1>2
<1>7. (a * (x - e)) \div (u * e) = k * (x - e)
  BY <1>1, <1>6, QuotientOfProduct
<1>8. k * (x - e) = k * x - e * k
  BY <1>2
<1> QED BY <1>4, <1>5, <1>7, <1>8

LEMMA SumWithOneMore ==
  ASSUME NEW D, IsFiniteSet(D), NEW A, NEW z, z \in D, A = D \ {z}, NEW f, f \in [D -> Int]
  PROVE  SumFunction(f) = SumFunction([x \in A |-> f[x]]) + f[z]
<1> DEFINE g == [x \in A |-> f[x]]
           h == [x \in D \ A |-> f[x]]
<1>1. SumFunction(f) = SumFunction(g) + SumFunction(h)
  <2>1. A \in SUBSET D
    OBVIOUS
  <2> QED BY <2>1, SumOfParts
<1>2. D \ A = {z} /\ IsFiniteSet({z})
  BY FS_Singleton
<1>3. h \in [{z} -> {f[z]}]
  BY <1>2
<1>4. f[z] \in Int
  OBVIOUS
<1> HIDE DEF h
<1>5. SumFunction(h) = f[z] * Cardinality({z})
  BY <1>2, <1>3, <1>4, SumOfConstant
<1>6. Cardinality({z}) = 1
  BY FS_Singleton
<1>7. SumFunction(h) = f[z]
  BY <1>4, <1>5, <1>6
<1> QED BY <1>1, <1>7

LEMMA LeastOfFinite ==
  ASSUME NEW S, S \subseteq Int, IsFiniteSet(S), S # {}
  PROVE  \E x \in S : \A y \in S : x <= y
<1> DEFINE f == [x \in S |-> -x]
           T == {-x : x \in S}
<1>1. f \in Surjection(S, T)
  BY DEF Surjection
<1>2. T \subseteq Int /\ T # {}
  OBVIOUS
<1> HIDE DEF f, T
<1>3. IsFiniteSet(T)
  BY <1>1, FS_Surjection
<1>4. Max(T) \in T /\ \A y \in T : y <= Max(T)
  BY <1>2, <1>3, MaxOfFinite
<1> DEFINE m == Max(T)
<1> HIDE DEF m
<1>5. PICK x \in S : m = -x
  BY <1>4 DEF m, T
<1>6. \A y \in S : -y <= m
  BY <1>4 DEF m, T
<1> QED BY <1>5, <1>6

LEMMA DeepestFall ==
  ASSUME NEW n, n \in Nat \ {0}, NEW v, v \in [1..n -> Nat \ {0}],
         NEW p, p \in [1..n -> Nat \ {0}]
  PROVE  \E i \in 1..n : \A j \in 1..n : v[i] * p[j] <= v[j] * p[i]
<1> DEFINE Best(i, k) == i \in 1..k /\ \A j \in 1..k : v[i] * p[j] <= v[j] * p[i]
           G == {k \in 0..n : k = 0 \/ \E i \in 1..n : Best(i, k)}
<1>1. 0 \in G
  OBVIOUS
<1>2. ASSUME NEW k \in 1..n, k - 1 \in G PROVE k \in G
  <2>1. \A j \in 1..n : v[j] \in Nat /\ p[j] \in Nat \ {0}
    OBVIOUS
  <2>2. \A j \in 1..k : j = k \/ j \in 1..k - 1
    OBVIOUS
  <2>3. \A j \in 1..k : j \in 1..n
    OBVIOUS
  <2>4. \A i \in 1..n : Best(i, k) => k \in G
    <3>1. k \in 0..n
      OBVIOUS
    <3> HIDE DEF Best
    <3> QED BY <3>1
  <2>5. CASE k = 1
    <3>1. v[1] * p[1] <= v[1] * p[1]
      <4>1. v[1] * p[1] \in Int
        BY <2>1
      <4> QED BY <4>1
    <3>2. Best(1, 1)
      BY <3>1
    <3> QED BY <2>5, <3>2
  <2>6. CASE k # 1
    <3>1. PICK i \in 1..n : Best(i, k - 1)
      BY <1>2, <2>6
    <3>2. CASE v[i] * p[k] <= v[k] * p[i]
      <4>1. Best(i, k)
        <5>1. i \in 1..k
          BY <3>1
        <5>2. \A j \in 1..k : v[i] * p[j] <= v[j] * p[i]
          <6>1. \A j \in 1..k - 1 : v[i] * p[j] <= v[j] * p[i]
            BY <3>1
          <6> QED BY ONLY <2>2, <3>2, <6>1
        <5> QED BY ONLY <5>1, <5>2
      <4> QED BY <2>4, <4>1
    <3>3. CASE ~(v[i] * p[k] <= v[k] * p[i])
      <4>1. v[k] * p[i] <= v[i] * p[k]
        <5>1. v[k] * p[i] \in Int /\ v[i] * p[k] \in Int
          BY <2>1
        <5> QED BY <3>3, <5>1
      <4>2. ASSUME NEW j \in 1..k PROVE v[k] * p[j] <= v[j] * p[k]
        <5>1. CASE j = k
          <6>1. v[k] * p[k] \in Int
            BY <2>1
          <6> QED BY <5>1, <6>1
        <5>2. CASE j \in 1..k - 1
          <6>1. v[i] * p[j] <= v[j] * p[i]
            BY <3>1, <5>2
          <6>2. j \in 1..n
            BY <2>3
          <6> QED BY <2>1, <4>1, <6>1, <6>2, QuotientsAreOrdered
        <5> QED BY <2>2, <5>1, <5>2
      <4>3. Best(k, k)
        BY <4>2
      <4> QED BY <4>3
    <3> QED BY <3>2, <3>3
  <2> QED BY <2>5, <2>6
<1>3. n \in G
  <2>1. n \in Nat /\ n \in 0..n
    OBVIOUS
  <2> HIDE DEF G
  <2>2. 0..n \subseteq G
    BY <1>1, <1>2, <2>1, PlaceInduction
  <2> QED BY <2>1, <2>2
<1>4. PICK i \in 1..n : Best(i, n)
  BY <1>3
<1> QED BY <1>4
===============================================================================
