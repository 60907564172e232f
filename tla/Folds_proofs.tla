---------------------------- MODULE Folds_proofs ----------------------------
(***************************************************************************)
(* What the folds of the community modules compute on finite sets and      *)
(* sequences.  Their definition is recursive, over the subsets of what is  *)
(* folded; here a recursion of that form is shown to have one solution, by *)
(* the smallest set at which it would not, and the sums and sequences that *)
(* the models are built from are read off it.                              *)
(***************************************************************************)
EXTENDS SequencesExt, FiniteSetTheorems, SequenceTheorems, TLAPS

\* f solves, on the subsets of S, the recursion that takes the element c[s] of a
\* set s off it and combines it, by step, with the solution at the rest.
FoldSolves(f, S, base, step, c) ==
  \A s \in SUBSET S : f[s] = IF s = {} THEN base ELSE step[<<c[s], f[s \ {c[s]}]>>]

\* c chooses an element of every set of elements of S but the empty one.
FoldChooses(c, S) == \A s \in SUBSET S : s # {} => c[s] \in s

\* Among some sets of elements of a finite set one has none of the others in it.
LEMMA SmallestSet ==
  ASSUME NEW S, IsFiniteSet(S), NEW B \in SUBSET SUBSET S, B # {}
  PROVE  \E s \in B : \A t \in B : t \subseteq s => t = s
<1>1. FiniteSubsetsOf(S) = SUBSET S
  BY FS_FiniteSubsetsOfFinite
<1>2. IsWellFoundedOn(StrictSubsetOrdering(S), SUBSET S)
  BY <1>1, FS_StrictSubsetOrderingWellFounded
<1>3. PICK s \in B : \A t \in B : ~(<<t, s>> \in StrictSubsetOrdering(S))
  BY <1>2, WFMin
<1>4. \A t \in B : t \subseteq s => t = s
  BY <1>3 DEF StrictSubsetOrdering
<1> QED BY <1>4

\* Among some numbers one is the least.
LEMMA LeastNumber ==
  ASSUME NEW B \in SUBSET Nat, B # {}
  PROVE  \E n \in B : \A m \in B : n <= m
<1>1. PICK n \in B : \A m \in B : ~(<<m, n>> \in OpToRel(<, Nat))
  BY NatLessThanWellFounded, WFMin
<1>2. \A m \in B : ~(m < n)
  BY <1>1 DEF OpToRel
<1>3. \A m \in B : n <= m
  BY <1>2
<1> QED BY <1>3

\* Two solutions are the same where both are given.
LEMMA FoldsAgree ==
  ASSUME NEW S, IsFiniteSet(S), NEW base, NEW step, NEW c, FoldChooses(c, S),
         NEW T \in SUBSET S, NEW U \in SUBSET S, NEW f, NEW g,
         FoldSolves(f, T, base, step, c), FoldSolves(g, U, base, step, c),
         NEW s \in SUBSET (T \cap U)
  PROVE  f[s] = g[s]
<1> DEFINE B == {t \in SUBSET (T \cap U) : f[t] # g[t]}
<1> SUFFICES ASSUME B # {} PROVE FALSE
  OBVIOUS
<1>1. B \in SUBSET SUBSET S
  OBVIOUS
<1>2. PICK t \in B : \A u \in B : u \subseteq t => u = t
  <2> HIDE DEF B
  <2> QED BY <1>1, SmallestSet
<1>3. f[t] = IF t = {} THEN base ELSE step[<<c[t], f[t \ {c[t]}]>>]
  BY DEF FoldSolves
<1>4. g[t] = IF t = {} THEN base ELSE step[<<c[t], g[t \ {c[t]}]>>]
  BY DEF FoldSolves
<1>5. CASE t = {}
  BY <1>3, <1>4, <1>5
<1>6. CASE t # {}
  <2>1. c[t] \in t
    BY <1>6 DEF FoldChooses
  <2>2. t \ {c[t]} \subseteq t /\ t \ {c[t]} # t /\ t \ {c[t]} \in SUBSET (T \cap U)
    BY <2>1
  <2>3. f[t \ {c[t]}] = g[t \ {c[t]}]
    BY <1>2, <2>2
  <2> QED BY <1>3, <1>4, <2>3
<1> QED BY <1>5, <1>6

\* The recursion has a solution, of the values that base and step have.
THEOREM FoldExists ==
  ASSUME NEW S, IsFiniteSet(S), NEW V, NEW base \in V, NEW step \in [S \X V -> V],
         NEW c, FoldChooses(c, S)
  PROVE  \E f \in [SUBSET S -> V] : FoldSolves(f, S, base, step, c)
<1> DEFINE Solved(s) == \E f \in [SUBSET s -> V] : FoldSolves(f, s, base, step, c)
           B == {s \in SUBSET S : ~Solved(s)}
<1> SUFFICES ASSUME B # {} PROVE FALSE
  OBVIOUS
<1>1. B \in SUBSET SUBSET S
  OBVIOUS
<1>2. PICK s \in B : \A t \in B : t \subseteq s => t = s
  <2> HIDE DEF B
  <2> QED BY <1>1, SmallestSet
<1>3. s \in SUBSET S /\ ~Solved(s)
  OBVIOUS
<1>4. \A t \in SUBSET s : t # s => Solved(t)
  BY <1>2, <1>3
<1> HIDE DEF B
<1> DEFINE F == [t \in SUBSET s |-> CHOOSE f \in [SUBSET t -> V] : FoldSolves(f, t, base, step, c)]
           g == [t \in SUBSET s |-> IF t = {} THEN base ELSE step[<<c[t], F[t \ {c[t]}][t \ {c[t]}]>>]]
<1>5. \A t \in SUBSET s : t # s => F[t] \in [SUBSET t -> V] /\ FoldSolves(F[t], t, base, step, c)
  BY <1>4
<1>6. \A t \in SUBSET s : t # {} => c[t] \in t /\ t \ {c[t]} \in SUBSET s /\ t \ {c[t]} # s
  BY <1>3 DEF FoldChooses
<1> HIDE DEF F, Solved
<1>7. \A t \in SUBSET s : t # s => g[t] = F[t][t]
  <2> SUFFICES ASSUME NEW t \in SUBSET s, t # s PROVE g[t] = F[t][t]
    OBVIOUS
  <2>1. F[t][t] = IF t = {} THEN base ELSE step[<<c[t], F[t][t \ {c[t]}]>>]
    BY <1>5 DEF FoldSolves
  <2>2. CASE t # {}
    <3> DEFINE u == t \ {c[t]}
    <3>1. u \in SUBSET t /\ u \in SUBSET s /\ u # s
      BY <1>6, <2>2
    <3>2. FoldSolves(F[t], t, base, step, c) /\ FoldSolves(F[u], u, base, step, c)
      BY <1>5, <3>1
    <3>3. t \in SUBSET S /\ u \in SUBSET S /\ u \in SUBSET (t \cap u)
      BY <1>3, <3>1
    <3> HIDE DEF u
    <3>4. F[t][u] = F[u][u]
      <4>1. ASSUME NEW T1 \in SUBSET S, NEW U1 \in SUBSET S, NEW h, NEW k,
                   FoldSolves(h, T1, base, step, c), FoldSolves(k, U1, base, step, c),
                   U1 \in SUBSET (T1 \cap U1)
            PROVE  h[U1] = k[U1]
        BY <4>1, FoldsAgree
      <4>2. PICK h, k : h = F[t] /\ k = F[u]
        OBVIOUS
      <4>3. FoldSolves(h, t, base, step, c) /\ FoldSolves(k, u, base, step, c)
        BY <3>2, <4>2
      <4>4. h[u] = k[u]
        BY <3>3, <4>1, <4>3
      <4> QED BY <4>2, <4>4
    <3> QED BY <2>1, <2>2, <3>4 DEF u
  <2> QED BY <2>1, <2>2
<1>8. FoldSolves(g, s, base, step, c)
  <2> SUFFICES ASSUME NEW t \in SUBSET s
               PROVE  g[t] = IF t = {} THEN base ELSE step[<<c[t], g[t \ {c[t]}]>>]
    BY DEF FoldSolves
  <2>1. CASE t # {}
    BY <1>6, <1>7, <2>1
  <2> QED BY <2>1
<1>9. g \in [SUBSET s -> V]
  <2> SUFFICES ASSUME NEW t \in SUBSET s, t # {} PROVE step[<<c[t], F[t \ {c[t]}][t \ {c[t]}]>>] \in V
    OBVIOUS
  <2>1. c[t] \in S /\ t \ {c[t]} \in SUBSET s /\ t \ {c[t]} # s
    BY <1>3, <1>6
  <2> DEFINE u == t \ {c[t]}
  <2>2. F[u] \in [SUBSET u -> V]
    BY <1>5, <2>1
  <2>3. F[u][u] \in V
    <3> HIDE DEF u
    <3> QED BY <2>2
  <2> QED BY <2>1, <2>3
<1> HIDE DEF g
<1> QED BY <1>3, <1>8, <1>9 DEF Solved

-----------------------------------------------------------------------------
(* Sums.                                                                    *)

\* What a sum adds up to, and in which order the definition takes its terms.
Adds(fun, S) == [p \in S \X Nat |-> fun[p[1]] + p[2]]
AnyOf(S) == [s \in SUBSET S |-> CHOOSE x \in s : TRUE]

\* A sum over a finite set is a solution of its recursion, and a number.
LEMMA SumSolves ==
  ASSUME NEW S, IsFiniteSet(S), NEW fun, \A x \in S : fun[x] \in Nat
  PROVE  \E f \in [SUBSET S -> Nat] : /\ SumFunctionOnSet(fun, S) = f[S]
                                      /\ FoldSolves(f, S, 0, Adds(fun, S), AnyOf(S))
<1> DEFINE it == CHOOSE f : f = [s \in SUBSET S |-> IF s = {} THEN 0
                                  ELSE fun[CHOOSE x \in s : TRUE] + f[s \ {CHOOSE x \in s : TRUE}]]
<1>1. SumFunctionOnSet(fun, S) = it[S]
  BY DEF SumFunctionOnSet, FoldFunctionOnSet, MapThenFoldSet
<1>2. FoldChooses(AnyOf(S), S)
  BY DEF FoldChooses, AnyOf
<1>3. Adds(fun, S) \in [S \X Nat -> Nat]
  BY DEF Adds
<1>4. PICK f \in [SUBSET S -> Nat] : FoldSolves(f, S, 0, Adds(fun, S), AnyOf(S))
  <2>1. 0 \in Nat
    OBVIOUS
  <2>2. ASSUME NEW base \in Nat, NEW step \in [S \X Nat -> Nat], NEW c, FoldChooses(c, S)
        PROVE  \E f \in [SUBSET S -> Nat] : FoldSolves(f, S, base, step, c)
    BY <2>2, FoldExists
  <2>3. PICK step, c : step = Adds(fun, S) /\ c = AnyOf(S)
    OBVIOUS
  <2>4. step \in [S \X Nat -> Nat] /\ FoldChooses(c, S)
    BY <1>2, <1>3, <2>3
  <2>5. \E f \in [SUBSET S -> Nat] : FoldSolves(f, S, 0, step, c)
    BY <2>1, <2>2, <2>4
  <2> QED BY <2>3, <2>5
<1>5. ASSUME NEW s \in SUBSET S, s # {}
      PROVE  f[s] = fun[CHOOSE x \in s : TRUE] + f[s \ {CHOOSE x \in s : TRUE}]
  <2>1. (CHOOSE x \in s : TRUE) \in s
    BY <1>5
  <2>2. PICK x \in S : x = (CHOOSE y \in s : TRUE) /\ x \in s
    BY <2>1
  <2>3. AnyOf(S)[s] = x
    BY <2>2 DEF AnyOf
  <2>4. f[s] = Adds(fun, S)[<<x, f[s \ {x}]>>]
    BY <1>4, <1>5, <2>3 DEF FoldSolves
  <2>5. f[s \ {x}] \in Nat
    OBVIOUS
  <2>6. Adds(fun, S)[<<x, f[s \ {x}]>>] = fun[x] + f[s \ {x}]
    BY <2>5 DEF Adds
  <2> QED BY <2>2, <2>4, <2>6
<1>6. f[{}] = 0
  BY <1>4 DEF FoldSolves
<1>7. f = [s \in SUBSET S |-> IF s = {} THEN 0
             ELSE fun[CHOOSE x \in s : TRUE] + f[s \ {CHOOSE x \in s : TRUE}]]
  BY <1>5, <1>6
<1>8. it = [s \in SUBSET S |-> IF s = {} THEN 0
             ELSE fun[CHOOSE x \in s : TRUE] + it[s \ {CHOOSE x \in s : TRUE}]]
  BY <1>7
<1> HIDE DEF it
<1>9. ASSUME NEW s \in SUBSET S PROVE it[s] = f[s]
  <2> DEFINE B == {t \in SUBSET S : it[t] # f[t]}
  <2> SUFFICES ASSUME B # {} PROVE FALSE
    OBVIOUS
  <2>1. PICK t \in B : \A u \in B : u \subseteq t => u = t
    <3>1. B \in SUBSET SUBSET S
      OBVIOUS
    <3> HIDE DEF B
    <3> QED BY <3>1, SmallestSet
  <2>2. t \in SUBSET S /\ t # {}
    BY <1>6, <1>8
  <2>3. PICK x \in t : x = (CHOOSE y \in t : TRUE)
    BY <2>2
  <2>4. it[t \ {x}] = f[t \ {x}]
    BY <2>1, <2>2
  <2>5. f[t] = fun[x] + f[t \ {x}] /\ it[t] = fun[x] + it[t \ {x}]
    BY <1>5, <1>8, <2>2, <2>3
  <2> QED BY <2>4, <2>5
<1> QED BY <1>1, <1>4, <1>9

\* f is the sum of every part of S.
AddsUp(f, fun, S) ==
  /\ f \in [SUBSET S -> Nat] /\ f[{}] = 0
  /\ \A s \in SUBSET S : \A x \in s : f[s] = fun[x] + f[s \ {x}]

\* A sum of nothing is 0, and a sum is any of its terms and the sum of the rest.
THEOREM Sums ==
  ASSUME NEW S, IsFiniteSet(S), NEW fun, \A x \in S : fun[x] \in Nat
  PROVE  \E f : AddsUp(f, fun, S) /\ SumFunctionOnSet(fun, S) = f[S]
<1>1. PICK f \in [SUBSET S -> Nat] : /\ SumFunctionOnSet(fun, S) = f[S]
                                     /\ FoldSolves(f, S, 0, Adds(fun, S), AnyOf(S))
  BY SumSolves
<1>2. f[{}] = 0
  BY <1>1 DEF FoldSolves
<1>3. ASSUME NEW s \in SUBSET S, s # {} PROVE \E x \in s : f[s] = fun[x] + f[s \ {x}]
  <2>1. (CHOOSE y \in s : TRUE) \in s
    BY <1>3
  <2>2. PICK x \in s : x = (CHOOSE y \in s : TRUE)
    BY <2>1
  <2>3. AnyOf(S)[s] = x
    BY <2>2 DEF AnyOf
  <2>4. f[s] = Adds(fun, S)[<<x, f[s \ {x}]>>]
    BY <1>1, <1>3, <2>3 DEF FoldSolves
  <2>5. f[s \ {x}] \in Nat
    OBVIOUS
  <2>6. Adds(fun, S)[<<x, f[s \ {x}]>>] = fun[x] + f[s \ {x}]
    BY <2>5 DEF Adds
  <2> QED BY <2>4, <2>6
<1>4. ASSUME NEW s \in SUBSET S, NEW x \in s PROVE f[s] = fun[x] + f[s \ {x}]
  <2> DEFINE B == {t \in SUBSET S : \E y \in t : f[t] # fun[y] + f[t \ {y}]}
  <2> SUFFICES ASSUME B # {} PROVE FALSE
    OBVIOUS
  <2>1. PICK t \in B : \A u \in B : u \subseteq t => u = t
    <3>1. B \in SUBSET SUBSET S
      OBVIOUS
    <3> HIDE DEF B
    <3> QED BY <3>1, SmallestSet
  <2>2. PICK y \in t : f[t] # fun[y] + f[t \ {y}]
    OBVIOUS
  <2>3. t \in SUBSET S /\ t # {}
    OBVIOUS
  <2>0. \A u \in SUBSET S : u \notin B => \A w \in u : f[u] = fun[w] + f[u \ {w}]
    OBVIOUS
  <2> HIDE DEF B
  <2>4. PICK z \in t : f[t] = fun[z] + f[t \ {z}]
    BY <1>3, <2>3
  <2>5. z # y
    BY <2>2, <2>4
  <2>6. f[t \ {z}] = fun[y] + f[t \ {y, z}]
    <3>1. t \ {z} \in SUBSET S /\ t \ {z} # t /\ t \ {z} \subseteq t /\ y \in t \ {z}
      BY <2>3, <2>5
    <3>3. (t \ {z}) \ {y} = t \ {y, z}
      OBVIOUS
    <3>2. t \ {z} \notin B
      BY <2>1, <3>1
    <3> QED BY <2>0, <3>1, <3>2, <3>3
  <2>7. f[t \ {y}] = fun[z] + f[t \ {y, z}]
    <3>1. t \ {y} \in SUBSET S /\ t \ {y} # t /\ t \ {y} \subseteq t /\ z \in t \ {y}
      BY <2>3, <2>5
    <3>3. (t \ {y}) \ {z} = t \ {y, z}
      OBVIOUS
    <3>2. t \ {y} \notin B
      BY <2>1, <3>1
    <3> QED BY <2>0, <3>1, <3>2, <3>3
  <2>9. fun[y] \in Nat /\ fun[z] \in Nat /\ f[t \ {y, z}] \in Nat
    BY <2>3
  <2> QED BY <2>2, <2>4, <2>6, <2>7, <2>9
<1> QED BY <1>1, <1>2, <1>4 DEF AddsUp

\* A sum of nothing is 0, whatever is summed.
LEMMA SumOfNothing ==
  ASSUME NEW fun
  PROVE  SumFunctionOnSet(fun, {}) = 0
<1>1. \A x \in {} : fun[x] \in Nat
  OBVIOUS
<1> QED BY <1>1, FS_EmptySet, Sums DEF AddsUp

\* The sum of a part is what the whole has for it.
LEMMA SumOfParts ==
  ASSUME NEW S, IsFiniteSet(S), NEW fun, \A x \in S : fun[x] \in Nat, NEW T \in SUBSET S,
         NEW f, AddsUp(f, fun, S)
  PROVE  SumFunctionOnSet(fun, T) = f[T]
<1>2. IsFiniteSet(T)
  BY FS_Subset
<1>3. PICK g : AddsUp(g, fun, T) /\ SumFunctionOnSet(fun, T) = g[T]
  <2>1. \A x \in T : fun[x] \in Nat
    OBVIOUS
  <2> QED BY <1>2, <2>1, Sums
<1> USE DEF AddsUp
<1>4. ASSUME NEW s \in SUBSET T PROVE g[s] = f[s]
  <2> DEFINE B == {t \in SUBSET T : g[t] # f[t]}
  <2> SUFFICES ASSUME B # {} PROVE FALSE
    OBVIOUS
  <2>1. PICK t \in B : \A u \in B : u \subseteq t => u = t
    <3>1. B \in SUBSET SUBSET S
      OBVIOUS
    <3> HIDE DEF B
    <3> QED BY <3>1, SmallestSet
  <2>2. PICK x \in t : TRUE
    BY <1>3
  <2>3. g[t] = fun[x] + g[t \ {x}] /\ f[t] = fun[x] + f[t \ {x}]
    BY <1>3
  <2>4. g[t \ {x}] = f[t \ {x}]
    BY <2>1
  <2> QED BY <2>3, <2>4
<1> QED BY <1>3, <1>4

\* Fewer terms add up to no more.
THEOREM SumOfLess ==
  ASSUME NEW S, IsFiniteSet(S), NEW fun, \A x \in S : fun[x] \in Nat, NEW T \in SUBSET S
  PROVE  SumFunctionOnSet(fun, T) \in Nat /\ SumFunctionOnSet(fun, T) <= SumFunctionOnSet(fun, S)
<1>1. PICK f : AddsUp(f, fun, S) /\ SumFunctionOnSet(fun, S) = f[S]
  BY Sums
<1>2. SumFunctionOnSet(fun, T) = f[T]
  BY <1>1, SumOfParts
<1> USE DEF AddsUp
<1>5. ASSUME NEW s \in SUBSET S, T \subseteq s PROVE f[T] <= f[s]
  <2> DEFINE B == {t \in SUBSET S : T \subseteq t /\ ~(f[T] <= f[t])}
  <2> SUFFICES ASSUME B # {} PROVE FALSE
    BY <1>5
  <2>1. PICK t \in B : \A u \in B : u \subseteq t => u = t
    <3>1. B \in SUBSET SUBSET S
      OBVIOUS
    <3> HIDE DEF B
    <3> QED BY <3>1, SmallestSet
  <2>0. f[T] \in Nat /\ t \in SUBSET S /\ T \subseteq t
    BY <1>1
  <2>2. PICK x \in t : x \notin T
    <3>1. t # T
      BY <2>0
    <3> QED BY <2>0, <3>1
  <2>3. f[t] = fun[x] + f[t \ {x}]
    BY <1>1
  <2>4. f[T] <= f[t \ {x}]
    BY <2>1, <2>2
  <2>5. fun[x] \in Nat /\ f[t \ {x}] \in Nat /\ f[T] \in Nat
    BY <1>1, <2>0
  <2> QED BY <2>3, <2>4, <2>5
<1> QED BY <1>1, <1>2, <1>5

\* One more term adds no more than itself.
THEOREM SumOfMore ==
  ASSUME NEW S, IsFiniteSet(S), NEW fun, NEW x, \A y \in S \cup {x} : fun[y] \in Nat
  PROVE  SumFunctionOnSet(fun, S \cup {x}) <= SumFunctionOnSet(fun, S) + fun[x]
<1>1. CASE x \in S
  <2>1. S \cup {x} = S
    BY <1>1
  <2>0. fun[x] \in Nat /\ (\A y \in S : fun[y] \in Nat) /\ S \in SUBSET S
    OBVIOUS
  <2>2. SumFunctionOnSet(fun, S) \in Nat
    BY <2>0, SumOfLess
  <2> QED BY <2>0, <2>1, <2>2
<1>2. CASE x \notin S
  <2>1. IsFiniteSet(S \cup {x})
    BY FS_AddElement
  <2> DEFINE U == S \cup {x}
  <2>2. \A y \in U : fun[y] \in Nat
    OBVIOUS
  <2>3. S \in SUBSET U /\ U \in SUBSET U /\ x \in U /\ U \ {x} = S
    BY <1>2
  <2>4. IsFiniteSet(U)
    BY <2>1
  <2> HIDE DEF U
  <2>5. PICK f : AddsUp(f, fun, U) /\ SumFunctionOnSet(fun, U) = f[U]
    BY <2>2, <2>4, Sums
  <2>6. f[U] = fun[x] + f[S] /\ f[S] \in Nat
    BY <2>3, <2>5 DEF AddsUp
  <2>7. SumFunctionOnSet(fun, S) = f[S]
    BY <2>2, <2>3, <2>4, <2>5, SumOfParts
  <2>8. SumFunctionOnSet(fun, U) <= SumFunctionOnSet(fun, S) + fun[x]
    BY <2>2, <2>3, <2>5, <2>6, <2>7
  <2> QED BY <2>8 DEF U
<1> QED BY <1>1, <1>2

\* Who adds the same adds up to the same.
LEMMA SumOfSame ==
  ASSUME NEW S, IsFiniteSet(S), NEW f, NEW g, NEW fun, NEW gun, AddsUp(f, fun, S), AddsUp(g, gun, S),
         NEW T \in SUBSET S, \A y \in T : fun[y] = gun[y]
  PROVE  f[T] = g[T]
<1> DEFINE B == {t \in SUBSET T : f[t] # g[t]}
<1> SUFFICES ASSUME B # {} PROVE FALSE
  OBVIOUS
<1>1. PICK t \in B : \A u \in B : u \subseteq t => u = t
  <2>1. B \in SUBSET SUBSET S
    OBVIOUS
  <2> HIDE DEF B
  <2> QED BY <2>1, SmallestSet
<1> USE DEF AddsUp
<1>2. PICK y \in t : TRUE
  OBVIOUS
<1>3. f[t] = fun[y] + f[t \ {y}] /\ g[t] = gun[y] + g[t \ {y}] /\ fun[y] = gun[y]
  OBVIOUS
<1>4. f[t \ {y}] = g[t \ {y}]
  BY <1>1
<1> QED BY <1>3, <1>4

\* A sum changes by as much as the one term that changes.
THEOREM SumOfUpdate ==
  ASSUME NEW S, IsFiniteSet(S), NEW fun \in [S -> Nat], NEW gun \in [S -> Nat], NEW x \in S,
         \A y \in S : y # x => fun[y] = gun[y]
  PROVE  /\ SumFunction(fun) \in Nat /\ SumFunction(gun) \in Nat
         /\ SumFunction(gun) + fun[x] = SumFunction(fun) + gun[x]
<1>1. SumFunction(fun) = SumFunctionOnSet(fun, S) /\ SumFunction(gun) = SumFunctionOnSet(gun, S)
  BY DEF SumFunction
<1>2. (\A y \in S : fun[y] \in Nat) /\ (\A y \in S : gun[y] \in Nat)
  OBVIOUS
<1>3. PICK f : AddsUp(f, fun, S) /\ SumFunctionOnSet(fun, S) = f[S]
  BY <1>2, Sums
<1>4. PICK g : AddsUp(g, gun, S) /\ SumFunctionOnSet(gun, S) = g[S]
  BY <1>2, Sums
<1> DEFINE T == S \ {x}
<1>5. T \in SUBSET S /\ \A y \in T : fun[y] = gun[y]
  OBVIOUS
<1>6. f[S] = fun[x] + f[T] /\ g[S] = gun[x] + g[T] /\ f[T] \in Nat /\ g[T] \in Nat
  BY <1>3, <1>4 DEF AddsUp
<1> HIDE DEF T
<1>7. f[T] = g[T]
  BY <1>3, <1>4, <1>5, SumOfSame
<1>8. fun[x] \in Nat /\ gun[x] \in Nat
  OBVIOUS
<1> QED BY <1>1, <1>3, <1>4, <1>6, <1>7, <1>8

\* Nothing but zeros adds up to nothing.
THEOREM SumOfZeros ==
  ASSUME NEW S, IsFiniteSet(S), NEW fun \in [S -> Nat], \A x \in S : fun[x] = 0
  PROVE  SumFunction(fun) = 0
<1>1. PICK f : AddsUp(f, fun, S) /\ SumFunctionOnSet(fun, S) = f[S]
  BY Sums
<1> DEFINE B == {t \in SUBSET S : f[t] # 0}
<1>2. ASSUME B # {} PROVE FALSE
  <2>1. PICK t \in B : \A u \in B : u \subseteq t => u = t
    <3>1. B \in SUBSET SUBSET S
      OBVIOUS
    <3> HIDE DEF B
    <3> QED BY <1>2, <3>1, SmallestSet
  <2>2. PICK y \in t : TRUE
    BY <1>1 DEF AddsUp
  <2>3. f[t] = f[t \ {y}]
    BY <1>1 DEF AddsUp
  <2>4. f[t \ {y}] = 0
    BY <2>1
  <2> QED BY <2>3, <2>4
<1>3. f[S] = 0
  BY <1>2
<1> QED BY <1>1, <1>3 DEF SumFunction

-----------------------------------------------------------------------------
(* Folds of sequences from the left, which take the last element off.       *)

\* The greatest number of every set of them but the empty one.
LastOf(n) == [s \in SUBSET (1..n) |-> CHOOSE x \in s : \A y \in s : x >= y]

\* A set of numbers from 1 to n has a greatest one, and 1..k has k.
LEMMA LastChooses ==
  ASSUME NEW n \in Nat
  PROVE  /\ IsFiniteSet(1..n) /\ FoldChooses(LastOf(n), 1..n)
         /\ \A k \in 1..n : /\ LastOf(n)[1..k] = k /\ 1..k \in SUBSET (1..n) /\ 1..k # {}
                            /\ (1..k) \ {k} = 1..(k - 1)
<1>1. IsFiniteSet(1..n)
  BY FS_Interval
<1>2. ASSUME NEW s \in SUBSET (1..n), s # {} PROVE LastOf(n)[s] \in s
  <2> DEFINE B == {{y \in s : y >= x} : x \in s}
  <2>1. PICK b \in B : \A d \in B : d \subseteq b => d = b
    <3> DEFINE U == 1..n
    <3>1. B \in SUBSET SUBSET U /\ B # {} /\ IsFiniteSet(U)
      BY <1>1, <1>2
    <3> HIDE DEF B, U
    <3> QED BY <3>1, SmallestSet
  <2>2. PICK x \in s : b = {y \in s : y >= x}
    OBVIOUS
  <2>3. ASSUME NEW y \in s PROVE x >= y
    <3>1. x \in Nat /\ y \in Nat
      OBVIOUS
    <3>2. CASE y > x
      <4>1. {z \in s : z >= y} \subseteq b /\ {z \in s : z >= y} \in B
        <5>1. ASSUME NEW z \in s, z >= y PROVE z >= x
          <6>1. z \in Nat
            OBVIOUS
          <6> QED BY <3>1, <3>2, <5>1, <6>1
        <5> QED BY <2>2, <5>1
      <4>2. x \in b /\ ~(x \in {z \in s : z >= y})
        BY <2>2, <3>1, <3>2
      <4> QED BY <2>1, <4>1, <4>2
    <3> QED BY <3>1, <3>2
  <2>4. \E z \in s : \A y \in s : z >= y
    BY <2>3
  <2> QED BY <2>4 DEF LastOf
<1>3. ASSUME NEW k \in 1..n
      PROVE  /\ LastOf(n)[1..k] = k /\ 1..k \in SUBSET (1..n) /\ 1..k # {}
             /\ (1..k) \ {k} = 1..(k - 1)
  <2>1. 1..k \in SUBSET (1..n) /\ 1..k # {} /\ (1..k) \ {k} = 1..(k - 1)
    OBVIOUS
  <2>2. (CHOOSE x \in 1..k : \A y \in 1..k : x >= y) = k
    <3>1. \A x \in 1..k : (\A y \in 1..k : x >= y) <=> x = k
      OBVIOUS
    <3> QED BY <3>1
  <2> QED BY <2>1, <2>2 DEF LastOf
<1> QED BY <1>1, <1>2, <1>3 DEF FoldChooses

-----------------------------------------------------------------------------
(* Sequences in a row.                                                      *)

\* v holds the sequences of seqs in a row, for each number of them.
InARow(v, seqs, T) ==
  /\ v \in [0..Len(seqs) -> Seq(T)] /\ v[0] = <<>>
  /\ \A k \in 1..Len(seqs) : v[k] = v[k - 1] \o seqs[k]

\* There is such a v.
LEMMA RowExists ==
  ASSUME NEW T, NEW seqs \in Seq(Seq(T))
  PROVE  \E v : InARow(v, seqs, T)
<1> DEFINE n == Len(seqs)
           Row(v, m) == v \in [0..m -> Seq(T)] /\ v[0] = <<>> /\ \A k \in 1..m : v[k] = v[k - 1] \o seqs[k]
           B == {m \in 0..n : \A v : ~Row(v, m)}
<1>1. n \in Nat /\ \A k \in 1..n : seqs[k] \in Seq(T)
  OBVIOUS
<1>2. ASSUME B # {} PROVE FALSE
  <2>1. PICK m \in B : \A k \in B : m <= k
    <3>1. B \in SUBSET Nat
      <4> HIDE DEF Row
      <4> QED BY <1>1
    <3> HIDE DEF B
    <3> QED BY <1>2, <3>1, LeastNumber
  <2>2. m \in 0..n /\ (\A v : ~Row(v, m)) /\ \A k \in 0..n : k \notin B => \E v : Row(v, k)
    OBVIOUS
  <2>3. CASE m = 0
    <3> DEFINE v == [k \in 0..0 |-> <<>>]
    <3>1. <<>> \in Seq(T)
      OBVIOUS
    <3>2. Row(v, 0)
      BY <3>1
    <3> HIDE DEF Row
    <3> QED BY <2>2, <2>3, <3>2
  <2>4. CASE m # 0
    <3>1. m - 1 \in 0..n /\ m - 1 \notin B /\ m - 1 \in Nat /\ m \in 1..n
      <4> HIDE DEF B
      <4> QED BY <1>1, <2>1, <2>2, <2>4
    <3>2. PICK w : Row(w, m - 1)
      <4> HIDE DEF B, Row
      <4> QED BY <2>2, <3>1
    <3> DEFINE v == [k \in 0..m |-> IF k = m THEN w[m - 1] \o seqs[m] ELSE w[k]]
    <3>3. w[m - 1] \in Seq(T) /\ seqs[m] \in Seq(T)
      BY <1>1, <3>1, <3>2
    <3>4. v \in [0..m -> Seq(T)]
      <4>1. w[m - 1] \o seqs[m] \in Seq(T)
        BY <3>3
      <4>2. ASSUME NEW k \in 0..m, k # m PROVE w[k] \in Seq(T)
        <5>1. k \in 0..m - 1
          BY <3>1, <4>2
        <5> QED BY <3>2, <5>1
      <4> QED BY <4>1, <4>2
    <3>5. v[0] = <<>>
      BY <2>4, <3>1, <3>2
    <3>6. ASSUME NEW k \in 1..m PROVE v[k] = v[k - 1] \o seqs[k]
      <4>1. k \in 0..m /\ k - 1 \in 0..m /\ k - 1 # m
        BY <3>1
      <4>2. CASE k = m
        BY <4>1, <4>2
      <4>3. CASE k # m
        <5>1. k \in 1..m - 1
          BY <3>1, <4>3
        <5> QED BY <3>2, <4>1, <4>3, <5>1
      <4> QED BY <4>2, <4>3
    <3>7. Row(v, m)
      BY <3>4, <3>5, <3>6
    <3> HIDE DEF Row
    <3> QED BY <2>2, <3>7
  <2> QED BY <2>3, <2>4
<1>3. n \in 0..n /\ n \notin B
  <2> HIDE DEF B
  <2> QED BY <1>1, <1>2
<1>4. PICK v : Row(v, n)
  BY <1>3
<1> QED BY <1>4 DEF InARow

\* Flattened, they are in a row.
LEMMA FlattenedInARow ==
  ASSUME NEW T, NEW seqs \in Seq(Seq(T)), NEW v, InARow(v, seqs, T)
  PROVE  FlattenSeq(seqs) = v[Len(seqs)]
<1> DEFINE n == Len(seqs)
           it == CHOOSE f : f = [i \in 1..n |-> IF i = 1 THEN seqs[i] ELSE f[i - 1] \o seqs[i]]
<1>1. n \in Nat /\ \A k \in 1..n : seqs[k] \in Seq(T)
  OBVIOUS
<1>2. CASE n = 0
  <2>1. seqs = <<>> /\ FlattenSeq(seqs) = seqs
    BY <1>2 DEF FlattenSeq
  <2> QED BY <1>2, <2>1 DEF InARow
<1>3. CASE n # 0
  <2>1. FlattenSeq(seqs) = it[n]
    BY <1>3 DEF FlattenSeq
  <2> DEFINE g == [i \in 1..n |-> v[i]]
  <2>2. ASSUME NEW i \in 1..n
        PROVE  v[i] = IF i = 1 THEN seqs[i] ELSE g[i - 1] \o seqs[i]
    <3>1. v[i] = v[i - 1] \o seqs[i]
      BY DEF InARow
    <3>2. CASE i = 1
      <4>1. v[0] = <<>> /\ seqs[1] \in Seq(T)
        BY <1>1, <3>2 DEF InARow
      <4>2. <<>> \o seqs[1] = seqs[1]
        BY <4>1, ConcatEmptySeq
      <4>3. v[1] = v[0] \o seqs[1]
        <5>1. 1 - 1 = 0
          OBVIOUS
        <5> QED BY <3>1, <3>2, <5>1
      <4> QED BY <3>2, <4>1, <4>2, <4>3
    <3>3. CASE i # 1
      <4>1. i - 1 \in 1..n
        BY <1>1, <3>3
      <4> QED BY <3>1, <3>3, <4>1
    <3> QED BY <3>2, <3>3
  <2>3. g = [i \in 1..n |-> IF i = 1 THEN seqs[i] ELSE g[i - 1] \o seqs[i]]
    BY <2>2
  <2>4. it = [i \in 1..n |-> IF i = 1 THEN seqs[i] ELSE it[i - 1] \o seqs[i]]
    <3> HIDE DEF g
    <3> QED BY <2>3
  <2> DEFINE B == {i \in 1..n : it[i] # v[i]}
  <2> HIDE DEF it
  <2>5. ASSUME B # {} PROVE FALSE
    <3>1. PICK m \in B : \A k \in B : m <= k
      <4>1. B \in SUBSET Nat
        OBVIOUS
      <4> HIDE DEF B
      <4> QED BY <2>5, <4>1, LeastNumber
    <3>2. m \in 1..n /\ it[m] # v[m]
      OBVIOUS
    <3>3. it[m] = IF m = 1 THEN seqs[m] ELSE it[m - 1] \o seqs[m]
      BY <2>4, <3>2
    <3>4. m # 1
      BY <2>2, <3>2, <3>3
    <3>5. m - 1 \in 1..n /\ m - 1 \notin B
      BY <1>1, <3>1, <3>2, <3>4
    <3>6. it[m - 1] = v[m - 1]
      BY <3>5
    <3> QED BY <2>2, <3>2, <3>3, <3>4, <3>5, <3>6
  <2>6. n \in 1..n
    BY <1>1, <1>3
  <2> QED BY <2>1, <2>5, <2>6
<1> QED BY <1>2, <1>3

\* How far the first i of them reach.
RowEnds(v, i) == Len(v[i])

\* They lie one after the other: each where the one before it ends.
LaidOut(v, seqs) ==
  /\ RowEnds(v, 0) = 0
  /\ \A i \in 1..Len(seqs) : RowEnds(v, i) = RowEnds(v, i - 1) + Len(seqs[i])
  /\ \A i \in 0..Len(seqs) : RowEnds(v, i) \in Nat
  /\ \A m \in 0..Len(seqs) : \A k \in 1..RowEnds(v, m) :
       \E i \in 1..m : \E j \in 1..Len(seqs[i]) : k = RowEnds(v, i - 1) + j /\ v[m][k] = seqs[i][j]
  /\ \A m \in 0..Len(seqs) : \A i \in 1..m : \A j \in 1..Len(seqs[i]) :
       RowEnds(v, i - 1) + j \in 1..RowEnds(v, m) /\ v[m][RowEnds(v, i - 1) + j] = seqs[i][j]
LEMMA RowLayout ==
  ASSUME NEW T, NEW seqs \in Seq(Seq(T)), NEW v, InARow(v, seqs, T)
  PROVE  LaidOut(v, seqs)
<1> DEFINE n == Len(seqs)
<1>1. n \in Nat /\ \A k \in 1..n : seqs[k] \in Seq(T)
  OBVIOUS
<1>2. v \in [0..n -> Seq(T)] /\ v[0] = <<>> /\ \A k \in 1..n : v[k] = v[k - 1] \o seqs[k]
  BY DEF InARow
<1> HIDE DEF n
<1>3. RowEnds(v, 0) = 0
  <2>1. Len(<<>>) = 0
    OBVIOUS
  <2> QED BY <1>2, <2>1 DEF RowEnds
<1>4. \A i \in 0..n : RowEnds(v, i) \in Nat
  <2> SUFFICES ASSUME NEW i \in 0..n PROVE Len(v[i]) \in Nat
    BY DEF RowEnds
  <2>1. v[i] \in Seq(T)
    BY <1>2
  <2> QED BY <2>1
<1>5. ASSUME NEW i \in 1..n
      PROVE  /\ RowEnds(v, i) = RowEnds(v, i - 1) + Len(seqs[i])
             /\ Len(seqs[i]) \in Nat /\ i \in 0..n /\ i - 1 \in 0..n
             /\ \A k \in 1..RowEnds(v, i - 1) : v[i][k] = v[i - 1][k]
             /\ \A j \in 1..Len(seqs[i]) : v[i][RowEnds(v, i - 1) + j] = seqs[i][j]
  <2>1. i \in 0..n /\ i - 1 \in 0..n
    BY <1>1
  <2>2. PICK a \in Seq(T), b \in Seq(T) : a = v[i - 1] /\ b = seqs[i]
    BY <1>1, <1>2, <2>1
  <2>3. v[i] = a \o b
    BY <1>2, <2>2
  <2>4. /\ Len(a \o b) = Len(a) + Len(b) /\ Len(a) \in Nat /\ Len(b) \in Nat
        /\ \A k \in 1..Len(a) : (a \o b)[k] = a[k]
        /\ \A j \in 1..Len(b) : (a \o b)[Len(a) + j] = b[j]
    BY ConcatProperties
  <2> QED BY <2>1, <2>2, <2>3, <2>4 DEF RowEnds
<1> DEFINE Found(m) == \A k \in 1..RowEnds(v, m) :
              \E i \in 1..m : \E j \in 1..Len(seqs[i]) : k = RowEnds(v, i - 1) + j /\ v[m][k] = seqs[i][j]
           There(m) == \A i \in 1..m : \A j \in 1..Len(seqs[i]) :
              RowEnds(v, i - 1) + j \in 1..RowEnds(v, m) /\ v[m][RowEnds(v, i - 1) + j] = seqs[i][j]
           B == {m \in 0..n : ~(Found(m) /\ There(m))}
<1>6. ASSUME NEW m \in 1..n, Found(m - 1), There(m - 1) PROVE Found(m) /\ There(m)
  <2> DEFINE e == RowEnds(v, m - 1)
  <2>1. m - 1 \in 0..n /\ m \in 0..n /\ e \in Nat /\ Len(seqs[m]) \in Nat
        /\ RowEnds(v, m) = e + Len(seqs[m])
        /\ (\A k \in 1..e : v[m][k] = v[m - 1][k])
        /\ (\A j \in 1..Len(seqs[m]) : v[m][e + j] = seqs[m][j])
    BY <1>4, <1>5
  <2>2. ASSUME NEW k \in 1..RowEnds(v, m)
        PROVE  \E i \in 1..m : \E j \in 1..Len(seqs[i]) : k = RowEnds(v, i - 1) + j /\ v[m][k] = seqs[i][j]
    <3>1. CASE k <= e
      <4>1. k \in 1..e
        BY <2>1, <3>1
      <4>2. PICK i \in 1..m - 1 : \E j \in 1..Len(seqs[i]) : k = RowEnds(v, i - 1) + j /\ v[m - 1][k] = seqs[i][j]
        BY <1>6, <4>1
      <4>3. i \in 1..m
        BY <1>1
      <4>4. v[m][k] = v[m - 1][k]
        BY <2>1, <4>1
      <4> QED BY <4>2, <4>3, <4>4
    <3>2. CASE ~(k <= e)
      <4>1. k - e \in 1..Len(seqs[m]) /\ k = e + (k - e) /\ m \in 1..m
        BY <1>1, <2>1, <3>2
      <4>2. v[m][e + (k - e)] = seqs[m][k - e]
        BY <2>1, <4>1
      <4> QED BY <4>1, <4>2
    <3> QED BY <3>1, <3>2
  <2>3. ASSUME NEW i \in 1..m, NEW j \in 1..Len(seqs[i])
        PROVE  RowEnds(v, i - 1) + j \in 1..RowEnds(v, m) /\ v[m][RowEnds(v, i - 1) + j] = seqs[i][j]
    <3>1. CASE i = m
      <4>1. e + j \in 1..RowEnds(v, m)
        BY <2>1, <3>1
      <4> QED BY <2>1, <3>1, <4>1
    <3>2. CASE i # m
      <4>1. i \in 1..m - 1
        BY <1>1, <3>2
      <4>2. RowEnds(v, i - 1) + j \in 1..e /\ v[m - 1][RowEnds(v, i - 1) + j] = seqs[i][j]
        BY <1>6, <4>1
      <4>3. \A k \in 1..e : k \in 1..RowEnds(v, m)
        BY <2>1
      <4> QED BY <2>1, <4>2, <4>3
    <3> QED BY <3>1, <3>2
  <2> QED BY <2>2, <2>3
<1>7. Found(0) /\ There(0)
  <2>1. 1..0 = {}
    OBVIOUS
  <2> QED BY <1>3, <2>1
<1>8. ASSUME B # {} PROVE FALSE
  <2>1. PICK m \in B : \A k \in B : m <= k
    <3>1. B \in SUBSET Nat
      BY <1>1
    <3> HIDE DEF B
    <3> QED BY <1>8, <3>1, LeastNumber
  <2>2. m \in 0..n /\ ~(Found(m) /\ There(m))
    OBVIOUS
  <2>0. \A k \in 0..n : k \notin B => Found(k) /\ There(k)
    OBVIOUS
  <2> HIDE DEF Found, There, B
  <2>3. m # 0
    BY <1>7, <2>2
  <2>4. m \in 1..n /\ m - 1 \in 0..n /\ m - 1 \notin B
    BY <1>1, <2>1, <2>2, <2>3
  <2>5. Found(m - 1) /\ There(m - 1)
    BY <2>0, <2>4
  <2> QED BY <1>6, <2>2, <2>4, <2>5
<1>9. \A m \in 0..n : Found(m) /\ There(m)
  BY <1>8
<1> QED BY <1>3, <1>4, <1>5, <1>9 DEF n, LaidOut

\* Where k is in a row of parts, each with something in it, and what is beside it.
IsBeside(s, seqs, k, i, j) ==
  /\ i \in 1..Len(seqs) /\ j \in 1..Len(seqs[i]) /\ s[k] = seqs[i][j]
  /\ j > 1 => k > 1 /\ s[k - 1] = seqs[i][j - 1]
  /\ j < Len(seqs[i]) => k < Len(s) /\ s[k + 1] = seqs[i][j + 1]
  /\ j = 1 /\ k > 1 => i > 1 /\ s[k - 1] = seqs[i - 1][Len(seqs[i - 1])]
  /\ j = Len(seqs[i]) /\ k < Len(s) => i < Len(seqs) /\ s[k + 1] = seqs[i + 1][1]

\* Every place of a row is one of a part, and the parts follow each other.
LEMMA RowNeighbours ==
  ASSUME NEW T, NEW seqs \in Seq(Seq(T)), NEW v, InARow(v, seqs, T),
         \A i \in 1..Len(seqs) : Len(seqs[i]) # 0,
         NEW s, s = v[Len(seqs)], NEW k \in 1..Len(s)
  PROVE  \E i, j : IsBeside(s, seqs, k, i, j)
<1> DEFINE n == Len(seqs)
<1>0. LaidOut(v, seqs)
  BY RowLayout
<1>1. PICK E, L : E = [i \in 0..n |-> RowEnds(v, i)] /\ L = [i \in 1..n |-> Len(seqs[i])]
  OBVIOUS
<1>2. n \in Nat /\ Len(s) = E[n] /\ n \in 0..n
  BY <1>1 DEF RowEnds
<1>3. /\ \A i \in 1..n : L[i] = Len(seqs[i]) /\ L[i] \in Nat /\ L[i] # 0
      /\ \A i \in 0..n : E[i] \in Nat
  <2>1. \A i \in 1..n : seqs[i] \in Seq(T)
    OBVIOUS
  <2>2. \A i \in 0..n : RowEnds(v, i) \in Nat
    BY <1>0 DEF LaidOut
  <2> QED BY <1>1, <2>1, <2>2
<1>4. E[0] = 0 /\ \A i \in 1..n : E[i] = E[i - 1] + L[i]
  <2>1. RowEnds(v, 0) = 0 /\ \A i \in 1..n : RowEnds(v, i) = RowEnds(v, i - 1) + Len(seqs[i])
    BY <1>0 DEF LaidOut
  <2>2. 0 \in 0..n /\ \A i \in 1..n : i \in 0..n /\ i - 1 \in 0..n
    BY <1>2
  <2> QED BY <1>1, <2>1, <2>2
<1>5. \A i \in 1..n : \A j \in 1..L[i] : s[E[i - 1] + j] = seqs[i][j] /\ E[i - 1] + j \in 1..E[n]
  <2>1. \A m \in 0..n : \A i \in 1..m : \A j \in 1..Len(seqs[i]) :
          RowEnds(v, i - 1) + j \in 1..RowEnds(v, m) /\ v[m][RowEnds(v, i - 1) + j] = seqs[i][j]
    BY <1>0 DEF LaidOut
  <2>2. \A i \in 1..n : i - 1 \in 0..n
    BY <1>2
  <2> QED BY <1>1, <1>2, <2>1, <2>2
<1>6. \E i \in 1..n : \E j \in 1..L[i] : k = E[i - 1] + j
  <2>1. \A m \in 0..Len(seqs) : \A k_1 \in 1..RowEnds(v, m) :
          \E i \in 1..m : \E j \in 1..Len(seqs[i]) : k_1 = RowEnds(v, i - 1) + j /\ v[m][k_1] = seqs[i][j]
    BY <1>0 DEF LaidOut
  <2>2. k \in 1..RowEnds(v, n)
    BY <1>1, <1>2
  <2>3. \E x \in 1..n : \E h \in 1..Len(seqs[x]) : k = RowEnds(v, x - 1) + h
    BY <1>2, <2>1, <2>2
  <2>4. \A x \in 1..n : x - 1 \in 0..n
    BY <1>2
  <2> QED BY <1>1, <2>3, <2>4
<1>16. PICK i \in 1..n, j \in Nat : j \in 1..L[i] /\ k = E[i - 1] + j
  BY <1>3, <1>6
<1>7. i - 1 \in 0..n /\ i \in 0..n /\ E[i - 1] \in Nat /\ L[i] \in Nat /\ i \in Nat
  BY <1>2, <1>3
<1>17. PICK a \in Nat, l \in Nat : a = E[i - 1] /\ l = L[i]
  BY <1>7
<1>18. k = a + j /\ j \in 1..l /\ E[i] = a + l /\ k \in Nat
  BY <1>4, <1>16, <1>17
<1>8. s[k] = seqs[i][j]
  BY <1>5, <1>16
<1>9. ASSUME j > 1 PROVE k > 1 /\ s[k - 1] = seqs[i][j - 1]
  <2>1. j - 1 \in 1..l /\ k - 1 = a + (j - 1) /\ k > 1
    BY <1>18, <1>9
  <2> QED BY <1>5, <1>17, <2>1
<1>10. ASSUME j < L[i] PROVE k < E[n] /\ s[k + 1] = seqs[i][j + 1]
  <2>0. j < l
    BY <1>10, <1>17
  <2>1. j + 1 \in 1..l /\ k + 1 = a + (j + 1)
    BY <1>18, <2>0
  <2>2. s[k + 1] = seqs[i][j + 1] /\ k + 1 \in 1..E[n]
    BY <1>5, <1>17, <2>1
  <2>3. E[n] \in Nat
    BY <1>2, <1>3
  <2> QED BY <1>18, <2>2, <2>3
<1>11. ASSUME j = 1, k > 1 PROVE i > 1 /\ s[k - 1] = seqs[i - 1][L[i - 1]]
  <2>1. i # 1
    <3>1. i = 1 => a = 0
      BY <1>4, <1>17
    <3> QED BY <1>11, <1>18, <3>1
  <2>2. PICK h \in 1..n : h = i - 1 /\ i > 1
    BY <1>2, <1>7, <2>1
  <2>3. E[h] = E[h - 1] + L[h] /\ L[h] \in 1..L[h]
    BY <1>3, <1>4
  <2>4. k - 1 = E[h]
    BY <1>11, <1>17, <1>18, <2>2
  <2>5. PICK g : g = L[h]
    OBVIOUS
  <2>6. E[h - 1] + g = k - 1 /\ g \in 1..L[h]
    BY <2>3, <2>4, <2>5
  <2>7. s[k - 1] = seqs[h][g]
    BY <1>5, <2>6
  <2> QED BY <2>2, <2>5, <2>7
<1>12. ASSUME j = L[i], k < E[n] PROVE i < n /\ s[k + 1] = seqs[i + 1][1]
  <2>1. k = E[i]
    BY <1>12, <1>17, <1>18
  <2>2. i # n
    BY <1>2, <1>3, <1>12, <1>18, <2>1
  <2>3. PICK h \in 1..n : h = i + 1 /\ h - 1 = i /\ i < n
    BY <1>2, <1>7, <2>2
  <2>4. 1 \in 1..L[h] /\ E[h - 1] + 1 = k + 1
    BY <1>3, <2>1, <2>3
  <2> QED BY <1>5, <2>3, <2>4
<1>13. \A h \in 1..n : Len(seqs[h]) = L[h]
  BY <1>1
<1>14. i > 1 => i - 1 \in 1..n
  BY <1>2
<1>15. IsBeside(s, seqs, k, i, j)
  BY <1>2, <1>8, <1>9, <1>10, <1>11, <1>12, <1>13, <1>14, <1>16 DEF IsBeside
<1> QED BY <1>15

\* Every part of a row is in it, one place after the other.
LEMMA RowHolds ==
  ASSUME NEW T, NEW seqs \in Seq(Seq(T)), NEW v, InARow(v, seqs, T),
         NEW h \in 1..Len(seqs), NEW e \in 1..Len(seqs[h])
  PROVE  /\ RowEnds(v, h - 1) + e \in 1..Len(v[Len(seqs)])
         /\ v[Len(seqs)][RowEnds(v, h - 1) + e] = seqs[h][e]
<1>0. LaidOut(v, seqs)
  BY RowLayout
<1>1. \A m \in 0..Len(seqs) : \A i \in 1..m : \A j \in 1..Len(seqs[i]) :
        RowEnds(v, i - 1) + j \in 1..RowEnds(v, m) /\ v[m][RowEnds(v, i - 1) + j] = seqs[i][j]
  BY <1>0 DEF LaidOut
<1>2. Len(seqs) \in 0..Len(seqs)
  OBVIOUS
<1> QED BY <1>1, <1>2 DEF RowEnds

-----------------------------------------------------------------------------
(* Numbers: quotients, and the order of a set of them.                      *)

\* What division is: a quotient and a rest.
LEMMA Division ==
  ASSUME NEW a \in Nat, NEW d \in Nat \ {0}
  PROVE  \E q \in Nat, r \in 0..d - 1 : q = a \div d /\ r = a % d /\ a = q * d + r
<1>1. d \in Int /\ d > 0 /\ a \in Int
  OBVIOUS
<1>2. a \div d \in Int
  BY <1>1
<1>3. a \div d >= 0
  BY <1>1
<1>4. a % d \in 0..d - 1
  BY <1>1
<1>5. a = d * (a \div d) + (a % d)
  BY <1>1
<1>6. PICK q \in Nat, r \in 0..d - 1 : q = a \div d /\ r = a % d
  BY <1>2, <1>3, <1>4
<1>7. a = d * q + r /\ d * q = q * d
  BY <1>5, <1>6
<1> QED BY <1>6, <1>7

\* There is one of each.
LEMMA Quotients ==
  ASSUME NEW d \in Nat \ {0}, NEW p \in Nat, NEW q \in Nat, NEW r \in 0..d - 1, NEW s \in 0..d - 1,
         p * d + r = q * d + s
  PROVE  p = q /\ r = s
<1>1. CASE p = q
  BY <1>1
<1>2. CASE p < q
  <2>1. PICK k \in Nat : q = p + 1 + k
    <3>1. q - p - 1 \in Nat /\ q = p + 1 + (q - p - 1)
      BY <1>2
    <3> QED BY <3>1
  <2>2. q * d = p * d + d + k * d /\ k * d \in Nat /\ p * d \in Nat
    BY <2>1
  <2> QED BY <2>2
<1>3. CASE q < p
  <2>1. PICK k \in Nat : p = q + 1 + k
    <3>1. p - q - 1 \in Nat /\ p = q + 1 + (p - q - 1)
      BY <1>3
    <3> QED BY <3>1
  <2>2. p * d = q * d + d + k * d /\ k * d \in Nat /\ q * d \in Nat
    BY <2>1
  <2> QED BY <2>2
<1> QED BY <1>1, <1>2, <1>3

\* A quotient is less than what is divided allows.
LEMMA QuotientBelow ==
  ASSUME NEW a \in Nat, NEW b \in Nat, NEW m \in Nat, NEW q \in Nat, a * q + b < m * q
  PROVE  a < m
<1> SUFFICES ASSUME a >= m PROVE FALSE
  OBVIOUS
<1>1. PICK x \in Nat : a = m + x
  <2>1. a - m \in Nat /\ a = m + (a - m)
    OBVIOUS
  <2> QED BY <2>1
<1>2. a * q = m * q + x * q /\ x * q \in Nat /\ m * q \in Nat
  BY <1>1
<1> QED BY <1>2

\* Where the d-th of the c-th part of the a-th block is.
LEMMA BlockOfParts ==
  ASSUME NEW a \in Nat, NEW c \in Nat, NEW d \in Nat, NEW n \in Nat, NEW per \in Nat
  PROVE  a * (n * per) + (c * per + d) = (a * n + c) * per + d /\ a * n + c \in Nat
OBVIOUS

\* Smaller factors make smaller products.
LEMMA ProductsGrow ==
  ASSUME NEW a \in Nat, NEW b \in Nat, NEW d \in Nat, a <= b
  PROVE  a * d <= b * d /\ a * d \in Nat /\ b * d \in Nat
<1>1. PICK x \in Nat : b = a + x
  <2>1. b - a \in Nat /\ b = a + (b - a)
    OBVIOUS
  <2> QED BY <2>1
<1>2. b * d = a * d + x * d /\ x * d \in Nat /\ a * d \in Nat
  BY <1>1
<1> QED BY <1>2

\* The next multiple.
LEMMA OneLess ==
  ASSUME NEW k \in Nat \ {0}, NEW d \in Nat
  PROVE  k * d = (k - 1) * d + d /\ (k - 1) * d \in Nat /\ k * d \in Nat
<1>1. PICK a \in Nat : k = a + 1
  <2>1. k - 1 \in Nat /\ k = (k - 1) + 1
    OBVIOUS
  <2> QED BY <2>1
<1>2. k - 1 = a /\ (a + 1) * d = a * d + d /\ a * d \in Nat
  BY <1>1
<1> QED BY <1>1, <1>2

\* Among finitely many numbers one is the highest.
LEMMA HighestNumber ==
  ASSUME NEW t, t \subseteq Nat, IsFiniteSet(t), t # {}
  PROVE  \E m \in t : \A x \in t : x <= m
<1> DEFINE A == {{y \in t : y >= x} : x \in t}
<1>1. PICK a \in A : \A b \in A : b \subseteq a => b = a
  <2>1. A \in SUBSET SUBSET t /\ A # {}
    OBVIOUS
  <2> HIDE DEF A
  <2> QED BY ONLY IsFiniteSet(t), <2>1, SmallestSet
<1>2. PICK x \in t : a = {y \in t : y >= x}
  OBVIOUS
<1>3. ASSUME NEW y \in t PROVE y <= x
  <2>1. x \in Nat /\ y \in Nat
    OBVIOUS
  <2>2. CASE y > x
    <3>1. {z \in t : z >= y} \in A /\ {z \in t : z >= y} \subseteq a
      <4>1. ASSUME NEW z \in t, z >= y PROVE z >= x
        <5>1. z \in Nat
          OBVIOUS
        <5> QED BY <2>1, <2>2, <4>1, <5>1
      <4> QED BY <1>2, <4>1
    <3>2. x \in a /\ ~(x \in {z \in t : z >= y})
      BY <1>2, <2>1, <2>2
    <3> QED BY <1>1, <3>1, <3>2
  <2> QED BY <2>1, <2>2
<1> QED BY <1>3

\* s counts the numbers of t up, in their order.
CountsUp(s, t) ==
  s \in [1..Cardinality(t) -> t] /\ \A i, j \in DOMAIN s : i < j => s[i] < s[j]

\* Finitely many numbers have an order.
LEMMA OrderExists ==
  ASSUME NEW S, S \subseteq Nat, IsFiniteSet(S)
  PROVE  \E s : CountsUp(s, S)
<1> DEFINE B == {t \in SUBSET S : \A s : ~CountsUp(s, t)}
<1> SUFFICES ASSUME B # {} PROVE FALSE
  <2>1. B = {} => S \notin B
    OBVIOUS
  <2>2. S \in SUBSET S
    OBVIOUS
  <2> QED BY <2>1, <2>2
<1>1. PICK t \in B : \A u \in B : u \subseteq t => u = t
  <2>1. B \in SUBSET SUBSET S
    OBVIOUS
  <2> HIDE DEF B
  <2> QED BY ONLY <2>1, IsFiniteSet(S), B # {}, SmallestSet
<1>2. t \in SUBSET S /\ (\A s : ~CountsUp(s, t)) /\ \A u \in SUBSET S : u \notin B => \E s : CountsUp(s, u)
  OBVIOUS
<1>3. IsFiniteSet(t)
  BY <1>2, FS_Subset
<1>4. t # {}
  <2>1. ASSUME t = {} PROVE CountsUp(<<>>, t)
    <3>1. Cardinality(t) = 0
      BY <2>1, FS_EmptySet
    <3>2. <<>> \in [1..0 -> {}] /\ DOMAIN <<>> = {}
      OBVIOUS
    <3> QED BY <2>1, <3>1, <3>2 DEF CountsUp
  <2> QED BY <1>2, <2>1
<1>5. PICK m \in t : \A x \in t : x <= m
  <2>1. t \subseteq Nat
    BY <1>2
  <2> QED BY ONLY <1>3, <1>4, <2>1, HighestNumber
<1> DEFINE u == t \ {m}
<1>6. u \in SUBSET S /\ u \notin B
  <2>1. u \in SUBSET S /\ u \subseteq t /\ u # t
    BY <1>2
  <2> HIDE DEF B, u
  <2> QED BY <1>1, <2>1
<1>7. PICK s : CountsUp(s, u)
  <2> HIDE DEF B, u
  <2> QED BY <1>2, <1>6
<1>8. PICK n \in Nat : n = Cardinality(u) /\ Cardinality(t) = n + 1
  <2>1. Cardinality(u) = Cardinality(t) - 1 /\ Cardinality(t) \in Nat /\ Cardinality(u) \in Nat
    BY <1>3, FS_RemoveElement, FS_CardinalityType
  <2> QED BY <2>1
<1> DEFINE r == [i \in 1..n + 1 |-> IF i = n + 1 THEN m ELSE s[i]]
<1>9. s \in [1..n -> u] /\ \A i, j \in 1..n : i < j => s[i] < s[j]
  BY <1>7, <1>8 DEF CountsUp
<1>10. r \in [1..Cardinality(t) -> t] /\ DOMAIN r = 1..n + 1
  <2>1. ASSUME NEW i \in 1..n + 1, i # n + 1 PROVE s[i] \in t
    <3>1. i \in 1..n
      BY <2>1
    <3> QED BY <1>9, <3>1
  <2> QED BY <1>8, <2>1
<1>11. ASSUME NEW i \in 1..n + 1, NEW j \in 1..n + 1, i < j PROVE r[i] < r[j]
  <2>1. i \in 1..n /\ i # n + 1
    BY <1>11
  <2>2. CASE j = n + 1
    <3>1. r[i] = s[i] /\ r[j] = m /\ s[i] \in u
      BY <1>9, <2>1, <2>2
    <3>2. s[i] \in Nat /\ m \in Nat /\ s[i] <= m /\ s[i] # m
      BY <1>2, <1>5, <3>1
    <3> QED BY <3>1, <3>2
  <2>3. CASE j # n + 1
    <3>1. j \in 1..n
      BY <2>3
    <3> QED BY <1>9, <1>11, <2>1, <2>3, <3>1
  <2> QED BY <2>2, <2>3
<1>12. CountsUp(r, t)
  BY <1>10, <1>11 DEF CountsUp
<1> QED BY <1>2, <1>12
=============================================================================
