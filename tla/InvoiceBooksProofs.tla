------------------------- MODULE InvoiceBooksProofs -------------------------
(***************************************************************************)
(* The books of one company: the credits and payments of an invoice        *)
(* (InvoiceCredit) for every invoice, and the numbers of its invoices      *)
(* (InvoiceNumbering) for every format and every set of clients.           *)
(*                                                                         *)
(* Both rest on induction over data.  The induction theorems of the        *)
(* library take an operator as a parameter, so the two principles the      *)
(* proofs need are stated over sets here, from the minimum principle of    *)
(* WellFoundedInduction, and with them what a sum over a finite set and a  *)
(* power are.                                                              *)
(***************************************************************************)
EXTENDS InvoiceNumbering, InvoiceCredit, TLAPS, WellFoundedInduction,
        FiniteSetTheorems, SequenceTheorems

-----------------------------------------------------------------------------
(* Induction and sums.                                                       *)

\* A set of numbers that is not empty has a least element.
LEMMA LeastNumber ==
  ASSUME NEW T, T \subseteq Nat, T # {}
  PROVE  \E x \in T : \A y \in T : x <= y
<1> DEFINE R == OpToRel(<, Nat)
<1>1. R = {ss \in Nat \X Nat : ss[1] < ss[2]} BY DEF OpToRel
<1>2. IsWellFoundedOn(R, Nat) BY NatLessThanWellFounded
<1> HIDE DEF R
<1>3. PICK x \in T : \A y \in T : ~ (<<y, x>> \in R) BY <1>2, WFMin, Zenon
<1>4. \A y \in Nat : y < x => <<y, x>> \in R BY <1>1, x \in Nat
<1>5. \A y \in T : ~ (y < x) BY <1>3, <1>4
<1>6. \A y \in T : x <= y BY <1>5, x \in Nat
<1> QED BY <1>6

\* Induction over the numbers, as a statement about sets: no operator is
\* passed.
LEMMA NumberInduction ==
  ASSUME NEW T, T \subseteq Nat, 0 \in T, \A n \in T : n + 1 \in T
  PROVE  T = Nat
<1> SUFFICES ASSUME T # Nat PROVE FALSE OBVIOUS
<1> DEFINE U == Nat \ T
<1>1. U \subseteq Nat /\ U # {} OBVIOUS
<1> HIDE DEF U
<1>2. PICK x \in U : \A y \in U : x <= y BY <1>1, LeastNumber
<1>3. x \in Nat /\ x # 0 BY <1>2 DEF U
<1>4. x - 1 \notin U BY <1>2, <1>1, <1>3
<1> QED BY <1>4, <1>3, <1>2 DEF U

\* A set of subsets of a finite set that is not empty has a minimal element.
LEMMA LeastSet ==
  ASSUME NEW S, IsFiniteSet(S), NEW T, T \subseteq SUBSET S, T # {}
  PROVE  \E x \in T : \A y \in T : y \subseteq x => y = x
<1>1. IsWellFoundedOn(StrictSubsetOrdering(S), SUBSET S)
  BY FS_StrictSubsetOrderingWellFounded, FS_FiniteSubsetsOfFinite
<1>2. PICK x \in T : \A y \in T : ~ (<<y, x>> \in StrictSubsetOrdering(S))
  BY <1>1, WFMin, Zenon
<1>3. \A y \in T : y \subseteq x /\ y # x => <<y, x>> \in StrictSubsetOrdering(S)
  BY DEF StrictSubsetOrdering
<1>4. \A y \in T : y \subseteq x => y = x BY <1>2, <1>3
<1> QED BY <1>4

\* Induction over the subsets of a finite set.
LEMMA SetInduction ==
  ASSUME NEW S, IsFiniteSet(S), NEW T, T \subseteq SUBSET S, {} \in T,
         \A s \in SUBSET S : \A x \in s : s \ {x} \in T => s \in T
  PROVE  T = SUBSET S
<1> SUFFICES ASSUME T # SUBSET S PROVE FALSE OBVIOUS
<1> DEFINE U == (SUBSET S) \ T
<1>1. U \subseteq SUBSET S /\ U # {} OBVIOUS
<1> HIDE DEF U
<1>2. PICK s \in U : \A y \in U : y \subseteq s => y = s BY <1>1, LeastSet
<1>3. s \in SUBSET S /\ s # {} /\ s \notin T BY <1>2 DEF U
<1>4. PICK x \in s : TRUE BY <1>3
<1>5. s \ {x} \in SUBSET S /\ s \ {x} \subseteq s /\ s \ {x} # s BY <1>3, <1>4
<1>6. s \ {x} \in T BY <1>5, <1>2 DEF U
<1> QED BY <1>6, <1>3, <1>4

\* The element the fold of the Functions module takes next.
Chosen(s) == CHOOSE x \in s : TRUE

\* g is the fold that sums f over each subset of S.
Folded(f, S, g) ==
  g = [s \in SUBSET S |-> IF s = {} THEN 0 ELSE f[Chosen(s)] + g[s \ {Chosen(s)}]]

\* The element taken is one of the set.
LEMMA ChosenIn == \A s : s # {} => Chosen(s) \in s
  BY DEF Chosen

\* What the fold is at a subset.
LEMMA FoldedAt ==
  ASSUME NEW f, NEW S, NEW g, Folded(f, S, g), NEW s \in SUBSET S
  PROVE  g[s] = IF s = {} THEN 0 ELSE f[Chosen(s)] + g[s \ {Chosen(s)}]
BY DEF Folded

\* Folds over two supersets agree: the recursion has one solution.
LEMMA FoldedUnique ==
  ASSUME NEW f, NEW S, IsFiniteSet(S), NEW V, S \subseteq V, NEW g, NEW h,
         Folded(f, V, g), Folded(f, S, h)
  PROVE  g[S] = h[S]
<1> DEFINE T == {s \in SUBSET S : g[s] # h[s]}
<1> SUFFICES ASSUME T # {} PROVE FALSE OBVIOUS
<1>1. T \subseteq SUBSET S OBVIOUS
<1>2. PICK s \in T : \A y \in T : y \subseteq s => y = s
  <2> HIDE DEF T
  <2> QED BY <1>1, LeastSet
<1>3. s \in SUBSET S /\ s \in SUBSET V OBVIOUS
<1>4. /\ g[s] = IF s = {} THEN 0 ELSE f[Chosen(s)] + g[s \ {Chosen(s)}]
      /\ h[s] = IF s = {} THEN 0 ELSE f[Chosen(s)] + h[s \ {Chosen(s)}]
  BY <1>3, FoldedAt
<1>5. s # {} BY <1>4
<1>6. Chosen(s) \in s BY <1>5, ChosenIn
<1>7. s \ {Chosen(s)} \notin T BY <1>6, <1>2
<1>8. g[s \ {Chosen(s)}] = h[s \ {Chosen(s)}] BY <1>7, <1>3
<1> QED BY <1>8, <1>4, <1>5

\* The recursion has a solution, so that the CHOOSE of the fold finds one.
LEMMA FoldedExists ==
  ASSUME NEW f, NEW S, IsFiniteSet(S)
  PROVE  \E g : Folded(f, S, g)
<1> DEFINE T == {s \in SUBSET S : ~ \E g : Folded(f, s, g)}
<1> SUFFICES ASSUME T # {} PROVE FALSE OBVIOUS
<1>1. T \subseteq SUBSET S OBVIOUS
<1>2. PICK U \in T : \A y \in T : y \subseteq U => y = U
  <2> HIDE DEF T
  <2> QED BY <1>1, LeastSet
<1> DEFINE G(V) == CHOOSE g : Folded(f, V, g)
<1>3. \A V \in SUBSET U : V # U => Folded(f, V, G(V)) BY <1>2
<1> DEFINE rest(s) == s \ {Chosen(s)}
           h == [s \in SUBSET U |-> IF s = {} THEN 0 ELSE f[Chosen(s)] + G(rest(s))[rest(s)]]
<1>4. ASSUME NEW V \in SUBSET U, V # U PROVE h[V] = G(V)[V]
  <2>1. Folded(f, V, G(V)) BY <1>3, <1>4
  <2> HIDE DEF G
  <2>2. G(V)[V] = IF V = {} THEN 0 ELSE f[Chosen(V)] + G(V)[rest(V)] BY <2>1, FoldedAt
  <2>3. CASE V = {} BY <2>2, <2>3
  <2>4. CASE V # {}
    <3>1. Chosen(V) \in V BY <2>4, ChosenIn
    <3>2. rest(V) \in SUBSET U /\ rest(V) \subseteq V /\ rest(V) # U BY <3>1
    <3>3. Folded(f, rest(V), G(rest(V))) BY <3>2, <1>3
    <3>4. IsFiniteSet(rest(V)) BY <3>2, FS_Subset
    <3>5. G(V)[rest(V)] = G(rest(V))[rest(V)] BY <3>2, <3>3, <3>4, <2>1, FoldedUnique
    <3> QED BY <3>5, <2>2, <2>4
  <2> QED BY <2>3, <2>4
<1> HIDE DEF G
<1>5. ASSUME NEW s \in SUBSET U
      PROVE  h[s] = IF s = {} THEN 0 ELSE f[Chosen(s)] + h[rest(s)]
  <2>1. CASE s = {} BY <2>1
  <2>2. CASE s # {}
    <3>1. Chosen(s) \in s BY <2>2, ChosenIn
    <3>2. rest(s) \in SUBSET U /\ rest(s) # U BY <3>1
    <3>3. h[rest(s)] = G(rest(s))[rest(s)] BY <3>2, <1>4
    <3>4. h[s] = f[Chosen(s)] + G(rest(s))[rest(s)] BY <2>2
    <3> QED BY <3>3, <3>4, <2>2
  <2> QED BY <2>1, <2>2
<1>6. Folded(f, U, h)
  <2>1. h = [s \in SUBSET U |-> h[s]] OBVIOUS
  <2> HIDE DEF h
  <2>2. h = [s \in SUBSET U |-> IF s = {} THEN 0 ELSE f[Chosen(s)] + h[rest(s)]] BY <2>1, <1>5
  <2> QED BY <2>2 DEF Folded
<1> HIDE DEF h
<1> QED BY <1>6

\* SumFunctionOnSet is the fold over its set.
LEMMA SumIs ==
  ASSUME NEW f, NEW S
  PROVE  SumFunctionOnSet(f, S) = (CHOOSE g : Folded(f, S, g))[S]
BY DEF SumFunctionOnSet, FoldFunctionOnSet, MapThenFoldSet, Folded, Chosen

\* Any fold may be used in its place.
LEMMA SumFolded ==
  ASSUME NEW f, NEW S, IsFiniteSet(S), NEW g, Folded(f, S, g)
  PROVE  SumFunctionOnSet(f, S) = g[S]
<1> DEFINE h == CHOOSE x : Folded(f, S, x)
<1>1. Folded(f, S, h) OBVIOUS
<1>2. SumFunctionOnSet(f, S) = h[S] BY SumIs
<1> HIDE DEF h
<1>3. g[S] = h[S] BY <1>1, FoldedUnique
<1> QED BY <1>2, <1>3

\* One step of the recursion.
LEMMA SumStep ==
  ASSUME NEW f, NEW S, IsFiniteSet(S)
  PROVE  SumFunctionOnSet(f, S) =
           IF S = {} THEN 0 ELSE f[Chosen(S)] + SumFunctionOnSet(f, S \ {Chosen(S)})
<1>1. PICK g : Folded(f, S, g) BY FoldedExists
<1>2. SumFunctionOnSet(f, S) = g[S] BY <1>1, SumFolded
<1>3. g[S] = IF S = {} THEN 0 ELSE f[Chosen(S)] + g[S \ {Chosen(S)}] BY <1>1, FoldedAt
<1> DEFINE R == S \ {Chosen(S)}
<1>4. R \subseteq S OBVIOUS
<1>5. IsFiniteSet(R) BY <1>4, FS_Subset
<1> HIDE DEF R
<1>6. PICK h : Folded(f, R, h) BY <1>5, FoldedExists
<1>7. SumFunctionOnSet(f, R) = h[R] BY <1>5, <1>6, SumFolded
<1>8. g[R] = h[R] BY <1>1, <1>4, <1>5, <1>6, FoldedUnique
<1> QED BY <1>2, <1>3, <1>7, <1>8 DEF R

\* The sum of f over S, under a name the proofs do not expand.
Sum(f, S) == SumFunctionOnSet(f, S)

\* Nothing sums to zero.
LEMMA SumEmpty == \A f : Sum(f, {}) = 0
BY SumStep, FS_EmptySet DEF Sum

\* A sum of integers is an integer.
LEMMA SumType ==
  ASSUME NEW S, IsFiniteSet(S), NEW f, \A x \in S : f[x] \in Int
  PROVE  Sum(f, S) \in Int
<1> DEFINE T == {s \in SUBSET S : Sum(f, s) \notin Int}
<1> SUFFICES ASSUME T # {} PROVE FALSE OBVIOUS
<1>1. T \subseteq SUBSET S OBVIOUS
<1>2. PICK s \in T : \A y \in T : y \subseteq s => y = s
  <2> HIDE DEF T
  <2> QED BY <1>1, LeastSet
<1>3. IsFiniteSet(s) BY FS_Subset
<1>4. s # {} BY SumEmpty
<1>5. Chosen(s) \in s BY <1>4, ChosenIn
<1>6. s \ {Chosen(s)} \notin T BY <1>5, <1>2
<1>7. Sum(f, s \ {Chosen(s)}) \in Int BY <1>6
<1>8. Sum(f, s) = f[Chosen(s)] + Sum(f, s \ {Chosen(s)}) BY <1>3, <1>4, SumStep DEF Sum
<1>9. f[Chosen(s)] \in Int BY <1>5
<1> QED BY <1>7, <1>8, <1>9

\* Any summand may be taken out, whatever order the fold uses.
LEMMA SumRemove ==
  ASSUME NEW S, IsFiniteSet(S), NEW f, \A x \in S : f[x] \in Int, NEW x \in S
  PROVE  Sum(f, S) = f[x] + Sum(f, S \ {x})
<1> DEFINE T == {s \in SUBSET S : \E y \in s : Sum(f, s) # f[y] + Sum(f, s \ {y})}
<1> SUFFICES ASSUME T # {} PROVE FALSE OBVIOUS
<1>1. T \subseteq SUBSET S OBVIOUS
<1>2. PICK s \in T : \A y \in T : y \subseteq s => y = s
  <2> HIDE DEF T
  <2> QED BY <1>1, LeastSet
<1>3. PICK y \in s : Sum(f, s) # f[y] + Sum(f, s \ {y}) OBVIOUS
<1>4. \A v \in SUBSET s : IsFiniteSet(v) /\ Sum(f, v) \in Int
  BY FS_Subset, SumType
<1> DEFINE c == Chosen(s)
<1>5. c \in s BY <1>3, ChosenIn
<1>6. Sum(f, s) = f[c] + Sum(f, s \ {c}) BY <1>4, <1>5, SumStep DEF Sum
<1>7. c # y BY <1>6, <1>3
<1> HIDE DEF c
<1>8. s \ {c} \notin T /\ s \ {y} \notin T BY <1>2, <1>5
<1>9. Sum(f, s \ {c}) = f[y] + Sum(f, (s \ {c}) \ {y}) BY <1>8, <1>7
<1>10. Sum(f, s \ {y}) = f[c] + Sum(f, (s \ {y}) \ {c}) BY <1>8, <1>7, <1>5
<1>11. (s \ {y}) \ {c} = (s \ {c}) \ {y} OBVIOUS
<1>12. f[c] \in Int /\ f[y] \in Int /\ Sum(f, (s \ {c}) \ {y}) \in Int BY <1>5, <1>4
<1> DEFINE a == Sum(f, s) b == Sum(f, s \ {c}) d == Sum(f, s \ {y}) e == Sum(f, (s \ {c}) \ {y})
           u == f[c] v == f[y]
<1>13. a = u + b /\ b = v + e /\ d = u + e /\ u \in Int /\ v \in Int /\ e \in Int /\ a # v + d
  BY <1>3, <1>6, <1>9, <1>10, <1>11, <1>12
<1> HIDE DEF T, a, b, d, e, u, v
<1> QED BY <1>13

\* A new summand is added to the sum.
LEMMA SumInsert ==
  ASSUME NEW S, IsFiniteSet(S), NEW x, x \notin S, NEW f, \A y \in S \cup {x} : f[y] \in Int
  PROVE  Sum(f, S \cup {x}) = Sum(f, S) + f[x]
<1>1. IsFiniteSet(S \cup {x}) BY FS_AddElement
<1>2. (S \cup {x}) \ {x} = S OBVIOUS
<1>3. Sum(f, S \cup {x}) = f[x] + Sum(f, S) BY <1>1, <1>2, SumRemove
<1>4. Sum(f, S) \in Int BY SumType
<1> QED BY <1>3, <1>4

\* The sum depends on the values of the summands alone.
LEMMA SumSame ==
  ASSUME NEW S, IsFiniteSet(S), NEW f, NEW g, \A x \in S : f[x] = g[x]
  PROVE  Sum(f, S) = Sum(g, S)
<1> DEFINE T == {s \in SUBSET S : Sum(f, s) # Sum(g, s)}
<1> SUFFICES ASSUME T # {} PROVE FALSE OBVIOUS
<1>1. T \subseteq SUBSET S OBVIOUS
<1>2. PICK s \in T : \A y \in T : y \subseteq s => y = s
  <2> HIDE DEF T
  <2> QED BY <1>1, LeastSet
<1>3. IsFiniteSet(s) BY FS_Subset
<1>4. s # {} BY SumEmpty
<1>5. Chosen(s) \in s BY <1>4, ChosenIn
<1>6. s \ {Chosen(s)} \notin T BY <1>5, <1>2
<1>8. /\ Sum(f, s) = f[Chosen(s)] + Sum(f, s \ {Chosen(s)})
      /\ Sum(g, s) = g[Chosen(s)] + Sum(g, s \ {Chosen(s)}) BY <1>3, <1>4, SumStep DEF Sum
<1> QED BY <1>6, <1>8, <1>5

\* The sum over two disjoint sets is the sum of their sums.
LEMMA SumUnion ==
  ASSUME NEW S, IsFiniteSet(S), NEW U, IsFiniteSet(U), S \cap U = {},
         NEW f, \A x \in S \cup U : f[x] \in Int
  PROVE  Sum(f, S \cup U) = Sum(f, S) + Sum(f, U)
<1> DEFINE T == {u \in SUBSET U : Sum(f, S \cup u) = Sum(f, S) + Sum(f, u)}
<1>1. T \subseteq SUBSET U OBVIOUS
<1>2. {} \in T
  <2>1. S \cup {} = S OBVIOUS
  <2>2. Sum(f, {}) = 0 BY SumEmpty
  <2>3. Sum(f, S) \in Int BY SumType
  <2> QED BY <2>1, <2>2, <2>3
<1>3. ASSUME NEW u \in SUBSET U, NEW x \in u, u \ {x} \in T PROVE u \in T
  <2> DEFINE v == u \ {x}
  <2>1. /\ IsFiniteSet(v) /\ IsFiniteSet(S \cup v) BY FS_Subset, FS_Union
  <2>2. /\ u = v \cup {x} /\ x \notin v /\ x \notin S \cup v /\ S \cup u = (S \cup v) \cup {x}
        /\ \A y \in v \cup {x} : f[y] \in Int
        /\ \A y \in (S \cup v) \cup {x} : f[y] \in Int
    OBVIOUS
  <2>3. Sum(f, S \cup v) = Sum(f, S) + Sum(f, v) BY <1>3
  <2> HIDE DEF v
  <2>4. Sum(f, u) = Sum(f, v) + f[x] BY <2>1, <2>2, SumInsert
  <2>5. Sum(f, S \cup u) = Sum(f, S \cup v) + f[x] BY <2>1, <2>2, SumInsert
  <2>6. Sum(f, S) \in Int /\ Sum(f, v) \in Int /\ f[x] \in Int BY <2>1, <2>2, SumType
  <2> QED BY <2>3, <2>4, <2>5, <2>6
<1> HIDE DEF T
<1>4. T = SUBSET U BY <1>1, <1>2, <1>3, SetInduction
<1> QED BY <1>4 DEF T

\* Smaller summands have a smaller sum.
LEMMA SumOrder ==
  ASSUME NEW S, IsFiniteSet(S), NEW f, NEW g,
         \A x \in S : f[x] \in Int /\ g[x] \in Int /\ f[x] <= g[x]
  PROVE  Sum(f, S) <= Sum(g, S)
<1> DEFINE T == {s \in SUBSET S : ~ (Sum(f, s) <= Sum(g, s))}
<1> SUFFICES ASSUME T # {} PROVE FALSE OBVIOUS
<1>1. T \subseteq SUBSET S OBVIOUS
<1>2. PICK s \in T : \A y \in T : y \subseteq s => y = s
  <2> HIDE DEF T
  <2> QED BY <1>1, LeastSet
<1>3. IsFiniteSet(s) BY FS_Subset
<1>4. s # {} BY SumEmpty
<1>5. Chosen(s) \in s BY <1>4, ChosenIn
<1>6. s \ {Chosen(s)} \notin T BY <1>5, <1>2
<1>7. Sum(f, s \ {Chosen(s)}) \in Int /\ Sum(g, s \ {Chosen(s)}) \in Int
  BY FS_Subset, SumType
<1>8. /\ Sum(f, s) = f[Chosen(s)] + Sum(f, s \ {Chosen(s)})
      /\ Sum(g, s) = g[Chosen(s)] + Sum(g, s \ {Chosen(s)}) BY <1>3, <1>4, SumStep DEF Sum
<1>9. Sum(f, s \ {Chosen(s)}) <= Sum(g, s \ {Chosen(s)}) BY <1>6
<1>10. f[Chosen(s)] \in Int /\ g[Chosen(s)] \in Int /\ f[Chosen(s)] <= g[Chosen(s)] BY <1>5
<1>11. Sum(f, s) <= Sum(g, s) BY <1>7, <1>8, <1>9, <1>10
<1> QED BY <1>11

\* A sum of natural numbers is natural.
LEMMA SumNatural ==
  ASSUME NEW S, IsFiniteSet(S), NEW f, \A x \in S : f[x] \in Nat
  PROVE  Sum(f, S) \in Nat
<1> DEFINE T == {s \in SUBSET S : Sum(f, s) \in Nat}
<1>1. T \subseteq SUBSET S OBVIOUS
<1>2. {} \in T BY SumEmpty
<1>3. ASSUME NEW s \in SUBSET S, NEW x \in s, s \ {x} \in T PROVE s \in T
  <2>1. IsFiniteSet(s) BY FS_Subset
  <2>2. Sum(f, s) = f[x] + Sum(f, s \ {x}) BY <2>1, SumRemove
  <2> QED BY <2>2, <1>3
<1> HIDE DEF T
<1>4. T = SUBSET S BY <1>1, <1>2, <1>3, SetInduction
<1> QED BY <1>4 DEF T

\* A sum may be taken over the images under an injection.
LEMMA SumImage ==
  ASSUME NEW S, IsFiniteSet(S), NEW h, NEW f, NEW g,
         \A x, y \in S : h[x] = h[y] => x = y,
         \A x \in S : f[h[x]] = g[x] /\ g[x] \in Int,
         NEW I, I = {h[x] : x \in S}
  PROVE  IsFiniteSet(I) /\ Sum(f, I) = Sum(g, S)
<1> DEFINE image(s) == {h[x] : x \in s}
           T == {s \in SUBSET S : IsFiniteSet(image(s)) /\ Sum(f, image(s)) = Sum(g, s)}
<1>1. T \subseteq SUBSET S OBVIOUS
<1>2. {} \in T
  <2>1. image({}) = {} OBVIOUS
  <2> QED BY <2>1, SumEmpty, FS_EmptySet
<1>3. ASSUME NEW s \in SUBSET S, NEW x \in s, s \ {x} \in T PROVE s \in T
  <2> DEFINE v == s \ {x}
  <2>1. IsFiniteSet(v) BY FS_Subset
  <2>2. IsFiniteSet(image(v)) /\ Sum(f, image(v)) = Sum(g, v) BY <1>3
  <2>3. image(s) = image(v) \cup {h[x]} OBVIOUS
  <2>4. h[x] \notin image(v) OBVIOUS
  <2>5. \A y \in image(v) \cup {h[x]} : f[y] \in Int OBVIOUS
  <2>6. f[h[x]] = g[x] OBVIOUS
  <2>7. s = v \cup {x} /\ x \notin v /\ \A y \in v \cup {x} : g[y] \in Int OBVIOUS
  <2> DEFINE J == image(v) hx == h[x]
  <2>8. /\ IsFiniteSet(J) /\ hx \notin J /\ \A y \in J \cup {hx} : f[y] \in Int
    BY <2>2, <2>4, <2>5
  <2>12. Sum(f, J) = Sum(g, v) /\ f[hx] = g[x] /\ image(s) = J \cup {hx}
    BY <2>2, <2>3, <2>6
  <2> HIDE DEF J, v, hx
  <2>9. Sum(f, J \cup {hx}) = Sum(f, J) + f[hx] BY <2>8, SumInsert, Zenon
  <2>10. Sum(g, s) = Sum(g, v) + g[x] BY <2>1, <2>7, SumInsert
  <2>11. IsFiniteSet(J \cup {hx}) BY <2>8, FS_AddElement
  <2> QED BY <2>12, <2>9, <2>10, <2>11
<1> HIDE DEF T
<1>4. T = SUBSET S BY <1>1, <1>2, <1>3, SetInduction
<1>5. I = image(S) OBVIOUS
<1>6. S \in T BY <1>4
<1> QED BY <1>5, <1>6 DEF T

\* A sum may be reindexed by a bijection.
LEMMA SumBijection ==
  ASSUME NEW S, IsFiniteSet(S), NEW I, NEW h \in Bijection(S, I), NEW f, NEW g,
         \A x \in S : f[h[x]] = g[x] /\ g[x] \in Int
  PROVE  IsFiniteSet(I) /\ Sum(f, I) = Sum(g, S)
<1>1. \A x, y \in S : h[x] = h[y] => x = y BY DEF Bijection, Injection, IsInjective
<1>2. I = {h[x] : x \in S} BY DEF Bijection, Surjection
<1> QED BY <1>1, <1>2, SumImage

\* The elements of S below k.
Under(S, k) == {j \in S : j < k}

\* How the set below k grows with k.
LEMMA UnderFacts ==
  ASSUME NEW S, S \subseteq Nat, NEW k \in Nat
  PROVE  /\ Under(S, k) \subseteq S /\ k \notin Under(S, k)
         /\ k \in S => Under(S, k + 1) = Under(S, k) \cup {k}
         /\ k \notin S => Under(S, k + 1) = Under(S, k)
         /\ Under(S, 0) = {}
<1>1. \A j \in S : j \in Nat OBVIOUS
<1>2. \A j \in S : ~ (j < 0) BY <1>1
<1>3. \A j \in S : j < k + 1 <=> j < k \/ j = k BY <1>1
<1>4. ~ (k < k) OBVIOUS
<1> QED BY <1>2, <1>3, <1>4, Zenon DEF Under

\* f holds the differences of P, which stands still outside S.
Telescopes(f, S, P) ==
  /\ P \in [Nat -> Int]
  /\ \A i \in Nat \ S : P[i + 1] = P[i]
  /\ \A i \in S : f[i] = P[i + 1] - P[i]

\* A sum of differences is the difference of the ends.
LEMMA SumTelescope ==
  ASSUME NEW S, S \subseteq Nat, IsFiniteSet(S), NEW f, NEW P, Telescopes(f, S, P), NEW n \in Nat
  PROVE  Sum(f, Under(S, n)) = P[n] - P[0]
<1> USE DEF Telescopes
<1> DEFINE T == {k \in Nat : Sum(f, Under(S, k)) = P[k] - P[0]}
<1>0. \A i \in S : f[i] \in Int OBVIOUS
<1>1. T \subseteq Nat OBVIOUS
<1>2. 0 \in T
  <2>1. Sum(f, Under(S, 0)) = 0 BY UnderFacts, SumEmpty, 0 \in Nat
  <2>2. P[0] - P[0] = 0 BY 0 \in Nat
  <2> QED BY <2>1, <2>2
<1>3. ASSUME NEW k \in Nat, Sum(f, Under(S, k)) = P[k] - P[0]
      PROVE  Sum(f, Under(S, k + 1)) = P[k + 1] - P[0]
  <2>1. CASE k \notin S
    <3>1. Under(S, k + 1) = Under(S, k) BY <2>1, UnderFacts
    <3>2. P[k + 1] = P[k] BY <2>1
    <3> QED BY <3>1, <3>2, <1>3
  <2>2. CASE k \in S
    <3> DEFINE B == Under(S, k)
    <3>1. Under(S, k + 1) = B \cup {k} /\ k \notin B /\ B \subseteq S BY <2>2, UnderFacts
    <3>2. Sum(f, B) = P[k] - P[0] BY <1>3
    <3> HIDE DEF B
    <3>3. IsFiniteSet(B) BY <3>1, FS_Subset
    <3>4. \A y \in B \cup {k} : f[y] \in Int BY <1>0, <2>2, <3>1
    <3>5. Sum(f, B \cup {k}) = Sum(f, B) + f[k] BY <3>1, <3>3, <3>4, SumInsert
    <3>6. f[k] = P[k + 1] - P[k] /\ P[k] \in Int /\ P[k + 1] \in Int /\ P[0] \in Int BY <2>2
    <3> DEFINE o == P[0] p == P[k] q == P[k + 1] b == Sum(f, B)
    <3>7. Sum(f, Under(S, k + 1)) = b + (q - p) /\ b = p - o BY <3>1, <3>2, <3>5, <3>6
    <3>8. o \in Int /\ p \in Int /\ q \in Int BY <3>6
    <3> HIDE DEF o, p, q, b
    <3>9. b + (q - p) = q - o BY <3>7, <3>8
    <3> QED BY <3>7, <3>9 DEF o, q
  <2> QED BY <2>1, <2>2
<1>4. T = Nat
  <2>1. \A k \in T : k + 1 \in T BY <1>3
  <2> HIDE DEF T
  <2> QED BY <1>1, <1>2, <2>1, NumberInduction
<1>5. n \in T BY <1>4
<1> QED BY <1>5

-----------------------------------------------------------------------------
(* Rounding.                                                                 *)

\* What the integer quotient of two numbers is.
LEMMA Division ==
  ASSUME NEW n \in Int, NEW d \in Nat \ {0}
  PROVE  n \div d \in Int /\ d * (n \div d) <= n /\ n < d * (n \div d) + d
OBVIOUS

\* Only the quotient lies within those bounds.
LEMMA Quotient ==
  ASSUME NEW n \in Int, NEW d \in Nat \ {0}, NEW q \in Int, d * q <= n, n < d * q + d
  PROVE  n \div d = q
OBVIOUS

\* A common factor may be cancelled.
LEMMA Smaller ==
  ASSUME NEW a \in Int, NEW b \in Int, NEW d \in Nat \ {0}, d * a < d * b
  PROVE  a < b
OBVIOUS

\* Multiplying by a natural number keeps the order.
LEMMA Products ==
  ASSUME NEW a \in Nat, NEW b \in Int, NEW c \in Int, b <= c
  PROVE  a * b \in Int /\ a * c \in Int /\ a * b <= a * c
OBVIOUS

\* Half of a divisor, rounded down, is smaller than it.
LEMMA Half == \A d \in Nat \ {0} : d \div 2 \in Nat /\ d \div 2 < d
OBVIOUS

\* A rounded amount is a natural number.
LEMMA RoundType ==
  ASSUME NEW n \in Nat, NEW d \in Nat \ {0}
  PROVE  RoundHalfUp(n, d) \in Nat
<1>1. d \div 2 \in Nat BY Half
<1> DEFINE m == n + d \div 2
<1>2. m \in Nat BY <1>1
<1> HIDE DEF m
<1>3. m \div d \in Int /\ m < d * (m \div d) + d BY <1>2, Division
<1>4. m \div d >= 0 BY <1>2, <1>3
<1> QED BY <1>3, <1>4 DEF RoundHalfUp, m

\* Rounding keeps the order.
LEMMA RoundOrder ==
  ASSUME NEW n \in Nat, NEW m \in Nat, n <= m, NEW d \in Nat \ {0}
  PROVE  RoundHalfUp(n, d) <= RoundHalfUp(m, d)
<1>1. d \div 2 \in Nat BY Half
<1> DEFINE a == n + d \div 2 b == m + d \div 2
<1>2. a \in Int /\ b \in Int /\ a <= b BY <1>1
<1> DEFINE p == a \div d q == b \div d
<1> HIDE DEF a, b
<1>3. p \in Int /\ q \in Int /\ d * p <= a /\ b < d * q + d BY <1>2, Division
<1> HIDE DEF p, q
<1>4. d * p < d * (q + 1) BY <1>2, <1>3
<1>5. p < q + 1 BY <1>3, <1>4, Smaller
<1>6. p <= q BY <1>3, <1>5
<1> QED BY <1>6 DEF RoundHalfUp, a, b, p, q

\* A whole number of cents passes through the rounding.
LEMMA RoundShift ==
  ASSUME NEW n \in Nat, NEW k \in Nat, NEW d \in Nat \ {0}
  PROVE  RoundHalfUp(n + d * k, d) = RoundHalfUp(n, d) + k
<1>1. d \div 2 \in Nat BY Half
<1> DEFINE a == n + d \div 2
<1>2. a \in Int BY <1>1
<1> DEFINE q == a \div d
<1> HIDE DEF a
<1>3. q \in Int /\ d * q <= a /\ a < d * q + d BY <1>2, Division
<1> HIDE DEF q
<1>4. d * (q + k) = d * q + d * k /\ d * (q + k) \in Int /\ q + k \in Int /\ a + d * k \in Int BY <1>2, <1>3
<1>5. d * (q + k) <= a + d * k /\ a + d * k < d * (q + k) + d BY <1>2, <1>3, <1>4
<1>6. (a + d * k) \div d = q + k BY <1>4, <1>5, Quotient
<1>7. (n + d * k) + d \div 2 = a + d * k BY <1>1 DEF a
<1>8. RoundHalfUp(n + d * k, d) = (a + d * k) \div d BY <1>7 DEF RoundHalfUp
<1>9. RoundHalfUp(n, d) = q BY DEF RoundHalfUp, q, a
<1> QED BY <1>6, <1>8, <1>9

\* Zero rounds to zero.
LEMMA RoundZero == \A d \in Nat \ {0} : RoundHalfUp(0, d) = 0
<1> SUFFICES ASSUME NEW d \in Nat \ {0} PROVE RoundHalfUp(0, d) = 0 OBVIOUS
<1>1. d \div 2 \in Nat /\ d \div 2 < d BY Half
<1> DEFINE h == d \div 2
<1>2. h \in Int /\ d * 0 <= h /\ h < d * 0 + d BY <1>1
<1> HIDE DEF h
<1>3. h \div d = 0 BY <1>2, Quotient
<1>4. 0 + h = h BY <1>2
<1> QED BY <1>3, <1>4 DEF RoundHalfUp, h

\* A whole number of cents is not changed.
LEMMA RoundWhole ==
  ASSUME NEW a \in Nat, NEW d \in Nat \ {0}
  PROVE  RoundHalfUp(a * d, d) = a
<1>1. RoundHalfUp(0 + d * a, d) = RoundHalfUp(0, d) + a BY RoundShift
<1>2. 0 + d * a = a * d OBVIOUS
<1> QED BY <1>1, <1>2, RoundZero

\* A rounded part of an amount is at most the amount: half a cent rounded up
\* never exceeds the whole.
LEMMA RoundPart ==
  ASSUME NEW a \in Nat, NEW m \in Nat, NEW d \in Nat \ {0}, m <= d
  PROVE  RoundHalfUp(a * m, d) \in 0..a
<1>1. a * m \in Nat /\ a * d \in Nat /\ a * m <= a * d BY Products
<1>2. RoundHalfUp(a * m, d) \in Nat BY <1>1, RoundType
<1>3. RoundHalfUp(a * m, d) <= RoundHalfUp(a * d, d) BY <1>1, RoundOrder
<1> QED BY <1>2, <1>3, RoundWhole

\* The shares rounded at two cumulative weights differ by no more than the
\* weights do, if there are no more cents than weight.
LEMMA RoundDifference ==
  ASSUME NEW a \in Nat, NEW v \in Nat, NEW k \in Nat, NEW w \in Nat \ {0}
  PROVE  /\ RoundHalfUp(a * v, w) \in Nat /\ RoundHalfUp(a * (v + k), w) \in Nat
         /\ RoundHalfUp(a * v, w) <= RoundHalfUp(a * (v + k), w)
         /\ a <= w => RoundHalfUp(a * (v + k), w) <= RoundHalfUp(a * v, w) + k
<1>1. a * v \in Nat /\ a * (v + k) \in Nat /\ a * v <= a * (v + k) BY Products
<1>2. ASSUME a <= w PROVE RoundHalfUp(a * (v + k), w) <= RoundHalfUp(a * v, w) + k
  <2>1. k * a <= k * w BY <1>2, Products
  <2>2. a * v + w * k \in Nat /\ a * (v + k) <= a * v + w * k BY <2>1, <1>1
  <2>3. RoundHalfUp(a * (v + k), w) <= RoundHalfUp(a * v + w * k, w) BY <1>1, <2>2, RoundOrder
  <2>4. RoundHalfUp(a * v + w * k, w) = RoundHalfUp(a * v, w) + k BY <1>1, RoundShift
  <2> QED BY <2>3, <2>4
<1> QED BY <1>1, <1>2, RoundType, RoundOrder

-----------------------------------------------------------------------------
(* Stored credits and their totals.                                          *)

\* What holds of every stored credit line on its own.
LineSound(x) ==
  /\ x.line # 0 => x.rate = Lines[x.line].rate
  /\ x.input <= x.base
  /\ Mode = "gross" => x.derived <= x.input
  /\ Mode = "reverse" => x.derived = 0
  /\ x.input = 0 => x.derived = 0

\* A stored credit line.
Line == {x \in [line : {0} \cup DOMAIN Lines, rate : Rates, qty : Nat \ {0},
                base : Nat, input : Nat, derived : Nat] : LineSound(x)}

\* The lines of a credit: a function from the places of its lines.
LineFunctions == UNION {[D -> Line] : D \in {D \in SUBSET Nat : IsFiniteSet(D) /\ D # {}}}

\* An approved credit, as stored.
StoredCredit == [lines : LineFunctions, status : {"approved", "sent", "cancelled"}]

\* The invoice and the credits have the shapes the schema asks for.
Shapes == invoice \in Invoices /\ credits \in Seq(StoredCredit) /\ IsFiniteSet(Live)

\* The invoice has the shape that the assumption on Invoices gives it.
LEMMA InvoiceFacts ==
  ASSUME invoice \in Invoices
  PROVE  /\ Mode \in {"net", "gross", "reverse"}
         /\ Lines \in Seq([qty : Nat \ {0}, base : Nat, discount : Nat, rate : Nat])
         /\ \A l \in DOMAIN Lines :
              /\ Lines[l].qty \in Nat \ {0} /\ Lines[l].base \in Nat /\ Lines[l].rate \in Nat
              /\ Input(l) \in Nat /\ Input(l) <= Lines[l].base
         /\ Len(Lines) \in Nat /\ DOMAIN Lines = 1..Len(Lines)
         /\ Rates \subseteq Nat
<1>1. /\ Mode \in {"net", "gross", "reverse"}
      /\ Lines \in Seq([qty : Nat \ {0}, base : Nat, discount : Nat, rate : Nat])
      /\ \A l \in DOMAIN Lines : Lines[l].discount <= Lines[l].base
  BY CreditAssumption DEF Mode, Lines
<1> DEFINE S == [qty : Nat \ {0}, base : Nat, discount : Nat, rate : Nat]
<1>2. Len(Lines) \in Nat /\ DOMAIN Lines = 1..Len(Lines) BY <1>1
<1>3. \A l \in DOMAIN Lines : Lines[l] \in S
  <2>1. Lines \in Seq(S) BY <1>1
  <2> HIDE DEF S
  <2> QED BY <2>1
<1>4. \A l \in DOMAIN Lines :
        /\ Lines[l].qty \in Nat \ {0} /\ Lines[l].base \in Nat /\ Lines[l].rate \in Nat
        /\ Lines[l].discount \in Nat
  BY <1>3
<1>5. \A l \in DOMAIN Lines : Input(l) \in Nat /\ Input(l) <= Lines[l].base
  BY <1>1, <1>4 DEF Input
<1>6. Rates \subseteq Nat BY <1>4 DEF Rates
<1> QED BY <1>1, <1>2, <1>4, <1>5, <1>6

\* The fields of a stored line.
LEMMA LineFacts ==
  ASSUME NEW x \in Line
  PROVE  /\ x.line \in {0} \cup DOMAIN Lines /\ x.rate \in Rates /\ x.qty \in Nat \ {0}
         /\ x.base \in Nat /\ x.input \in Nat /\ x.derived \in Nat
         /\ LineSound(x)
BY DEF Line

\* The places of a credit's lines are finitely many, and there is one.
LEMMA LineFunctionFacts ==
  ASSUME NEW P \in LineFunctions
  PROVE  /\ DOMAIN P \subseteq Nat /\ IsFiniteSet(DOMAIN P) /\ DOMAIN P # {}
         /\ \A i \in DOMAIN P : P[i] \in Line
<1>1. PICK D \in {D \in SUBSET Nat : IsFiniteSet(D) /\ D # {}} : P \in [D -> Line]
  BY DEF LineFunctions
<1>2. DOMAIN P = D BY <1>1
<1> QED BY <1>1, <1>2

\* Lines at finitely many places are the lines of a credit.
LEMMA LineFunctionIntro ==
  ASSUME NEW D, D \subseteq Nat, IsFiniteSet(D), D # {}, NEW P \in [D -> Line]
  PROVE  P \in LineFunctions
BY DEF LineFunctions

\* The parts of a stored credit.
LEMMA CreditFacts ==
  ASSUME Shapes, NEW c \in DOMAIN credits
  PROVE  /\ credits[c].lines \in LineFunctions
         /\ credits[c].status \in {"approved", "sent", "cancelled"}
<1>1. credits[c] \in StoredCredit BY DEF Shapes
<1> QED BY <1>1 DEF StoredCredit

\* The lines that count are those of the credits that are not cancelled.
LEMMA LiveIs ==
  \A x : x \in Live <=> \E c \in DOMAIN credits : \E i \in DOMAIN credits[c].lines :
                          Counts(c) /\ x = <<c, i>>
BY DEF Live

\* Every line that counts is a stored line.
LEMMA LiveFacts ==
  ASSUME Shapes, NEW x \in Live
  PROVE  At(x) \in Line
<1>1. PICK c \in DOMAIN credits : \E i \in DOMAIN credits[c].lines : Counts(c) /\ x = <<c, i>>
  BY LiveIs
<1>2. PICK i \in DOMAIN credits[c].lines : x = <<c, i>> BY <1>1
<1>3. At(x) = credits[c].lines[i] BY <1>2 DEF At
<1>4. credits[c].lines \in LineFunctions BY CreditFacts
<1> QED BY <1>3, <1>4, LineFunctionFacts

\* The community module's sum of a function is the sum over its domain.
LEMMA SumFunctionIs == \A f : SumFunction(f) = Sum(f, DOMAIN f)
BY DEF SumFunction, Sum

\* The totals of a set of lines as sums.
LEMMA TotalsAre ==
  ASSUME NEW S
  PROVE  /\ Quantity(S) = Sum([x \in S |-> At(x).qty], S)
         /\ BaseSum(S) = Sum([x \in S |-> At(x).base], S)
         /\ InputSum(S) = Sum([x \in S |-> At(x).input], S)
         /\ DerivedSum(S) = Sum([x \in S |-> At(x).derived], S)
BY DEF Quantity, BaseSum, InputSum, DerivedSum, SumFunction, Sum

\* The totals of lines that count are natural numbers.
LEMMA TotalTypes ==
  ASSUME Shapes, NEW S, S \subseteq Live
  PROVE  /\ IsFiniteSet(S)
         /\ Quantity(S) \in Nat /\ BaseSum(S) \in Nat
         /\ InputSum(S) \in Nat /\ DerivedSum(S) \in Nat
<1>1. IsFiniteSet(S) BY FS_Subset DEF Shapes
<1>2. \A x \in S : /\ At(x).qty \in Nat /\ At(x).base \in Nat
                   /\ At(x).input \in Nat /\ At(x).derived \in Nat
  BY LiveFacts, LineFacts
<1>3. Sum([x \in S |-> At(x).qty], S) \in Nat
  <2> DEFINE f == [x \in S |-> At(x).qty]
  <2>1. \A x \in S : f[x] \in Nat BY <1>2
  <2> HIDE DEF f
  <2> QED BY <1>1, <2>1, SumNatural DEF f
<1>4. Sum([x \in S |-> At(x).base], S) \in Nat
  <2> DEFINE f == [x \in S |-> At(x).base]
  <2>1. \A x \in S : f[x] \in Nat BY <1>2
  <2> HIDE DEF f
  <2> QED BY <1>1, <2>1, SumNatural DEF f
<1>5. Sum([x \in S |-> At(x).input], S) \in Nat
  <2> DEFINE f == [x \in S |-> At(x).input]
  <2>1. \A x \in S : f[x] \in Nat BY <1>2
  <2> HIDE DEF f
  <2> QED BY <1>1, <2>1, SumNatural DEF f
<1>6. Sum([x \in S |-> At(x).derived], S) \in Nat
  <2> DEFINE f == [x \in S |-> At(x).derived]
  <2>1. \A x \in S : f[x] \in Nat BY <1>2
  <2> HIDE DEF f
  <2> QED BY <1>1, <2>1, SumNatural DEF f
<1> QED BY <1>1, <1>3, <1>4, <1>5, <1>6, TotalsAre

\* The amount derived from an input is a natural number, and none for none.
LEMMA DerivedType ==
  ASSUME invoice \in Invoices, NEW r \in Nat, NEW n \in Nat
  PROVE  DerivedOf(r, n) \in Nat /\ DerivedOf(r, 0) = 0
<1>1. Scale \in Nat \ {0} /\ Scale + r \in Nat \ {0} /\ n * r \in Nat /\ n * Scale \in Nat
      /\ 0 * r = 0 /\ 0 * Scale = 0
  BY DEF Scale
<1>2. /\ RoundHalfUp(n * r, Scale) \in Nat /\ RoundHalfUp(n * Scale, Scale + r) \in Nat
      /\ RoundHalfUp(0 * r, Scale) = 0 /\ RoundHalfUp(0 * Scale, Scale + r) = 0
  BY <1>1, RoundType, RoundZero
<1>3. Mode \in {"net", "gross", "reverse"} BY InvoiceFacts
<1> QED BY <1>2, <1>3 DEF DerivedOf

-----------------------------------------------------------------------------
(* A credit is approved.                                                     *)

\* A sum splits into what stays and what is left out.
LEMMA SumShrink ==
  ASSUME NEW S, IsFiniteSet(S), NEW T, T \subseteq S, NEW f, NEW g,
         \A x \in S : f[x] \in Int, \A x \in T : g[x] = f[x]
  PROVE  Sum(f, S) = Sum(g, T) + Sum(f, S \ T)
<1>1. IsFiniteSet(T) /\ IsFiniteSet(S \ T) BY FS_Subset
<1>2. T \cup (S \ T) = S /\ T \cap (S \ T) = {} OBVIOUS
<1>3. Sum(f, S) = Sum(f, T) + Sum(f, S \ T)
  <2> DEFINE R == S \ T
  <2>1. IsFiniteSet(R) /\ T \cap R = {} /\ T \cup R = S BY <1>1, <1>2
  <2> HIDE DEF R
  <2>2. Sum(f, T \cup R) = Sum(f, T) + Sum(f, R) BY <1>1, <2>1, SumUnion
  <2> QED BY <2>1, <2>2 DEF R
<1>4. Sum(f, T) = Sum(g, T) BY <1>1, SumSame
<1> QED BY <1>3, <1>4

\* A credit with the lines P is approved.
Approving(P) == credits' = Append(credits, [lines |-> P, status |-> "approved"])

\* Approving a credit makes its lines count and leaves the others alone.
LEMMA ApprovingEffect ==
  ASSUME Shapes, NEW P, Approving(P), NEW n, n = Len(credits) + 1
  PROVE  /\ Live' = Live \cup {<<n, i>> : i \in DOMAIN P}
         /\ \A x \in Live : At(x)' = At(x)
         /\ \A i \in DOMAIN P : At(<<n, i>>)' = P[i] /\ <<n, i>> \notin Live
<1> DEFINE new == [lines |-> P, status |-> "approved"]
<1>0. credits \in Seq(StoredCredit) BY DEF Shapes
<1>1. /\ DOMAIN credits = 1..Len(credits) /\ Len(credits) \in Nat
      /\ DOMAIN credits' = 1..n
      /\ \A c \in DOMAIN credits : credits'[c] = credits[c]
      /\ credits'[n] = new
  <2> DEFINE All == StoredCredit \cup {new}
  <2>1. credits \in Seq(All) /\ new \in All
    BY <1>0, SeqMonotonic, StoredCredit \subseteq All
  <2>2. credits' = Append(credits, new) BY DEF Approving
  <2> HIDE DEF All, new
  <2> QED BY <2>1, <2>2, AppendProperties
<1>2. DOMAIN credits' = DOMAIN credits \cup {n} /\ n \notin DOMAIN credits BY <1>1
<1>3. new.lines = P /\ new.status = "approved" OBVIOUS
<1> HIDE DEF new
<1>4. \A c \in DOMAIN credits' : Counts(c)' <=> (credits'[c].status # "cancelled")
  BY DEF Counts, Status
<1>5. \A c \in DOMAIN credits : Counts(c) <=> (credits[c].status # "cancelled")
  BY DEF Counts, Status
<1>6. \A x : x \in Live' <=> \E c \in DOMAIN credits' : \E i \in DOMAIN credits'[c].lines :
                          credits'[c].status # "cancelled" /\ x = <<c, i>>
  BY <1>4 DEF Live
<1>7. \A x : x \in Live <=> \E c \in DOMAIN credits : \E i \in DOMAIN credits[c].lines :
                          credits[c].status # "cancelled" /\ x = <<c, i>>
  BY <1>5, LiveIs
<1>8. Live' = Live \cup {<<n, i>> : i \in DOMAIN P}
  <2>1. ASSUME NEW x \in Live' PROVE x \in Live \cup {<<n, i>> : i \in DOMAIN P}
    <3>1. PICK c \in DOMAIN credits' : \E i \in DOMAIN credits'[c].lines :
                          credits'[c].status # "cancelled" /\ x = <<c, i>>
      BY <2>1, <1>6
    <3>2. PICK i \in DOMAIN credits'[c].lines : credits'[c].status # "cancelled" /\ x = <<c, i>>
      BY <3>1
    <3>3. CASE c = n BY <3>2, <3>3, <1>1, <1>3
    <3>4. CASE c # n
      <4>1. c \in DOMAIN credits /\ credits'[c] = credits[c] BY <3>1, <3>4, <1>1, <1>2
      <4> QED BY <4>1, <3>2, <1>7
    <3> QED BY <3>3, <3>4
  <2>2. ASSUME NEW x \in Live PROVE x \in Live' BY <2>2, <1>1, <1>2, <1>6, <1>7
  <2>3. ASSUME NEW i \in DOMAIN P PROVE <<n, i>> \in Live'
    BY <2>3, <1>1, <1>2, <1>3, <1>6
  <2> QED BY <2>1, <2>2, <2>3
<1>9. ASSUME NEW x \in Live PROVE At(x)' = At(x)
  <2>1. PICK c \in DOMAIN credits : \E i \in DOMAIN credits[c].lines : x = <<c, i>> BY <1>7
  <2>2. x[1] = c BY <2>1
  <2> QED BY <2>2, <1>1 DEF At
<1>10. ASSUME NEW i \in DOMAIN P PROVE At(<<n, i>>)' = P[i] /\ <<n, i>> \notin Live
  <2>1. <<n, i>> \notin Live BY <1>2, <1>7
  <2>2. At(<<n, i>>)' = P[i] BY <1>1, <1>3 DEF At
  <2> QED BY <2>1, <2>2
<1> QED BY <1>8, <1>9, <1>10

\* T is S with the lines at the places E of the n-th credit.
Gains(S, T, n, E) ==
  /\ S \subseteq T /\ \A i \in E : <<n, i>> \in T
  /\ \A x \in T : x \in S \/ \E i \in E : x = <<n, i>>

\* The totals of the lines T in the next state.
QuantityAfter(T) == Sum([x \in T |-> At(x)'.qty], T)
BaseAfter(T) == Sum([x \in T |-> At(x)'.base], T)
InputAfter(T) == Sum([x \in T |-> At(x)'.input], T)
DerivedAfter(T) == Sum([x \in T |-> At(x)'.derived], T)

\* The totals of the lines of P at the places E.
QuantityAdded(P, E) == Sum([i \in E |-> P[i].qty], E)
BaseAdded(P, E) == Sum([i \in E |-> P[i].base], E)
InputAdded(P, E) == Sum([i \in E |-> P[i].input], E)
DerivedAdded(P, E) == Sum([i \in E |-> P[i].derived], E)

\* Approving a credit adds the totals of its lines to those of the lines that
\* counted.
LEMMA ApprovingTotals ==
  ASSUME Shapes, NEW P \in LineFunctions, Approving(P), NEW n, n = Len(credits) + 1,
         NEW S, S \subseteq Live, NEW E, E \subseteq DOMAIN P, NEW T, Gains(S, T, n, E)
  PROVE  /\ QuantityAfter(T) = Quantity(S) + QuantityAdded(P, E)
         /\ BaseAfter(T) = BaseSum(S) + BaseAdded(P, E)
         /\ InputAfter(T) = InputSum(S) + InputAdded(P, E)
         /\ DerivedAfter(T) = DerivedSum(S) + DerivedAdded(P, E)
<1> USE DEF Gains, QuantityAfter, BaseAfter, InputAfter, DerivedAfter,
            QuantityAdded, BaseAdded, InputAdded, DerivedAdded
<1>1. IsFiniteSet(S) /\ IsFiniteSet(E)
  BY TotalTypes, LineFunctionFacts, FS_Subset
<1>2. /\ \A x \in S : At(x)' = At(x) /\ At(x) \in Line
      /\ \A i \in E : At(<<n, i>>)' = P[i] /\ <<n, i>> \notin S /\ P[i] \in Line
  BY ApprovingEffect, LiveFacts, LineFunctionFacts
<1>8. ASSUME NEW f, NEW g, NEW h, \A x \in S : f[x] \in Int /\ g[x] = f[x],
             \A i \in E : <<n, i>> \notin S /\ h[i] \in Int /\ g[<<n, i>>] = h[i]
      PROVE  Sum(g, T) = Sum(f, S) + Sum(h, E)
  <2> DEFINE at == [i \in E |-> <<n, i>>] N == T \ S
  <2>1. T = S \cup N /\ S \cap N = {} OBVIOUS
  <2>2. at \in Bijection(E, N) BY <1>8 DEF Bijection, Injection, Surjection, IsInjective
  <2>3. \A i \in E : g[at[i]] = h[i] /\ h[i] \in Int BY <1>8
  <2>4. \A x \in S \cup N : g[x] \in Int BY <1>8
  <2> HIDE DEF at, N
  <2>5. IsFiniteSet(N) /\ Sum(g, N) = Sum(h, E) BY <1>1, <2>2, <2>3, SumBijection
  <2>6. Sum(g, S \cup N) = Sum(g, S) + Sum(g, N) BY <1>1, <2>1, <2>4, <2>5, SumUnion
  <2>7. Sum(f, S) = Sum(g, S) BY <1>1, <1>8, SumSame
  <2> QED BY <2>1, <2>5, <2>6, <2>7
<1>3. \A x \in Line : x.qty \in Int /\ x.base \in Int /\ x.input \in Int /\ x.derived \in Int
  BY LineFacts
<1>4. Sum([x \in T |-> At(x)'.qty], T) = Sum([x \in S |-> At(x).qty], S) + Sum([i \in E |-> P[i].qty], E)
  <2> DEFINE f == [x \in S |-> At(x).qty] g == [x \in T |-> At(x)'.qty] h == [i \in E |-> P[i].qty]
  <2>1. \A x \in S : f[x] \in Int /\ g[x] = f[x] BY <1>2, <1>3
  <2>2. \A i \in E : <<n, i>> \notin S /\ h[i] \in Int /\ g[<<n, i>>] = h[i]
    BY <1>2, <1>3
  <2> HIDE DEF f, g, h
  <2>3. Sum(g, T) = Sum(f, S) + Sum(h, E) BY <2>1, <2>2, <1>8
  <2> QED BY <2>3 DEF f, g, h
<1>5. Sum([x \in T |-> At(x)'.base], T) = Sum([x \in S |-> At(x).base], S) + Sum([i \in E |-> P[i].base], E)
  <2> DEFINE f == [x \in S |-> At(x).base] g == [x \in T |-> At(x)'.base] h == [i \in E |-> P[i].base]
  <2>1. \A x \in S : f[x] \in Int /\ g[x] = f[x] BY <1>2, <1>3
  <2>2. \A i \in E : <<n, i>> \notin S /\ h[i] \in Int /\ g[<<n, i>>] = h[i]
    BY <1>2, <1>3
  <2> HIDE DEF f, g, h
  <2>3. Sum(g, T) = Sum(f, S) + Sum(h, E) BY <2>1, <2>2, <1>8
  <2> QED BY <2>3 DEF f, g, h
<1>6. Sum([x \in T |-> At(x)'.input], T) = Sum([x \in S |-> At(x).input], S) + Sum([i \in E |-> P[i].input], E)
  <2> DEFINE f == [x \in S |-> At(x).input] g == [x \in T |-> At(x)'.input] h == [i \in E |-> P[i].input]
  <2>1. \A x \in S : f[x] \in Int /\ g[x] = f[x] BY <1>2, <1>3
  <2>2. \A i \in E : <<n, i>> \notin S /\ h[i] \in Int /\ g[<<n, i>>] = h[i]
    BY <1>2, <1>3
  <2> HIDE DEF f, g, h
  <2>3. Sum(g, T) = Sum(f, S) + Sum(h, E) BY <2>1, <2>2, <1>8
  <2> QED BY <2>3 DEF f, g, h
<1>7. Sum([x \in T |-> At(x)'.derived], T) = Sum([x \in S |-> At(x).derived], S) + Sum([i \in E |-> P[i].derived], E)
  <2> DEFINE f == [x \in S |-> At(x).derived] g == [x \in T |-> At(x)'.derived] h == [i \in E |-> P[i].derived]
  <2>1. \A x \in S : f[x] \in Int /\ g[x] = f[x] BY <1>2, <1>3
  <2>2. \A i \in E : <<n, i>> \notin S /\ h[i] \in Int /\ g[<<n, i>>] = h[i]
    BY <1>2, <1>3
  <2> HIDE DEF f, g, h
  <2>3. Sum(g, T) = Sum(f, S) + Sum(h, E) BY <2>1, <2>2, <1>8
  <2> QED BY <2>3 DEF f, g, h
<1> QED BY <1>4, <1>5, <1>6, <1>7, TotalsAre

\* The sum over one element.
LEMMA SumSingle ==
  ASSUME NEW x, NEW f, f[x] \in Int
  PROVE  Sum(f, {x}) = f[x]
<1>1. IsFiniteSet({}) /\ {} \cup {x} = {x} BY FS_EmptySet
<1>2. Sum(f, {} \cup {x}) = Sum(f, {}) + f[x] BY <1>1, SumInsert
<1> QED BY <1>1, <1>2, SumEmpty

\* A summand is at most the sum.
LEMMA SumMember ==
  ASSUME NEW S, IsFiniteSet(S), NEW f, \A x \in S : f[x] \in Nat, NEW x \in S
  PROVE  f[x] <= Sum(f, S)
<1>1. Sum(f, S) = f[x] + Sum(f, S \ {x}) BY SumRemove
<1>2. IsFiniteSet(S \ {x}) BY FS_Subset
<1>3. Sum(f, S \ {x}) \in Nat
  <2> DEFINE R == S \ {x}
  <2>1. IsFiniteSet(R) /\ \A y \in R : f[y] \in Nat BY <1>2
  <2> HIDE DEF R
  <2>2. Sum(f, R) \in Nat BY <2>1, SumNatural
  <2> QED BY <2>2 DEF R
<1> QED BY <1>1, <1>3

\* distributeAmount: each share is the difference of the amounts rounded at the
\* weights summed up to it and before it.
SharesOut(share, S, w, a, W) ==
  \A i \in S : share[i] = RoundHalfUp(a * Sum(w, Under(S, i + 1)), W)
                          - RoundHalfUp(a * Sum(w, Under(S, i)), W)

\* The amount a is distributed over S by the weights w, of total W.
Distributes(S, w, a, W, share) ==
  /\ S \subseteq Nat /\ IsFiniteSet(S) /\ (\E n \in Nat : \A i \in S : i < n)
  /\ (\A i \in S : w[i] \in Nat) /\ W \in Nat \ {0} /\ W = Sum(w, S) /\ a \in Nat
  /\ SharesOut(share, S, w, a, W)

\* distributeAmount spends the amount to the cent, gives no share below zero,
\* none to a weight of zero and, unless there are more cents than weight, none
\* above its weight.
THEOREM Distribution ==
  ASSUME NEW S, NEW w, NEW a, NEW W, NEW share, Distributes(S, w, a, W, share)
  PROVE  /\ \A i \in S : /\ share[i] \in Nat /\ (a <= W => share[i] <= w[i])
                         /\ w[i] = 0 => share[i] = 0
         /\ Sum(share, S) = a
<1>0. /\ S \subseteq Nat /\ IsFiniteSet(S) /\ (\E n \in Nat : \A i \in S : i < n)
      /\ (\A i \in S : w[i] \in Nat) /\ W \in Nat \ {0} /\ W = Sum(w, S) /\ a \in Nat
      /\ SharesOut(share, S, w, a, W)
  BY DEF Distributes
<1> PICK n \in Nat : \A i \in S : i < n BY <1>0
<1> USE <1>0
<1> DEFINE B == [k \in Nat |-> Sum(w, Under(S, k))]
           Q == [k \in Nat |-> RoundHalfUp(a * B[k], W)]
<1>1. ASSUME NEW k \in Nat
      PROVE  /\ B[k] \in Nat
             /\ k \in S => B[k + 1] = B[k] + w[k]
             /\ k \notin S => B[k + 1] = B[k]
  <2> DEFINE b == Under(S, k) c == Under(S, k + 1)
  <2>1. b \subseteq S /\ k \notin b BY UnderFacts
  <2>2. IsFiniteSet(b) BY <2>1, FS_Subset
  <2>3. (k \in S => c = b \cup {k}) /\ (k \notin S => c = b) BY UnderFacts
  <2>4. B[k] = Sum(w, b) /\ B[k + 1] = Sum(w, c) OBVIOUS
  <2> HIDE DEF b, c, B
  <2>5. Sum(w, b) \in Nat BY <2>1, <2>2, SumNatural
  <2>6. ASSUME k \in S PROVE Sum(w, b \cup {k}) = Sum(w, b) + w[k]
    <3>1. \A y \in b \cup {k} : w[y] \in Int BY <2>1, <2>6
    <3> QED BY <2>1, <2>2, <3>1, SumInsert
  <2> QED BY <2>3, <2>4, <2>5, <2>6
<1>2. Under(S, n) = S BY DEF Under
<1>3. B[n] = W /\ B[0] = 0 BY <1>2, UnderFacts, SumEmpty, 0 \in Nat
<1>5. \A i \in S : share[i] = Q[i + 1] - Q[i] BY DEF SharesOut
<1> HIDE DEF B
<1>6. \A k \in Nat : Q[k] = RoundHalfUp(a * B[k], W) OBVIOUS
<1>7. Q \in [Nat -> Int]
  <2>1. \A k \in Nat : RoundHalfUp(a * B[k], W) \in Nat BY <1>1, RoundType
  <2> QED BY <2>1
<1> HIDE DEF Q
<1>8. ASSUME NEW i \in S
      PROVE  share[i] \in Nat /\ (a <= W => share[i] <= w[i]) /\ (w[i] = 0 => share[i] = 0)
  <2>1. i \in Nat /\ B[i] \in Nat /\ B[i + 1] = B[i] + w[i] /\ w[i] \in Nat BY <1>1
  <2> DEFINE v == B[i] k == w[i]
  <2>2. share[i] = RoundHalfUp(a * (v + k), W) - RoundHalfUp(a * v, W) BY <1>5, <1>6, <2>1
  <2>3. v \in Nat /\ k \in Nat BY <2>1
  <2> HIDE DEF v, k
  <2>4. /\ RoundHalfUp(a * v, W) \in Nat /\ RoundHalfUp(a * (v + k), W) \in Nat
        /\ RoundHalfUp(a * v, W) <= RoundHalfUp(a * (v + k), W)
        /\ a <= W => RoundHalfUp(a * (v + k), W) <= RoundHalfUp(a * v, W) + k
    BY <2>3, RoundDifference
  <2>5. share[i] \in Nat /\ (a <= W => share[i] <= k) BY <2>2, <2>3, <2>4
  <2>6. ASSUME k = 0 PROVE share[i] = 0
    <3>1. v + k = v BY <2>3, <2>6
    <3> QED BY <3>1, <2>2, <2>4
  <2> QED BY <2>5, <2>6 DEF k
<1>9. Sum(share, S) = Q[n] - Q[0]
  <2>1. \A i \in Nat \ S : Q[i + 1] = Q[i] BY <1>1, <1>6
  <2>2. Telescopes(share, S, Q) BY <2>1, <1>5, <1>7 DEF Telescopes
  <2>3. Sum(share, Under(S, n)) = Q[n] - Q[0] BY <2>2, SumTelescope
  <2> QED BY <2>3, <1>2
<1>10. Q[n] = a BY <1>3, <1>6, RoundWhole
<1>11. Q[0] = 0
  <2>1. a * 0 = 0 OBVIOUS
  <2> QED BY <2>1, <1>3, <1>6, RoundZero
<1> QED BY <1>8, <1>9, <1>10, <1>11

\* A sum of zeros is zero.
LEMMA SumZero ==
  ASSUME NEW S, IsFiniteSet(S), NEW f, \A x \in S : f[x] = 0
  PROVE  Sum(f, S) = 0
<1> DEFINE T == {s \in SUBSET S : Sum(f, s) = 0}
<1>1. T \subseteq SUBSET S OBVIOUS
<1>2. {} \in T BY SumEmpty
<1>3. ASSUME NEW s \in SUBSET S, NEW x \in s, s \ {x} \in T PROVE s \in T
  <2>1. IsFiniteSet(s) BY FS_Subset
  <2>2. Sum(f, s) = f[x] + Sum(f, s \ {x}) BY <2>1, SumRemove
  <2> QED BY <2>2, <1>3
<1> HIDE DEF T
<1>4. T = SUBSET S BY <1>1, <1>2, <1>3, SetInduction
<1> QED BY <1>4 DEF T

\* Cancelling takes the totals of the cancelled lines away.
LEMMA ShrinkTotals ==
  ASSUME Shapes, NEW S, S \subseteq Live, NEW T, T \subseteq S, \A x \in S : At(x)' = At(x)
  PROVE  /\ Quantity(S) = QuantityAfter(T) + Quantity(S \ T)
         /\ BaseSum(S) = BaseAfter(T) + BaseSum(S \ T)
         /\ InputSum(S) = InputAfter(T) + InputSum(S \ T)
         /\ DerivedSum(S) = DerivedAfter(T) + DerivedSum(S \ T)
         /\ QuantityAfter(T) \in Int /\ BaseAfter(T) \in Int
         /\ InputAfter(T) \in Int /\ DerivedAfter(T) \in Int
<1> USE DEF QuantityAfter, BaseAfter, InputAfter, DerivedAfter
<1>1. IsFiniteSet(S) /\ IsFiniteSet(T) /\ IsFiniteSet(S \ T) BY TotalTypes, FS_Subset
<1>2. ASSUME NEW f, NEW g, NEW h, \A x \in S : f[x] \in Int,
             \A x \in T : g[x] = f[x], \A x \in S \ T : h[x] = f[x]
      PROVE  Sum(f, S) = Sum(g, T) + Sum(h, S \ T) /\ Sum(g, T) \in Int
  <2>1. Sum(f, S) = Sum(g, T) + Sum(f, S \ T) BY <1>1, <1>2, SumShrink
  <2>2. Sum(h, S \ T) = Sum(f, S \ T) BY <1>1, <1>2, SumSame
  <2>3. Sum(g, T) \in Int
    <3>1. \A x \in T : g[x] \in Int BY <1>2
    <3> QED BY <1>1, <3>1, SumType
  <2> QED BY <2>1, <2>2, <2>3
<1>3. \A x \in S : At(x) \in Line BY LiveFacts
<1>4. \A x \in Line : x.qty \in Int /\ x.base \in Int /\ x.input \in Int /\ x.derived \in Int
  BY LineFacts
<1>5. /\ Sum([x \in S |-> At(x).qty], S) = Sum([x \in T |-> At(x)'.qty], T) + Sum([x \in S \ T |-> At(x).qty], S \ T)
      /\ Sum([x \in T |-> At(x)'.qty], T) \in Int
  <2> DEFINE f == [x \in S |-> At(x).qty] g == [x \in T |-> At(x)'.qty] h == [x \in S \ T |-> At(x).qty]
  <2>1. /\ \A x \in S : f[x] \in Int
        /\ \A x \in T : g[x] = f[x]
        /\ \A x \in S \ T : h[x] = f[x]
    BY <1>3, <1>4
  <2> HIDE DEF f, g, h
  <2>2. Sum(f, S) = Sum(g, T) + Sum(h, S \ T) /\ Sum(g, T) \in Int BY <1>2, <2>1
  <2> QED BY <2>2 DEF f, g, h
<1>6. /\ Sum([x \in S |-> At(x).base], S) = Sum([x \in T |-> At(x)'.base], T) + Sum([x \in S \ T |-> At(x).base], S \ T)
      /\ Sum([x \in T |-> At(x)'.base], T) \in Int
  <2> DEFINE f == [x \in S |-> At(x).base] g == [x \in T |-> At(x)'.base] h == [x \in S \ T |-> At(x).base]
  <2>1. /\ \A x \in S : f[x] \in Int
        /\ \A x \in T : g[x] = f[x]
        /\ \A x \in S \ T : h[x] = f[x]
    BY <1>3, <1>4
  <2> HIDE DEF f, g, h
  <2>2. Sum(f, S) = Sum(g, T) + Sum(h, S \ T) /\ Sum(g, T) \in Int BY <1>2, <2>1
  <2> QED BY <2>2 DEF f, g, h
<1>7. /\ Sum([x \in S |-> At(x).input], S) = Sum([x \in T |-> At(x)'.input], T) + Sum([x \in S \ T |-> At(x).input], S \ T)
      /\ Sum([x \in T |-> At(x)'.input], T) \in Int
  <2> DEFINE f == [x \in S |-> At(x).input] g == [x \in T |-> At(x)'.input] h == [x \in S \ T |-> At(x).input]
  <2>1. /\ \A x \in S : f[x] \in Int
        /\ \A x \in T : g[x] = f[x]
        /\ \A x \in S \ T : h[x] = f[x]
    BY <1>3, <1>4
  <2> HIDE DEF f, g, h
  <2>2. Sum(f, S) = Sum(g, T) + Sum(h, S \ T) /\ Sum(g, T) \in Int BY <1>2, <2>1
  <2> QED BY <2>2 DEF f, g, h
<1>8. /\ Sum([x \in S |-> At(x).derived], S) = Sum([x \in T |-> At(x)'.derived], T) + Sum([x \in S \ T |-> At(x).derived], S \ T)
      /\ Sum([x \in T |-> At(x)'.derived], T) \in Int
  <2> DEFINE f == [x \in S |-> At(x).derived] g == [x \in T |-> At(x)'.derived] h == [x \in S \ T |-> At(x).derived]
  <2>1. /\ \A x \in S : f[x] \in Int
        /\ \A x \in T : g[x] = f[x]
        /\ \A x \in S \ T : h[x] = f[x]
    BY <1>3, <1>4
  <2> HIDE DEF f, g, h
  <2>2. Sum(f, S) = Sum(g, T) + Sum(h, S \ T) /\ Sum(g, T) \in Int BY <1>2, <2>1
  <2> QED BY <2>2 DEF f, g, h
<1> QED BY <1>5, <1>6, <1>7, <1>8, TotalsAre

\* What holds of the derived amount of each line holds of their sum.
LEMMA DerivedBounds ==
  ASSUME Shapes, NEW S, S \subseteq Live
  PROVE  /\ Mode = "gross" => DerivedSum(S) <= InputSum(S)
         /\ Mode = "reverse" => DerivedSum(S) = 0
         /\ InputSum(S) = 0 => DerivedSum(S) = 0
<1>1. IsFiniteSet(S) BY TotalTypes
<1>2. \A x \in S : /\ At(x).derived \in Nat /\ At(x).input \in Nat
                   /\ Mode = "gross" => At(x).derived <= At(x).input
                   /\ Mode = "reverse" => At(x).derived = 0
                   /\ At(x).input = 0 => At(x).derived = 0
  BY LiveFacts, LineFacts DEF LineSound
<1> DEFINE d == [x \in S |-> At(x).derived] v == [x \in S |-> At(x).input]
<1>3. /\ \A x \in S : d[x] \in Nat /\ v[x] \in Nat
      /\ Mode = "gross" => \A x \in S : d[x] <= v[x]
      /\ Mode = "reverse" => \A x \in S : d[x] = 0
      /\ \A x \in S : v[x] = 0 => d[x] = 0
  BY <1>2
<1>4. DerivedSum(S) = Sum(d, S) /\ InputSum(S) = Sum(v, S) BY TotalsAre
<1> HIDE DEF d, v
<1>5. ASSUME Mode = "gross" PROVE Sum(d, S) <= Sum(v, S) BY <1>1, <1>3, <1>5, SumOrder
<1>6. ASSUME Mode = "reverse" PROVE Sum(d, S) = 0
  <2>1. \A x \in S : d[x] = 0 BY <1>3, <1>6
  <2> QED BY <1>1, <2>1, SumZero
<1>7. ASSUME Sum(v, S) = 0 PROVE Sum(d, S) = 0
  <2>1. \A x \in S : v[x] <= 0 BY <1>1, <1>3, <1>7, SumMember
  <2>2. \A x \in S : d[x] = 0 BY <1>3, <2>1
  <2> QED BY <1>1, <2>2, SumZero
<1> QED BY <1>4, <1>5, <1>6, <1>7

\* Lines credited in full account for their whole input within their rate.
LEMMA InputCovered ==
  ASSUME Shapes, NEW r \in Rates, NEW D, D \subseteq LinesAt(r),
         \A l \in D : InputSum(OfLine(l)) = Input(l)
  PROVE  Sum([l \in D |-> Input(l)], D) <= InputSum(OfRate(r))
<1> DEFINE f == [l \in D |-> Input(l)] v == [x \in Live |-> At(x).input]
           X(s) == {x \in Live : At(x).line \in s}
           T == {s \in SUBSET D : Sum(f, s) = Sum(v, X(s))}
<1>1. IsFiniteSet(D)
  <2>1. Len(Lines) \in Nat /\ DOMAIN Lines = 1..Len(Lines) BY InvoiceFacts DEF Shapes
  <2>2. IsFiniteSet(DOMAIN Lines) BY <2>1, FS_Interval
  <2> QED BY <2>2, FS_Subset DEF LinesAt
<1>2. IsFiniteSet(Live) /\ \A x \in Live : v[x] \in Nat BY LiveFacts, LineFacts DEF Shapes
<1>3. ASSUME NEW S, S \subseteq Live PROVE InputSum(S) = Sum(v, S)
  <2> DEFINE w == [x \in S |-> At(x).input]
  <2>1. \A x \in S : w[x] = v[x] BY <1>3
  <2>2. IsFiniteSet(S) BY <1>2, <1>3, FS_Subset
  <2>3. InputSum(S) = Sum(w, S) BY TotalsAre
  <2> HIDE DEF w, v
  <2> QED BY <2>1, <2>2, <2>3, SumSame
<1>4. \A l \in D : f[l] \in Int /\ f[l] = Sum(v, OfLine(l))
  <2>1. \A l \in D : OfLine(l) \subseteq Live /\ Input(l) \in Nat
    BY InvoiceFacts DEF OfLine, LinesAt, Shapes
  <2> HIDE DEF v
  <2> QED BY <2>1, <1>3
<1>5. T \subseteq SUBSET D OBVIOUS
<1>6. {} \in T
  <2>1. X({}) = {} OBVIOUS
  <2> HIDE DEF f, v, X
  <2> QED BY <2>1, SumEmpty
<1>7. ASSUME NEW s \in SUBSET D, NEW l \in s, s \ {l} \in T PROVE s \in T
  <2> DEFINE u == s \ {l}
  <2>1. IsFiniteSet(s) BY <1>1, FS_Subset
  <2>2. Sum(f, s) = f[l] + Sum(f, u)
    <3>1. \A y \in s : f[y] \in Int BY <1>4
    <3> HIDE DEF f
    <3> QED BY <2>1, <3>1, SumRemove
  <2>3. X(s) = X(u) \cup OfLine(l) /\ X(u) \cap OfLine(l) = {} BY DEF OfLine
  <2>4. X(u) \subseteq Live /\ OfLine(l) \subseteq Live BY DEF OfLine
  <2>5. Sum(f, u) = Sum(v, X(u)) BY <1>7
  <2>6. Sum(v, X(s)) = Sum(v, X(u)) + Sum(v, OfLine(l))
    <3> DEFINE A == X(u) B == OfLine(l)
    <3>1. A \cap B = {} /\ IsFiniteSet(A) /\ IsFiniteSet(B) /\ X(s) = A \cup B
      BY <1>2, <2>3, <2>4, FS_Subset
    <3>2. \A x \in A \cup B : v[x] \in Int BY <1>2, <2>4
    <3> HIDE DEF A, B, v, X
    <3>3. Sum(v, A \cup B) = Sum(v, A) + Sum(v, B) BY <3>1, <3>2, SumUnion
    <3> QED BY <3>1, <3>3 DEF A, B
  <2>7. Sum(v, X(u)) \in Int /\ Sum(v, OfLine(l)) \in Int
    <3>1. IsFiniteSet(X(u)) /\ IsFiniteSet(OfLine(l)) BY <1>2, <2>4, FS_Subset
    <3>2. (\A x \in X(u) : v[x] \in Int) /\ (\A x \in OfLine(l) : v[x] \in Int) BY <1>2, <2>4
    <3> HIDE DEF v, X
    <3> QED BY <3>1, <3>2, SumType
  <2>8. f[l] = Sum(v, OfLine(l)) BY <1>4
  <2> HIDE DEF f, v, X, u
  <2> QED BY <2>2, <2>5, <2>6, <2>7, <2>8
<1>8. T = SUBSET D
  <2> HIDE DEF T
  <2> QED BY <1>1, <1>5, <1>6, <1>7, SetInduction
<1>9. Sum(f, D) = Sum(v, X(D))
  <2>1. D \in T BY <1>8
  <2> QED BY <2>1
<1>10. X(D) \subseteq OfRate(r)
  <2>1. \A x \in Live : At(x).line \in {0} \cup DOMAIN Lines /\ LineSound(At(x)) BY LiveFacts, LineFacts
  <2>2. \A l \in D : l \in DOMAIN Lines /\ l # 0 /\ Lines[l].rate = r BY InvoiceFacts DEF LinesAt, Shapes
  <2> QED BY <2>1, <2>2 DEF LineSound, OfRate
<1>11. Sum(v, X(D)) <= Sum(v, OfRate(r))
  <2> DEFINE A == X(D) B == OfRate(r)
  <2>1. A \subseteq B /\ B \subseteq Live BY <1>10 DEF OfRate
  <2>2. IsFiniteSet(B) /\ IsFiniteSet(B \ A) BY <1>2, <2>1, FS_Subset
  <2>3. \A x \in B : v[x] \in Nat BY <1>2, <2>1
  <2> HIDE DEF A, B, v, X
  <2>4. Sum(v, B) = Sum(v, A) + Sum(v, B \ A) BY <2>1, <2>2, <2>3, SumShrink
  <2>5. Sum(v, B \ A) \in Nat
    <3> DEFINE R == B \ A
    <3>1. IsFiniteSet(R) /\ \A x \in R : v[x] \in Nat BY <2>2, <2>3
    <3> HIDE DEF R
    <3>2. Sum(v, R) \in Nat BY <3>1, SumNatural
    <3> QED BY <3>2 DEF R
  <2>6. Sum(v, A) \in Int
    <3>1. IsFiniteSet(A) /\ \A x \in A : v[x] \in Int BY <2>1, <2>2, <2>3, FS_Subset
    <3> QED BY <3>1, SumType
  <2>7. Sum(v, A) <= Sum(v, B) BY <2>4, <2>5, <2>6
  <2> QED BY <2>7 DEF A, B
<1>12. InputSum(OfRate(r)) = Sum(v, OfRate(r)) 
  <2>1. OfRate(r) \subseteq Live BY DEF OfRate
  <2> HIDE DEF v
  <2> QED BY <2>1, <1>3
<1> HIDE DEF v, X
<1> QED BY <1>9, <1>11, <1>12

-----------------------------------------------------------------------------
(* The lines of a credit.                                                    *)

\* A request a draft may hold: quantities within the lines, free lines with an
\* amount.
RequestOK(q) ==
  /\ \A l \in DOMAIN Lines : q.lines[l] \in 0..Lines[l].qty
  /\ q.manual \in Seq([rate : Nat, amount : Nat])

\* The places of the lines of a request are finitely many.
LEMMA PlacesFacts ==
  ASSUME Shapes, NEW q, RequestOK(q)
  PROVE  /\ Places(q) \subseteq Nat /\ IsFiniteSet(Places(q))
         /\ \E n \in Nat : \A i \in Places(q) : i < n
         /\ DOMAIN q.manual \subseteq Nat \ {0}
         /\ \A m \in DOMAIN q.manual : q.manual[m].amount \in Nat /\ q.manual[m].rate \in Nat
<1>1. Len(Lines) \in Nat /\ DOMAIN Lines = 1..Len(Lines) BY InvoiceFacts DEF Shapes
<1>2. q.manual \in Seq([rate : Nat, amount : Nat]) BY DEF RequestOK
<1>3. Len(q.manual) \in Nat /\ DOMAIN q.manual = 1..Len(q.manual) BY <1>2
<1>4. \A m \in DOMAIN q.manual : q.manual[m] \in [rate : Nat, amount : Nat]
  <2> DEFINE M == [rate : Nat, amount : Nat]
  <2>1. q.manual \in Seq(M) BY <1>2
  <2> HIDE DEF M
  <2>2. \A m \in DOMAIN q.manual : q.manual[m] \in M BY <2>1
  <2> QED BY <2>2 DEF M
<1>5. Places(q) \subseteq 0..(Len(Lines) + Len(q.manual)) BY <1>1, <1>3 DEF Places
<1>6. IsFiniteSet(Places(q))
  <2> DEFINE k == Len(Lines) + Len(q.manual)
  <2>1. k \in Int /\ Places(q) \subseteq 0..k BY <1>1, <1>3, <1>5
  <2> HIDE DEF k
  <2>2. IsFiniteSet(0..k) BY <2>1, FS_Interval
  <2> QED BY <2>1, <2>2, FS_Subset
<1>7. \E n \in Nat : \A i \in Places(q) : i < n
  <2>1. Len(Lines) + Len(q.manual) + 1 \in Nat BY <1>1, <1>3
  <2>2. \A i \in Places(q) : i < Len(Lines) + Len(q.manual) + 1 BY <1>1, <1>3, <1>5
  <2> QED BY <2>1, <2>2
<1> QED BY <1>3, <1>4, <1>5, <1>6, <1>7

\* The amount allocated to a line is an integer; that it is not negative is up
\* to the check of the code.
LEMMA AllocateType ==
  ASSUME Shapes, NEW l \in DOMAIN Lines, NEW n \in Nat, NEW a \in Nat, NEW b \in Nat
  PROVE  Allocate(a, l, n, b) \in Int
<1>1. OfLine(l) \subseteq Live BY DEF OfLine
<1>2. Quantity(OfLine(l)) \in Nat /\ Lines[l].qty \in Nat \ {0} BY <1>1, TotalTypes, InvoiceFacts DEF Shapes
<1> DEFINE k == a * (Quantity(OfLine(l)) + n)
<1>3. k \in Nat BY <1>2
<1> HIDE DEF k
<1>4. RoundHalfUp(k, Lines[l].qty) \in Nat BY <1>2, <1>3, RoundType
<1> QED BY <1>4 DEF Allocate, k

\* Each line of a calculable request before VAT: no amount is negative, and a
\* line of the invoice keeps its rate.
LEMMA PartFacts ==
  ASSUME Shapes, NEW q, RequestOK(q), Calculable(q), NEW i \in Places(q), NEW p, p = Parts(q)[i]
  PROVE  /\ p.line \in {0} \cup DOMAIN Lines /\ p.rate \in Rates /\ p.qty \in Nat \ {0}
         /\ p.base \in Nat /\ p.input \in Nat /\ p.input <= p.base
         /\ p.line # 0 => p.rate = Lines[p.line].rate
         /\ i \in DOMAIN Lines => /\ p = SourceLine(i, q.lines[i]) /\ p.line = i
                                  /\ q.lines[i] > 0 /\ QuantityLeft(q, i)
         /\ i \notin DOMAIN Lines => p.line = 0
<1>1. Len(Lines) \in Nat /\ DOMAIN Lines = 1..Len(Lines) BY InvoiceFacts DEF Shapes
<1>2. p = IF i \in DOMAIN Lines THEN SourceLine(i, q.lines[i]) ELSE FreeLine(q.manual[i - Len(Lines)])
  BY DEF Parts
<1>3. DOMAIN Parts(q) = Places(q) BY DEF Parts
<1>4. 0 <= p.input /\ p.input <= p.base BY <1>3 DEF Calculable
<1>5. CASE i \in DOMAIN Lines
  <2>1. p = SourceLine(i, q.lines[i]) BY <1>2, <1>5
  <2>2. q.lines[i] > 0
    <3>1. \A m \in DOMAIN q.manual : Len(Lines) + m \notin DOMAIN Lines BY <1>1, PlacesFacts
    <3> QED BY <1>5, <3>1 DEF Places
  <2>3. QuantityLeft(q, i) BY <1>5, <2>2 DEF Calculable
  <2>4. q.lines[i] \in Nat \ {0}
    <3>1. q.lines[i] \in 0..Lines[i].qty /\ Lines[i].qty \in Nat
      BY <1>5, InvoiceFacts DEF RequestOK, Shapes
    <3> QED BY <2>2, <3>1
  <2>5. /\ p.line = i /\ p.rate = Lines[i].rate /\ p.qty = q.lines[i]
        /\ p.base = Allocate(Lines[i].base, i, q.lines[i], BaseSum(OfLine(i)))
        /\ p.input = Allocate(Input(i), i, q.lines[i], InputSum(OfLine(i)))
    BY <2>1 DEF SourceLine
  <2>6. Lines[i].base \in Nat /\ Input(i) \in Nat BY <1>5, InvoiceFacts DEF Shapes
  <2>7. BaseSum(OfLine(i)) \in Nat /\ InputSum(OfLine(i)) \in Nat
    <3>1. OfLine(i) \subseteq Live BY DEF OfLine
    <3> QED BY <3>1, TotalTypes
  <2>8. p.base \in Int /\ p.input \in Int BY <1>5, <2>4, <2>5, <2>6, <2>7, AllocateType
  <2>9. p.base \in Nat /\ p.input \in Nat BY <1>4, <2>8
  <2>10. p.rate \in Rates BY <1>5, <2>5 DEF Rates
  <2> QED BY <1>1, <1>4, <1>5, <2>1, <2>2, <2>3, <2>4, <2>5, <2>9, <2>10
<1>6. CASE i \notin DOMAIN Lines
  <2>1. PICK m \in DOMAIN q.manual : i = Len(Lines) + m BY <1>6 DEF Places
  <2>2. i - Len(Lines) = m BY <1>1, <2>1, PlacesFacts
  <2>3. p = FreeLine(q.manual[m]) BY <1>2, <1>6, <2>2
  <2>4. p.line = 0 /\ p.rate = q.manual[m].rate /\ p.qty = 1 /\ p.base = q.manual[m].amount
        /\ p.input = q.manual[m].amount
    BY <2>3 DEF FreeLine
  <2>5. q.manual[m].rate \in Rates BY DEF Calculable
  <2>6. q.manual[m].amount \in Nat BY PlacesFacts
  <2> QED BY <1>4, <1>6, <2>4, <2>5, <2>6
<1> QED BY <1>5, <1>6

\* The lines of a rate, their weight and the amount their VAT is calculated to.
LEMMA GroupFacts ==
  ASSUME Shapes, NEW q, RequestOK(q), Calculable(q), NEW parts, parts = Parts(q),
         NEW r \in Rates, NEW E, E = InGroup(parts, r)
  PROVE  /\ E \subseteq Places(q) /\ DOMAIN parts = Places(q) /\ IsFiniteSet(E)
         /\ \A i \in E : parts[i].input \in Nat /\ parts[i].rate = r
         /\ \A T \in SUBSET E : Weight(parts, T) = Sum([i \in E |-> parts[i].input], T)
         /\ Weight(parts, E) \in Nat
         /\ GroupAmount(parts, E, r, OfRate(r)) \in Int
         /\ GroupAmount(parts, E, r, OfRate(r)) =
              DerivedOf(r, InputSum(OfRate(r)) + Weight(parts, E)) - DerivedSum(OfRate(r))
<1>1. DOMAIN parts = Places(q) BY DEF Parts
<1>2. E \subseteq Places(q) /\ \A i \in E : parts[i].rate = r BY <1>1 DEF InGroup
<1>3. IsFiniteSet(E) BY <1>2, PlacesFacts, FS_Subset
<1>4. \A i \in E : parts[i].input \in Nat BY <1>2, PartFacts
<1> DEFINE w == [i \in E |-> parts[i].input]
<1>5. ASSUME NEW T \in SUBSET E PROVE Weight(parts, T) = Sum(w, T)
  <2> DEFINE v == [i \in T |-> parts[i].input]
  <2>1. Weight(parts, T) = Sum(v, T) BY DEF Weight, SumFunction, Sum
  <2>2. \A i \in T : v[i] = w[i] BY <1>5
  <2>3. IsFiniteSet(T) BY <1>3, FS_Subset
  <2> HIDE DEF v, w
  <2> QED BY <2>1, <2>2, <2>3, SumSame
<1>6. Weight(parts, E) \in Nat
  <2>1. \A i \in E : w[i] \in Nat BY <1>4
  <2>2. Weight(parts, E) = Sum(w, E) BY <1>5
  <2> HIDE DEF w
  <2> QED BY <2>1, <2>2, <1>3, SumNatural
<1>7. r \in Nat BY InvoiceFacts DEF Shapes
<1>8. InputSum(OfRate(r)) \in Nat /\ DerivedSum(OfRate(r)) \in Nat
  <2>1. OfRate(r) \subseteq Live BY DEF OfRate
  <2> QED BY <2>1, TotalTypes
<1>9. DerivedOf(r, InputSum(OfRate(r)) + Weight(parts, E)) \in Nat
  <2> DEFINE n == InputSum(OfRate(r)) + Weight(parts, E)
  <2>1. n \in Nat BY <1>6, <1>8
  <2> HIDE DEF n
  <2>2. DerivedOf(r, n) \in Nat BY <1>7, <2>1, DerivedType DEF Shapes
  <2> QED BY <2>2 DEF n
<1>10. GroupAmount(parts, E, r, OfRate(r)) =
              DerivedOf(r, InputSum(OfRate(r)) + Weight(parts, E)) - DerivedSum(OfRate(r))
  BY DEF GroupAmount
<1> QED BY <1>1, <1>2, <1>3, <1>4, <1>5, <1>6, <1>8, <1>9, <1>10

\* The VAT of a rate is distributed to its lines without a negative share, with
\* VAT included never above the line, and to the cent.
LEMMA ShareFacts ==
  ASSUME Shapes, NEW q, RequestOK(q), Calculable(q), NEW parts, parts = Parts(q),
         Mode # "reverse", NEW r \in Rates, NEW E, E = InGroup(parts, r), E # {}
  PROVE  /\ \A i \in E : /\ Share(parts, i) \in Nat
                         /\ Mode = "gross" => Share(parts, i) <= parts[i].input
                         /\ parts[i].input = 0 => Share(parts, i) = 0
         /\ Sum([i \in E |-> Share(parts, i)], E) = GroupAmount(parts, E, r, OfRate(r))
<1> DEFINE a == GroupAmount(parts, E, r, OfRate(r))
           W == Weight(parts, E)
           w == [i \in E |-> parts[i].input]
           share == [i \in E |-> Share(parts, i)]
<1>1. /\ E \subseteq Places(q) /\ IsFiniteSet(E)
      /\ \A i \in E : parts[i].input \in Nat /\ parts[i].rate = r
      /\ \A T \in SUBSET E : Weight(parts, T) = Sum(w, T)
      /\ W \in Nat /\ a \in Int
  BY GroupFacts
<1>2. W # 0 /\ Distributable(a, W)
  <2>1. Reconcilable(parts, r) BY DEF Calculable
  <2> QED BY <2>1 DEF Reconcilable
<1>3. a \in Nat /\ (Mode = "gross" => a <= W) BY <1>1, <1>2 DEF Distributable
<1>4. PICK n \in Nat : \A i \in Places(q) : i < n BY PlacesFacts
<1>5. E \subseteq Nat BY <1>1, PlacesFacts
<1>6. SharesOut(share, E, w, a, W)
  <2> SUFFICES ASSUME NEW i \in E
               PROVE  share[i] = RoundHalfUp(a * Sum(w, Under(E, i + 1)), W)
                                 - RoundHalfUp(a * Sum(w, Under(E, i)), W)
    BY DEF SharesOut
  <2>1. {j \in E : j <= i} = Under(E, i + 1) /\ {j \in E : j < i} = Under(E, i)
    BY <1>5 DEF Under
  <2>2. Share(parts, i) = RoundHalfUp(a * Weight(parts, {j \in E : j <= i}), W)
                          - RoundHalfUp(a * Weight(parts, {j \in E : j < i}), W)
    <3>1. parts[i].rate = r BY <1>1
    <3> QED BY <3>1 DEF Share
  <2>3. Under(E, i + 1) \in SUBSET E /\ Under(E, i) \in SUBSET E BY DEF Under
  <2>4. Weight(parts, Under(E, i + 1)) = Sum(w, Under(E, i + 1))
        /\ Weight(parts, Under(E, i)) = Sum(w, Under(E, i))
    <3> HIDE DEF w, a, W
    <3> QED BY <1>1, <2>3
  <2>5. share[i] = Share(parts, i) OBVIOUS
  <2> HIDE DEF w, a, W, share
  <2> QED BY <2>1, <2>2, <2>4, <2>5
<1>7. \A i \in E : w[i] \in Nat /\ w[i] = parts[i].input BY <1>1
<1>8. \A i \in E : share[i] = Share(parts, i) OBVIOUS
<1>9. W = Sum(w, E) BY <1>1
<1>10. \A i \in E : i < n BY <1>1, <1>4
<1> HIDE DEF w, a, W, share
<1>11. W \in Nat \ {0} BY <1>1, <1>2
<1>12. /\ \A i \in E : /\ share[i] \in Nat /\ (a <= W => share[i] <= w[i])
                       /\ w[i] = 0 => share[i] = 0
       /\ Sum(share, E) = a
  <2>1. IsFiniteSet(E) /\ (\A i \in E : w[i] \in Nat) /\ a \in Nat BY <1>1, <1>3, <1>7
  <2>2. n \in Nat BY <1>4
  <2>3. Distributes(E, w, a, W, share) BY <2>1, <2>2, <1>5, <1>6, <1>9, <1>10, <1>11 DEF Distributes
  <2> QED BY <2>3, Distribution
<1>13. \A i \in E : /\ Share(parts, i) \in Nat
                    /\ Mode = "gross" => Share(parts, i) <= parts[i].input
                    /\ parts[i].input = 0 => Share(parts, i) = 0
  BY <1>3, <1>7, <1>8, <1>12
<1> QED BY <1>12, <1>13 DEF a, share

\* The lines of a calculated credit are lines the schema accepts.
LEMMA CalculatedFacts ==
  ASSUME Shapes, NEW q, RequestOK(q), Calculable(q), NEW parts, parts = Parts(q),
         NEW P, P = Calculated(q)
  PROVE  /\ P \in LineFunctions /\ DOMAIN P = Places(q)
         /\ \A i \in Places(q) :
              /\ P[i].line = parts[i].line /\ P[i].rate = parts[i].rate /\ P[i].qty = parts[i].qty
              /\ P[i].base = parts[i].base /\ P[i].input = parts[i].input
              /\ P[i].derived = Share(parts, i)
<1>1. DOMAIN parts = Places(q) BY DEF Parts
<1>2. /\ DOMAIN P = Places(q)
      /\ \A i \in Places(q) : P[i] = [line |-> parts[i].line, rate |-> parts[i].rate, qty |-> parts[i].qty,
          base |-> parts[i].base, input |-> parts[i].input, derived |-> Share(parts, i)]
      /\ P = [i \in Places(q) |-> P[i]]
  BY <1>1 DEF Calculated
<1>3. ASSUME NEW i \in Places(q) PROVE P[i] \in Line
  <2> DEFINE p == parts[i] r == p.rate E == InGroup(parts, r)
  <2>1. /\ p.line \in {0} \cup DOMAIN Lines /\ r \in Rates /\ p.qty \in Nat \ {0}
        /\ p.base \in Nat /\ p.input \in Nat /\ p.input <= p.base
        /\ p.line # 0 => r = Lines[p.line].rate
    BY PartFacts
  <2>2. i \in E BY <1>1 DEF InGroup
  <2>3. /\ Share(parts, i) \in Nat
        /\ Mode = "gross" => Share(parts, i) <= p.input
        /\ p.input = 0 => Share(parts, i) = 0
        /\ Mode = "reverse" => Share(parts, i) = 0
    <3>1. CASE Mode = "reverse" BY <3>1, <2>1 DEF Share
    <3>2. CASE Mode # "reverse"
      <4>1. E # {} BY <2>2
      <4>2. \A j \in E : /\ Share(parts, j) \in Nat
                         /\ Mode = "gross" => Share(parts, j) <= parts[j].input
                         /\ parts[j].input = 0 => Share(parts, j) = 0
        <5> HIDE DEF r, p
        <5>1. r \in Rates BY <2>1
        <5> QED BY <5>1, <4>1, <3>2, ShareFacts
      <4> QED BY <4>2, <2>2, <3>2
    <3> QED BY <3>1, <3>2
  <2> DEFINE z == [line |-> p.line, rate |-> r, qty |-> p.qty,
          base |-> p.base, input |-> p.input, derived |-> Share(parts, i)]
  <2>4. P[i] = z BY <1>2
  <2>5. z \in [line : {0} \cup DOMAIN Lines, rate : Rates, qty : Nat \ {0},
                base : Nat, input : Nat, derived : Nat]
    <3> HIDE DEF p, r, E
    <3> QED BY <2>1, <2>3
  <2>6. LineSound(z)
    <3> HIDE DEF p, r, E
    <3> QED BY <2>1, <2>3 DEF LineSound
  <2> QED BY <2>4, <2>5, <2>6 DEF Line
<1>4. P \in [Places(q) -> Line] BY <1>2, <1>3
<1>5. Places(q) # {} BY DEF Calculable
<1>6. P \in LineFunctions BY <1>4, <1>5, PlacesFacts, LineFunctionIntro
<1>7. \A i \in Places(q) :
              /\ P[i].line = parts[i].line /\ P[i].rate = parts[i].rate /\ P[i].qty = parts[i].qty
              /\ P[i].base = parts[i].base /\ P[i].input = parts[i].input
              /\ P[i].derived = Share(parts, i)
  <2> SUFFICES ASSUME NEW i \in Places(q)
               PROVE  /\ P[i].line = parts[i].line /\ P[i].rate = parts[i].rate /\ P[i].qty = parts[i].qty
                      /\ P[i].base = parts[i].base /\ P[i].input = parts[i].input
                      /\ P[i].derived = Share(parts, i)
    OBVIOUS
  <2>1. P[i] = [line |-> parts[i].line, rate |-> parts[i].rate, qty |-> parts[i].qty,
          base |-> parts[i].base, input |-> parts[i].input, derived |-> Share(parts, i)]
    BY <1>2
  <2> QED BY <2>1
<1>8. DOMAIN P = Places(q) BY <1>2
<1> QED BY <1>6, <1>7, <1>8

-----------------------------------------------------------------------------
(* Every step keeps the credits within the invoice.                          *)

\* The credits of a line stay within it; at its full quantity they are exactly
\* its amount.
LineWithin(l) ==
  /\ Quantity(OfLine(l)) <= Lines[l].qty
  /\ BaseSum(OfLine(l)) <= Lines[l].base
  /\ InputSum(OfLine(l)) <= Input(l)
  /\ Quantity(OfLine(l)) = Lines[l].qty => InputSum(OfLine(l)) = Input(l)

\* The credits of a rate stay within it; at its full input the VAT is exactly
\* the invoice's.
RateWithin(r) ==
  /\ Within(r, InputSum(OfRate(r)), DerivedSum(OfRate(r)))
  /\ InputSum(OfRate(r)) = Capacity(r) => DerivedSum(OfRate(r)) = DerivedOf(r, Capacity(r))

\* The totals of a line in the next state.
LEMMA LineTotalsAfter ==
  ASSUME NEW l, NEW T, T = OfLine(l)'
  PROVE  /\ Quantity(OfLine(l))' = QuantityAfter(T)
         /\ BaseSum(OfLine(l))' = BaseAfter(T)
         /\ InputSum(OfLine(l))' = InputAfter(T)
BY DEF Quantity, BaseSum, InputSum, SumFunction, Sum, QuantityAfter, BaseAfter, InputAfter

\* The totals of a rate in the next state.
LEMMA RateTotalsAfter ==
  ASSUME NEW r, NEW T, T = OfRate(r)'
  PROVE  InputSum(OfRate(r))' = InputAfter(T) /\ DerivedSum(OfRate(r))' = DerivedAfter(T)
BY DEF InputSum, DerivedSum, SumFunction, Sum, InputAfter, DerivedAfter

\* While the invoice stays, so does everything that depends on it alone.
LEMMA SameInvoice ==
  ASSUME invoice' = invoice
  PROVE  /\ Lines' = Lines /\ Mode' = Mode /\ Rates' = Rates
         /\ \A l : Input(l)' = Input(l)
         /\ \A r : LinesAt(r)' = LinesAt(r) /\ Capacity(r)' = Capacity(r)
         /\ \A r, n : DerivedOf(r, n)' = DerivedOf(r, n)
         /\ \A x : LineSound(x)' <=> LineSound(x)
         /\ Line' = Line /\ LineFunctions' = LineFunctions /\ StoredCredit' = StoredCredit
<1>1. Lines' = Lines /\ Mode' = Mode BY DEF Lines, Mode
<1>2. Rates' = Rates BY <1>1 DEF Rates
<1>3. \A l : Input(l)' = Input(l) BY <1>1 DEF Input
<1>4. \A r : LinesAt(r)' = LinesAt(r) BY <1>1 DEF LinesAt
<1>5. \A r : Capacity(r)' = Capacity(r) BY <1>3, <1>4 DEF Capacity
<1>6. \A r, n : DerivedOf(r, n)' = DerivedOf(r, n) BY <1>1 DEF DerivedOf, Scale, RoundHalfUp
<1>7. \A x : LineSound(x)' <=> LineSound(x) BY <1>1 DEF LineSound
<1>8. Line' = Line BY <1>1, <1>2, <1>7 DEF Line
<1>9. LineFunctions' = LineFunctions BY <1>8 DEF LineFunctions
<1>10. StoredCredit' = StoredCredit BY <1>9 DEF StoredCredit
<1> QED BY <1>1, <1>2, <1>3, <1>4, <1>5, <1>6, <1>7, <1>8, <1>9, <1>10

\* Approving moves the amounts of a line to the share rounded for the quantity
\* credited so far, whatever was rounded before.
LEMMA ApproveLine ==
  ASSUME Shapes, NEW q, RequestOK(q), Calculable(q), NEW P, P = Calculated(q), Approving(P),
         NEW l \in DOMAIN Lines, NEW k, k = IF l \in Places(q) THEN q.lines[l] ELSE 0
  PROVE  /\ Quantity(OfLine(l))' = Quantity(OfLine(l)) + k
         /\ k = 0 => /\ BaseSum(OfLine(l))' = BaseSum(OfLine(l))
                     /\ InputSum(OfLine(l))' = InputSum(OfLine(l))
         /\ k # 0 => /\ BaseSum(OfLine(l))' = RoundHalfUp(Lines[l].base * (Quantity(OfLine(l)) + k), Lines[l].qty)
                     /\ InputSum(OfLine(l))' = RoundHalfUp(Input(l) * (Quantity(OfLine(l)) + k), Lines[l].qty)
         /\ k \in Nat /\ (k # 0 => Quantity(OfLine(l)) + k <= Lines[l].qty)
<1>0. /\ P \in LineFunctions /\ DOMAIN P = Places(q)
      /\ \A i \in Places(q) : P[i].line = Parts(q)[i].line
  BY CalculatedFacts
<1>1. PICK n : n = Len(credits) + 1 OBVIOUS
<1>2. /\ Live' = Live \cup {<<n, i>> : i \in DOMAIN P}
      /\ \A x \in Live : At(x)' = At(x)
      /\ \A i \in DOMAIN P : At(<<n, i>>)' = P[i] /\ <<n, i>> \notin Live
  BY <1>1, ApprovingEffect
<1>3. Len(Lines) \in Nat /\ DOMAIN Lines = 1..Len(Lines) BY InvoiceFacts DEF Shapes
<1>4. \A i \in Places(q) : P[i].line = l <=> i = l
  <2>1. \A i \in Places(q) : /\ i \in DOMAIN Lines => Parts(q)[i].line = i
                             /\ i \notin DOMAIN Lines => Parts(q)[i].line = 0
    BY PartFacts
  <2> QED BY <1>0, <1>3, <2>1
<1>5. PICK T : T = OfLine(l)' OBVIOUS
<1> DEFINE S == OfLine(l) E == {i \in DOMAIN P : i = l}
<1>6. S \subseteq Live BY DEF OfLine
<1>7. T = {x \in Live' : At(x)'.line = l} BY <1>5 DEF OfLine
<1>8. S \subseteq T
  <2>1. \A x \in S : x \in Live' /\ At(x)'.line = l BY <1>2 DEF OfLine
  <2> QED BY <1>7, <2>1
<1>9. \A i \in E : <<n, i>> \in T
  <2>1. \A i \in E : <<n, i>> \in Live' /\ At(<<n, i>>)' = P[i] /\ P[i].line = l
    BY <1>0, <1>2, <1>4
  <2> QED BY <1>7, <2>1
<1>10. \A x \in T : x \in S \/ \E i \in E : x = <<n, i>>
  <2> SUFFICES ASSUME NEW x \in T, x \notin S PROVE \E i \in E : x = <<n, i>> OBVIOUS
  <2>1. x \in Live' /\ At(x)'.line = l BY <1>7
  <2>2. x \notin Live BY <1>2, <2>1 DEF OfLine
  <2>3. PICK i \in DOMAIN P : x = <<n, i>> BY <1>2, <2>1, <2>2
  <2>4. P[i].line = l BY <1>2, <2>1, <2>3
  <2> QED BY <1>0, <1>4, <2>3, <2>4
<1>11. E \subseteq DOMAIN P OBVIOUS
<1> HIDE DEF S, E
<1>12. /\ QuantityAfter(T) = Quantity(S) + QuantityAdded(P, E)
       /\ BaseAfter(T) = BaseSum(S) + BaseAdded(P, E)
       /\ InputAfter(T) = InputSum(S) + InputAdded(P, E)
  <2>1. Gains(S, T, n, E) BY <1>8, <1>9, <1>10 DEF Gains
  <2>2. P \in LineFunctions BY <1>0
  <2> QED BY <2>1, <2>2, <1>1, <1>6, <1>11, ApprovingTotals
<1>13. /\ Quantity(OfLine(l))' = QuantityAfter(T)
       /\ BaseSum(OfLine(l))' = BaseAfter(T)
       /\ InputSum(OfLine(l))' = InputAfter(T)
  BY <1>5, LineTotalsAfter
<1>14. Quantity(S) \in Nat /\ BaseSum(S) \in Nat /\ InputSum(S) \in Nat BY <1>6, TotalTypes
<1>15. CASE l \notin Places(q)
  <2>1. E = {} BY <1>0, <1>15 DEF E
  <2>2. QuantityAdded(P, E) = 0 /\ BaseAdded(P, E) = 0
        /\ InputAdded(P, E) = 0
    BY <2>1, SumEmpty DEF QuantityAdded, BaseAdded, InputAdded
  <2>3. k = 0 BY <1>15
  <2> QED BY <1>12, <1>13, <1>14, <2>2, <2>3 DEF S
<1>16. CASE l \in Places(q)
  <2>1. E = {l} BY <1>0, <1>16 DEF E
  <2> DEFINE p == Parts(q)[l]
  <2>2. /\ p.qty \in Nat \ {0} /\ p.base \in Nat /\ p.input \in Nat
        /\ p = SourceLine(l, q.lines[l]) /\ QuantityLeft(q, l)
    BY <1>16, PartFacts
  <2>3. /\ p.qty = q.lines[l]
        /\ p.base = Allocate(Lines[l].base, l, q.lines[l], BaseSum(OfLine(l)))
        /\ p.input = Allocate(Input(l), l, q.lines[l], InputSum(OfLine(l)))
    BY <2>2 DEF SourceLine
  <2>4. P[l].qty = p.qty /\ P[l].base = p.base /\ P[l].input = p.input
    BY <1>16, CalculatedFacts
  <2> HIDE DEF p
  <2>5. k = q.lines[l] /\ k \in Nat \ {0} BY <1>16, <2>2, <2>3
  <2>6. QuantityAdded(P, E) = P[l].qty
    <3> DEFINE f == [i \in E |-> P[i].qty]
    <3>1. f[l] = P[l].qty /\ f[l] \in Int BY <2>1, <2>2, <2>4
    <3> HIDE DEF f
    <3> QED BY <2>1, <3>1, SumSingle DEF f, QuantityAdded
  <2>7. BaseAdded(P, E) = P[l].base
    <3> DEFINE f == [i \in E |-> P[i].base]
    <3>1. f[l] = P[l].base /\ f[l] \in Int BY <2>1, <2>2, <2>4
    <3> HIDE DEF f
    <3> QED BY <2>1, <3>1, SumSingle DEF f, BaseAdded
  <2>8. InputAdded(P, E) = P[l].input
    <3> DEFINE f == [i \in E |-> P[i].input]
    <3>1. f[l] = P[l].input /\ f[l] \in Int BY <2>1, <2>2, <2>4
    <3> HIDE DEF f
    <3> QED BY <2>1, <3>1, SumSingle DEF f, InputAdded
  <2>9. Quantity(OfLine(l))' = Quantity(S) + k BY <1>12, <1>13, <2>3, <2>4, <2>5, <2>6
  <2> DEFINE b == RoundHalfUp(Lines[l].base * (Quantity(S) + k), Lines[l].qty)
             v == RoundHalfUp(Input(l) * (Quantity(S) + k), Lines[l].qty)
  <2>10. p.base = b - BaseSum(S) /\ p.input = v - InputSum(S) BY <2>3, <2>5 DEF Allocate, S
  <2>11. b \in Nat /\ v \in Nat
    <3>1. /\ Lines[l].base \in Nat /\ Input(l) \in Nat /\ Lines[l].qty \in Nat \ {0}
      BY InvoiceFacts DEF Shapes
    <3> DEFINE m == Quantity(S) + k
    <3>2. m \in Nat BY <1>14, <2>5
    <3> HIDE DEF m
    <3>3. Lines[l].base * m \in Nat /\ Input(l) * m \in Nat BY <3>1, <3>2
    <3>4. RoundHalfUp(Lines[l].base * m, Lines[l].qty) \in Nat
          /\ RoundHalfUp(Input(l) * m, Lines[l].qty) \in Nat
      BY <3>1, <3>3, RoundType
    <3> QED BY <3>4 DEF m
  <2>12. BaseSum(OfLine(l))' = b /\ InputSum(OfLine(l))' = v
    <3> HIDE DEF b, v
    <3> QED BY <1>12, <1>13, <1>14, <2>4, <2>7, <2>8, <2>10, <2>11
  <2>13. Quantity(S) + k <= Lines[l].qty BY <2>2, <2>5 DEF QuantityLeft, S
  <2> QED BY <2>5, <2>9, <2>12, <2>13 DEF S
<1> QED BY <1>15, <1>16

\* Approving keeps a line within the invoice.
LEMMA ApproveKeepsLine ==
  ASSUME Shapes, NEW q, RequestOK(q), Calculable(q), NEW P, P = Calculated(q), Approving(P),
         invoice' = invoice, NEW l \in DOMAIN Lines, LineWithin(l)
  PROVE  LineWithin(l)'
<1>1. PICK k : k = IF l \in Places(q) THEN q.lines[l] ELSE 0 OBVIOUS
<1> DEFINE u == Quantity(OfLine(l)) b == BaseSum(OfLine(l)) v == InputSum(OfLine(l))
<1>2. /\ Lines[l].base \in Nat /\ Input(l) \in Nat /\ Lines[l].qty \in Nat \ {0}
  BY InvoiceFacts DEF Shapes
<1>3. u \in Nat /\ b \in Nat /\ v \in Nat
  <2>1. OfLine(l) \subseteq Live BY DEF OfLine
  <2> QED BY <2>1, TotalTypes
<1>4. /\ Quantity(OfLine(l))' = u + k
      /\ k = 0 => BaseSum(OfLine(l))' = b /\ InputSum(OfLine(l))' = v
      /\ k # 0 => /\ BaseSum(OfLine(l))' = RoundHalfUp(Lines[l].base * (u + k), Lines[l].qty)
                  /\ InputSum(OfLine(l))' = RoundHalfUp(Input(l) * (u + k), Lines[l].qty)
      /\ k \in Nat /\ (k # 0 => u + k <= Lines[l].qty)
  BY <1>1, ApproveLine
<1>5. u <= Lines[l].qty /\ b <= Lines[l].base /\ v <= Input(l) /\ (u = Lines[l].qty => v = Input(l))
  BY DEF LineWithin
<1> HIDE DEF u, b, v
<1>6. /\ u + k <= Lines[l].qty
      /\ BaseSum(OfLine(l))' <= Lines[l].base
      /\ InputSum(OfLine(l))' <= Input(l)
      /\ u + k = Lines[l].qty => InputSum(OfLine(l))' = Input(l)
  <2>1. CASE k = 0 BY <2>1, <1>3, <1>4, <1>5
  <2>2. CASE k # 0
    <3> DEFINE m == u + k
    <3>1. m \in Nat /\ m <= Lines[l].qty BY <1>3, <1>4, <2>2
    <3>2. BaseSum(OfLine(l))' = RoundHalfUp(Lines[l].base * m, Lines[l].qty)
          /\ InputSum(OfLine(l))' = RoundHalfUp(Input(l) * m, Lines[l].qty)
      BY <1>4, <2>2
    <3> HIDE DEF m
    <3>3. RoundHalfUp(Lines[l].base * m, Lines[l].qty) \in 0..Lines[l].base
          /\ RoundHalfUp(Input(l) * m, Lines[l].qty) \in 0..Input(l)
      BY <1>2, <3>1, RoundPart
    <3>4. m = Lines[l].qty => RoundHalfUp(Input(l) * m, Lines[l].qty) = Input(l)
      BY <1>2, RoundWhole
    <3>5. BaseSum(OfLine(l))' <= Lines[l].base /\ InputSum(OfLine(l))' <= Input(l)
      BY <1>2, <3>2, <3>3
    <3> QED BY <3>1, <3>2, <3>4, <3>5 DEF m
  <2> QED BY <2>1, <2>2
<1>7. Lines[l]' = Lines[l] /\ Input(l)' = Input(l) BY SameInvoice
<1> QED BY <1>4, <1>6, <1>7 DEF LineWithin

\* Approving adds to the totals of a rate the weight and the amount of its
\* group.
LEMMA ApproveRate ==
  ASSUME Shapes, NEW q, RequestOK(q), Calculable(q), NEW P, P = Calculated(q), Approving(P),
         NEW r \in Rates, NEW parts, parts = Parts(q), NEW E, E = InGroup(parts, r)
  PROVE  /\ InputSum(OfRate(r))' = InputSum(OfRate(r)) + Weight(parts, E)
         /\ E = {} \/ Mode = "reverse" => DerivedSum(OfRate(r))' = DerivedSum(OfRate(r))
         /\ E # {} /\ Mode # "reverse" =>
              DerivedSum(OfRate(r))' = DerivedSum(OfRate(r)) + GroupAmount(parts, E, r, OfRate(r))
         /\ E = {} => Weight(parts, E) = 0
<1>0. /\ P \in LineFunctions /\ DOMAIN P = Places(q)
      /\ \A i \in Places(q) : /\ P[i].rate = parts[i].rate /\ P[i].input = parts[i].input
                              /\ P[i].derived = Share(parts, i)
  BY CalculatedFacts
<1>1. PICK n : n = Len(credits) + 1 OBVIOUS
<1>2. /\ Live' = Live \cup {<<n, i>> : i \in DOMAIN P}
      /\ \A x \in Live : At(x)' = At(x)
      /\ \A i \in DOMAIN P : At(<<n, i>>)' = P[i] /\ <<n, i>> \notin Live
  BY <1>1, ApprovingEffect
<1>3. /\ E \subseteq DOMAIN P /\ IsFiniteSet(E)
      /\ \A i \in DOMAIN P : i \in E <=> P[i].rate = r
      /\ \A i \in E : parts[i].input \in Nat
  <2>1. E \subseteq Places(q) /\ DOMAIN parts = Places(q) /\ IsFiniteSet(E)
        /\ \A i \in E : parts[i].input \in Nat
    BY GroupFacts
  <2>2. \A i \in DOMAIN parts : i \in E <=> parts[i].rate = r BY DEF InGroup
  <2> QED BY <1>0, <2>1, <2>2
<1>5. PICK T : T = OfRate(r)' OBVIOUS
<1> DEFINE S == OfRate(r)
<1>6. S \subseteq Live BY DEF OfRate
<1>7. T = {x \in Live' : At(x)'.rate = r} BY <1>5 DEF OfRate
<1>8. S \subseteq T
  <2>1. \A x \in S : x \in Live' /\ At(x)'.rate = r BY <1>2 DEF OfRate
  <2> QED BY <1>7, <2>1
<1>9. \A i \in E : <<n, i>> \in T
  <2>1. \A i \in E : <<n, i>> \in Live' /\ At(<<n, i>>)' = P[i] /\ P[i].rate = r
    BY <1>2, <1>3
  <2> QED BY <1>7, <2>1
<1>10. \A x \in T : x \in S \/ \E i \in E : x = <<n, i>>
  <2> SUFFICES ASSUME NEW x \in T, x \notin S PROVE \E i \in E : x = <<n, i>> OBVIOUS
  <2>1. x \in Live' /\ At(x)'.rate = r BY <1>7
  <2>2. x \notin Live BY <1>2, <2>1 DEF OfRate
  <2>3. PICK i \in DOMAIN P : x = <<n, i>> BY <1>2, <2>1, <2>2
  <2>4. P[i].rate = r BY <1>2, <2>1, <2>3
  <2> QED BY <1>3, <2>3, <2>4
<1> HIDE DEF S
<1>11. /\ InputAfter(T) = InputSum(S) + InputAdded(P, E)
       /\ DerivedAfter(T) = DerivedSum(S) + DerivedAdded(P, E)
  <2>1. Gains(S, T, n, E) BY <1>8, <1>9, <1>10 DEF Gains
  <2>2. P \in LineFunctions /\ E \subseteq DOMAIN P BY <1>0, <1>3
  <2> QED BY <2>1, <2>2, <1>1, <1>6, ApprovingTotals
<1>12. /\ InputSum(OfRate(r))' = InputAfter(T) /\ DerivedSum(OfRate(r))' = DerivedAfter(T)
  BY <1>5, RateTotalsAfter
<1>13. InputAdded(P, E) = Weight(parts, E)
  <2> DEFINE f == [i \in E |-> P[i].input] g == [i \in E |-> parts[i].input]
  <2>1. \A i \in E : f[i] = g[i] BY <1>0, <1>3
  <2>2. Weight(parts, E) = Sum(g, E) BY GroupFacts
  <2>3. InputAdded(P, E) = Sum(f, E) BY DEF InputAdded
  <2> HIDE DEF f, g
  <2> QED BY <1>3, <2>1, <2>2, <2>3, SumSame
<1>14. DerivedSum(S) \in Nat BY <1>6, TotalTypes
<1>15. ASSUME E = {} \/ Mode = "reverse" PROVE DerivedAdded(P, E) = 0
  <2> DEFINE f == [i \in E |-> P[i].derived]
  <2>1. \A i \in E : f[i] = 0 BY <1>0, <1>3, <1>15 DEF Share
  <2>2. DerivedAdded(P, E) = Sum(f, E) BY DEF DerivedAdded
  <2> HIDE DEF f
  <2> QED BY <1>3, <2>1, <2>2, SumZero
<1>16. ASSUME E # {}, Mode # "reverse" PROVE DerivedAdded(P, E) = GroupAmount(parts, E, r, OfRate(r))
  <2> DEFINE f == [i \in E |-> P[i].derived] g == [i \in E |-> Share(parts, i)]
  <2>1. \A i \in E : f[i] = g[i] BY <1>0, <1>3
  <2>2. DerivedAdded(P, E) = Sum(f, E) BY DEF DerivedAdded
  <2>3. Sum(g, E) = GroupAmount(parts, E, r, OfRate(r)) BY <1>16, ShareFacts
  <2> HIDE DEF f, g
  <2> QED BY <1>3, <2>1, <2>2, <2>3, SumSame
<1>17. ASSUME E = {} PROVE Weight(parts, E) = 0
  BY <1>13, <1>17, SumEmpty DEF InputAdded
<1> QED BY <1>11, <1>12, <1>13, <1>14, <1>15, <1>16, <1>17 DEF S

\* The capacity and the totals of a rate are natural numbers.
LEMMA RateTypes ==
  ASSUME Shapes, NEW r \in Rates
  PROVE  /\ r \in Nat /\ Capacity(r) \in Nat /\ DerivedOf(r, Capacity(r)) \in Nat
         /\ OfRate(r) \subseteq Live /\ InputSum(OfRate(r)) \in Nat /\ DerivedSum(OfRate(r)) \in Nat
         /\ Capacity(r) = Sum([l \in LinesAt(r) |-> Input(l)], LinesAt(r))
<1>1. r \in Nat BY InvoiceFacts DEF Shapes
<1>2. Capacity(r) = Sum([l \in LinesAt(r) |-> Input(l)], LinesAt(r)) BY DEF Capacity, SumFunction, Sum
<1>3. IsFiniteSet(LinesAt(r))
  <2>1. Len(Lines) \in Nat /\ DOMAIN Lines = 1..Len(Lines) BY InvoiceFacts DEF Shapes
  <2>2. IsFiniteSet(DOMAIN Lines) BY <2>1, FS_Interval
  <2> QED BY <2>2, FS_Subset DEF LinesAt
<1>4. Capacity(r) \in Nat
  <2> DEFINE f == [l \in LinesAt(r) |-> Input(l)]
  <2>1. \A l \in LinesAt(r) : f[l] \in Nat BY InvoiceFacts DEF LinesAt, Shapes
  <2>2. Capacity(r) = Sum(f, LinesAt(r)) BY <1>2
  <2> HIDE DEF f
  <2> QED BY <1>3, <2>1, <2>2, SumNatural
<1>5. DerivedOf(r, Capacity(r)) \in Nat BY <1>1, <1>4, DerivedType DEF Shapes
<1>6. OfRate(r) \subseteq Live BY DEF OfRate
<1> QED BY <1>1, <1>2, <1>4, <1>5, <1>6, TotalTypes

\* Approving keeps a rate within the invoice.
LEMMA ApproveKeepsRate ==
  ASSUME Shapes, NEW q, RequestOK(q), Calculable(q), NEW P, P = Calculated(q), Approving(P),
         invoice' = invoice, NEW r \in Rates, RateWithin(r)
  PROVE  RateWithin(r)'
<1>1. PICK parts : parts = Parts(q) OBVIOUS
<1>2. PICK E : E = InGroup(parts, r) OBVIOUS
<1> DEFINE v == InputSum(OfRate(r)) d == DerivedSum(OfRate(r)) cap == Capacity(r)
           top == DerivedOf(r, cap) w == Weight(parts, E) a == GroupAmount(parts, E, r, OfRate(r))
<1>3. v \in Nat /\ d \in Nat /\ cap \in Nat /\ top \in Nat BY RateTypes
<1>4. w \in Nat /\ a \in Int /\ a = DerivedOf(r, v + w) - d BY <1>1, <1>2, GroupFacts
<1>5. /\ InputSum(OfRate(r))' = v + w
      /\ E = {} \/ Mode = "reverse" => DerivedSum(OfRate(r))' = d
      /\ E # {} /\ Mode # "reverse" => DerivedSum(OfRate(r))' = d + a
      /\ E = {} => w = 0
  BY <1>1, <1>2, ApproveRate
<1>6. v <= cap /\ d <= top /\ (Mode = "gross" => v - d <= cap - top) /\ (v = cap => d = top)
  BY DEF RateWithin, Within
<1>7. v + w <= cap /\ d + a <= top /\ (Mode = "gross" => (v + w) - (d + a) <= cap - top)
  <2>1. WithinCapacity(parts, r) BY <1>1 DEF Calculable
  <2> QED BY <2>1, <1>2 DEF WithinCapacity, Within
<1>8. Capacity(r)' = cap /\ DerivedOf(r, Capacity(r))' = top /\ Mode' = Mode
  <2>1. Mode' = Mode /\ Capacity(r)' = Capacity(r) BY SameInvoice
  <2>2. DerivedOf(r, Capacity(r))' = DerivedOf(r, Capacity(r))
    BY <2>1 DEF DerivedOf, Scale, RoundHalfUp
  <2> QED BY <2>1, <2>2
<1>9. DerivedOf(r, v + w) \in Int
  <2>0. r \in Nat BY RateTypes
  <2> HIDE DEF v, w, a, d, cap, top
  <2>1. v + w \in Nat /\ r \in Nat BY <1>3, <1>4, <2>0
  <2> DEFINE m == v + w
  <2> HIDE DEF m
  <2>2. m \in Nat BY <2>1 DEF m
  <2>3. DerivedOf(r, m) \in Nat BY <2>1, <2>2, DerivedType DEF Shapes
  <2> QED BY <2>3 DEF m
<1>10. Mode = "reverse" => top = 0 /\ d = 0
  BY DerivedBounds, RateTypes DEF DerivedOf
<1>11. E # {} /\ Mode # "reverse" => (v + w = cap => d + a = top)
  <2> HIDE DEF v, d, w, a, cap
  <2>1. v + w = cap => DerivedOf(r, v + w) = top OBVIOUS
  <2> HIDE DEF top
  <2> QED BY <2>1, <1>3, <1>4, <1>9
<1> DEFINE V == InputSum(OfRate(r))' D == DerivedSum(OfRate(r))'
<1>12. V = v + w /\ (E = {} \/ Mode = "reverse" => D = d) /\ (E # {} /\ Mode # "reverse" => D = d + a)
  BY <1>5
<1>13. V <= cap /\ D <= top /\ (Mode = "gross" => V - D <= cap - top) /\ (V = cap => D = top)
  <2> HIDE DEF v, d, w, a, cap, top, V, D
  <2>1. CASE E = {} BY <2>1, <1>3, <1>5, <1>6, <1>12
  <2>2. CASE E # {} /\ Mode = "reverse" BY <2>2, <1>3, <1>7, <1>10, <1>12
  <2>3. CASE E # {} /\ Mode # "reverse" BY <2>3, <1>7, <1>11, <1>12
  <2> QED BY <2>1, <2>2, <2>3
<1>14. V <= Capacity(r)' /\ D <= DerivedOf(r, Capacity(r))'
       /\ (Mode' = "gross" => V - D <= Capacity(r)' - DerivedOf(r, Capacity(r))')
       /\ (V = Capacity(r)' => D = DerivedOf(r, Capacity(r))')
  <2> HIDE DEF cap, top, V, D
  <2> QED BY <1>8, <1>13
<1> QED BY <1>14 DEF RateWithin, Within

\* What approving stores has the shape the schema asks for.
LEMMA ApproveKeepsShapes ==
  ASSUME Shapes, NEW q, RequestOK(q), Calculable(q), NEW P, P = Calculated(q), Approving(P),
         invoice' = invoice
  PROVE  Shapes'
<1>0. P \in LineFunctions BY CalculatedFacts
<1>1. PICK n : n = Len(credits) + 1 OBVIOUS
<1>2. Live' = Live \cup {<<n, i>> : i \in DOMAIN P} BY <1>1, ApprovingEffect
<1>3. IsFiniteSet({<<n, i>> : i \in DOMAIN P})
  <2>1. IsFiniteSet(DOMAIN P) BY <1>0, LineFunctionFacts
  <2> DEFINE g == [i \in DOMAIN P |-> <<n, i>>] I == {<<n, i>> : i \in DOMAIN P}
  <2>2. g \in Surjection(DOMAIN P, I) BY DEF Surjection
  <2> HIDE DEF g, I
  <2>3. IsFiniteSet(I) BY <2>1, <2>2, FS_Surjection
  <2> QED BY <2>3 DEF I
<1>4. IsFiniteSet(Live') BY <1>2, <1>3, FS_Union DEF Shapes
<1>5. [lines |-> P, status |-> "approved"] \in StoredCredit BY <1>0 DEF StoredCredit
<1>6. credits' \in Seq(StoredCredit)
  <2> DEFINE c == [lines |-> P, status |-> "approved"]
  <2>1. credits' = Append(credits, c) /\ c \in StoredCredit /\ credits \in Seq(StoredCredit)
    BY <1>5 DEF Approving, Shapes
  <2> HIDE DEF c
  <2> QED BY <2>1, AppendProperties
<1>7. StoredCredit' = StoredCredit BY SameInvoice
<1> QED BY <1>4, <1>6, <1>7 DEF Shapes

\* No quantity, no amount: every line that counts has a quantity.
LEMMA NothingLeft ==
  ASSUME Shapes, NEW S, S \subseteq Live, Quantity(S) = 0
  PROVE  InputSum(S) = 0
<1>1. IsFiniteSet(S) BY TotalTypes
<1>2. \A x \in S : At(x).qty \in Nat \ {0} BY LiveFacts, LineFacts
<1>3. ASSUME NEW y \in S PROVE At(y).qty <= Quantity(S)
  <2> DEFINE f == [x \in S |-> At(x).qty]
  <2>1. \A x \in S : f[x] \in Nat BY <1>2
  <2>2. f[y] = At(y).qty OBVIOUS
  <2> HIDE DEF f
  <2>3. f[y] <= Sum(f, S) BY <1>1, <2>1, SumMember
  <2> QED BY <2>2, <2>3, TotalsAre DEF f
<1>4. S = {} BY <1>2, <1>3
<1> QED BY <1>4, TotalsAre, SumEmpty

\* Marking a credit sent or cancelling it only takes lines away.
LEMMA StatusEffect ==
  ASSUME Shapes, invoice' = invoice, NEW c \in DOMAIN credits, NEW to \in {"sent", "cancelled"},
         SetCreditStatus(c, to)
  PROVE  /\ Shapes' /\ Live' \subseteq Live
         /\ \A x \in Live : At(x)' = At(x)
<1>0. credits \in Seq(StoredCredit) BY DEF Shapes
<1>1. Len(credits) \in Nat /\ DOMAIN credits = 1..Len(credits) BY <1>0
<1>2. \A k \in DOMAIN credits : credits[k] \in StoredCredit BY <1>0
<1>3. credits' = [credits EXCEPT ![c].status = to] /\ credits[c].status = "approved"
  BY DEF SetCreditStatus, Status
<1> DEFINE new == [lines |-> credits[c].lines, status |-> to]
<1>4. credits[c] \in StoredCredit /\ new \in StoredCredit BY <1>2 DEF StoredCredit
<1>5. credits' = [credits EXCEPT ![c] = new]
  <2>1. [credits[c] EXCEPT !.status = to] = new BY <1>4 DEF StoredCredit
  <2> QED BY <1>3, <2>1
<1>6. new.lines = credits[c].lines OBVIOUS
<1> HIDE DEF new
<1>16. /\ credits' \in Seq(StoredCredit) /\ DOMAIN credits' = DOMAIN credits
       /\ credits'[c] = new
       /\ \A k \in DOMAIN credits : k # c => credits'[k] = credits[k]
  BY <1>0, <1>1, <1>4, <1>5, ExceptSeq
<1>7. \A k \in DOMAIN credits : credits'[k].lines = credits[k].lines /\ credits'[k] \in StoredCredit
  BY <1>2, <1>4, <1>6, <1>16
<1>8. \A k \in DOMAIN credits : credits'[k].status # "cancelled" => credits[k].status # "cancelled"
  BY <1>3, <1>16
<1>10. \A x : x \in Live' <=> \E k \in DOMAIN credits : \E i \in DOMAIN credits[k].lines :
                          credits'[k].status # "cancelled" /\ x = <<k, i>>
  <2>1. \A k \in DOMAIN credits' : Counts(k)' <=> credits'[k].status # "cancelled" BY DEF Counts, Status
  <2>2. \A x : x \in Live' <=> \E k \in DOMAIN credits' : \E i \in DOMAIN credits'[k].lines :
                          credits'[k].status # "cancelled" /\ x = <<k, i>>
    BY <2>1 DEF Live
  <2> QED BY <2>2, <1>16, <1>7
<1>11. \A x : x \in Live <=> \E k \in DOMAIN credits : \E i \in DOMAIN credits[k].lines :
                          credits[k].status # "cancelled" /\ x = <<k, i>>
  <2>1. \A k \in DOMAIN credits : Counts(k) <=> credits[k].status # "cancelled" BY DEF Counts, Status
  <2> QED BY <2>1, LiveIs
<1>12. Live' \subseteq Live BY <1>8, <1>10, <1>11
<1>13. IsFiniteSet(Live') BY <1>12, FS_Subset DEF Shapes
<1>14. Shapes' BY <1>16, <1>13, SameInvoice DEF Shapes
<1>15. ASSUME NEW x \in Live PROVE At(x)' = At(x)
  <2>1. PICK k \in DOMAIN credits : \E i \in DOMAIN credits[k].lines : x = <<k, i>> BY <1>11
  <2>2. x[1] = k BY <2>1
  <2> QED BY <2>2, <1>7 DEF At
<1> QED BY <1>12, <1>14, <1>15

\* Marking sent and cancelling keep a line within the invoice: a cancelled
\* credit can only free what it took.
LEMMA StatusKeepsLine ==
  ASSUME Shapes, invoice' = invoice, NEW c \in DOMAIN credits, NEW to \in {"sent", "cancelled"},
         SetCreditStatus(c, to), NEW l \in DOMAIN Lines, LineWithin(l)
  PROVE  LineWithin(l)'
<1>1. PICK S : S = OfLine(l) OBVIOUS
<1>2. PICK T : T = OfLine(l)' OBVIOUS
<1>3. S \subseteq Live /\ T \subseteq S /\ \A x \in S : At(x)' = At(x)
  <2>1. Live' \subseteq Live /\ \A x \in Live : At(x)' = At(x) BY StatusEffect
  <2>2. S = {x \in Live : At(x).line = l} /\ T = {x \in Live' : At(x)'.line = l}
    BY <1>1, <1>2 DEF OfLine
  <2> QED BY <2>1, <2>2
<1> DEFINE R == S \ T
<1>4. R \subseteq Live BY <1>3
<1>5. /\ Quantity(S) = QuantityAfter(T) + Quantity(R)
      /\ BaseSum(S) = BaseAfter(T) + BaseSum(R)
      /\ InputSum(S) = InputAfter(T) + InputSum(R)
  BY <1>3, ShrinkTotals
<1> HIDE DEF R
<1>6. Quantity(R) \in Nat /\ BaseSum(R) \in Nat /\ InputSum(R) \in Nat BY <1>4, TotalTypes
<1>7. Quantity(R) = 0 => InputSum(R) = 0 BY <1>4, NothingLeft
<1>8. /\ QuantityAfter(T) = Quantity(OfLine(l))' /\ BaseAfter(T) = BaseSum(OfLine(l))'
      /\ InputAfter(T) = InputSum(OfLine(l))'
  BY <1>2, LineTotalsAfter
<1>9. QuantityAfter(T) \in Int /\ BaseAfter(T) \in Int /\ InputAfter(T) \in Int BY <1>3, ShrinkTotals
<1>10. /\ Quantity(S) <= Lines[l].qty /\ BaseSum(S) <= Lines[l].base /\ InputSum(S) <= Input(l)
       /\ Quantity(S) = Lines[l].qty => InputSum(S) = Input(l)
  BY <1>1 DEF LineWithin
<1>11. Lines[l].qty \in Int /\ Lines[l].base \in Int /\ Input(l) \in Int BY InvoiceFacts DEF Shapes
<1>12. /\ QuantityAfter(T) <= Lines[l].qty /\ BaseAfter(T) <= Lines[l].base
       /\ InputAfter(T) <= Input(l)
       /\ QuantityAfter(T) = Lines[l].qty => InputAfter(T) = Input(l)
  BY <1>5, <1>6, <1>7, <1>9, <1>10, <1>11
<1>13. Lines[l]' = Lines[l] /\ Input(l)' = Input(l) BY SameInvoice
<1> QED BY <1>8, <1>12, <1>13 DEF LineWithin

\* Marking sent and cancelling keep a rate within the invoice.
LEMMA StatusKeepsRate ==
  ASSUME Shapes, invoice' = invoice, NEW c \in DOMAIN credits, NEW to \in {"sent", "cancelled"},
         SetCreditStatus(c, to), NEW r \in Rates, RateWithin(r)
  PROVE  RateWithin(r)'
<1>1. PICK S : S = OfRate(r) OBVIOUS
<1>2. PICK T : T = OfRate(r)' OBVIOUS
<1>3. S \subseteq Live /\ T \subseteq S /\ \A x \in S : At(x)' = At(x)
  <2>1. Live' \subseteq Live /\ \A x \in Live : At(x)' = At(x) BY StatusEffect
  <2>2. S = {x \in Live : At(x).rate = r} /\ T = {x \in Live' : At(x)'.rate = r}
    BY <1>1, <1>2 DEF OfRate
  <2> QED BY <2>1, <2>2
<1> DEFINE R == S \ T
<1>4. R \subseteq Live BY <1>3
<1>5. /\ InputSum(S) = InputAfter(T) + InputSum(R) /\ DerivedSum(S) = DerivedAfter(T) + DerivedSum(R)
      /\ InputAfter(T) \in Int /\ DerivedAfter(T) \in Int
  BY <1>3, ShrinkTotals
<1> HIDE DEF R
<1>6. InputSum(R) \in Nat /\ DerivedSum(R) \in Nat BY <1>4, TotalTypes
<1>7. (InputSum(R) = 0 => DerivedSum(R) = 0) /\ (Mode = "gross" => DerivedSum(R) <= InputSum(R))
  BY <1>4, DerivedBounds
<1> DEFINE V == InputSum(OfRate(r))' D == DerivedSum(OfRate(r))'
<1>8. InputAfter(T) = V /\ DerivedAfter(T) = D BY <1>2, RateTotalsAfter
<1> DEFINE cap == Capacity(r) top == DerivedOf(r, cap)
<1>10. /\ InputSum(S) <= cap /\ DerivedSum(S) <= top
       /\ Mode = "gross" => InputSum(S) - DerivedSum(S) <= cap - top
       /\ InputSum(S) = cap => DerivedSum(S) = top
  BY <1>1 DEF RateWithin, Within
<1>11. cap \in Int /\ top \in Int
  <2>1. Capacity(r) \in Nat /\ DerivedOf(r, Capacity(r)) \in Nat BY RateTypes
  <2>2. cap \in Nat /\ top \in Nat BY <2>1
  <2> HIDE DEF cap, top
  <2> QED BY <2>2
<1>12. Capacity(r)' = cap /\ DerivedOf(r, Capacity(r))' = top /\ Mode' = Mode
  <2>1. Mode' = Mode /\ Capacity(r)' = Capacity(r) BY SameInvoice
  <2>2. DerivedOf(r, Capacity(r))' = DerivedOf(r, Capacity(r))
    BY <2>1 DEF DerivedOf, Scale, RoundHalfUp
  <2> QED BY <2>1, <2>2
<1> HIDE DEF cap, top, V, D
<1>13. V <= cap /\ D <= top /\ (Mode = "gross" => V - D <= cap - top) /\ (V = cap => D = top)
  BY <1>5, <1>6, <1>7, <1>8, <1>10, <1>11
<1>14. V <= Capacity(r)' /\ D <= DerivedOf(r, Capacity(r))'
       /\ (Mode' = "gross" => V - D <= Capacity(r)' - DerivedOf(r, Capacity(r))')
       /\ (V = Capacity(r)' => D = DerivedOf(r, Capacity(r))')
  BY <1>12, <1>13
<1> QED BY <1>14 DEF RateWithin, Within, V, D

-----------------------------------------------------------------------------
(* The invariant of credits and payments.                                    *)

\* Drafts and creations hold requests within the invoice.
RequestsOK ==
  /\ draft = NoDraft \/ (draft.kind = "draft" /\ RequestOK(draft.request))
  /\ pending = NoRequest \/ (pending.kind = "create" /\ RequestOK(pending.request))

\* An event of the payment ledger.
PaymentEvents == [action : {"marked", "reverted"}, on : PaymentDates, amount : Nat \ {0}]

\* The events tell the payment: they alternate, a reversal repeats what it
\* takes back, the last one decides.
Told(told, paid) ==
  /\ \A e \in DOMAIN told :
       /\ told[e].action = IF e % 2 = 1 THEN "marked" ELSE "reverted"
       /\ e % 2 = 0 => /\ told[e].on = told[e - 1].on
                       /\ told[e].amount = told[e - 1].amount
  /\ paid = IF Len(told) % 2 = 0 THEN Unpaid
            ELSE LET last == told[Len(told)]
                 IN  [state |-> "paid", on |-> last.on, amount |-> last.amount]

\* The ledger tells the invoice's payment.
PaymentTold == ledger \in Seq(PaymentEvents) /\ Told(ledger, payment)

\* The inductive invariant of credits and payments.  NeverOverCredited alone is
\* not inductive: the cumulative rounding of the next credit is right only if a
\* line credited in full has its whole amount and a full rate its whole VAT.
CreditInv ==
  /\ Shapes
  /\ \A l \in DOMAIN Lines : LineWithin(l)
  /\ \A r \in Rates : RateWithin(r)
  /\ RequestsOK
  /\ PaymentTold

\* With VAT included the net amount is at most the gross one.
LEMMA DerivedWithin ==
  ASSUME invoice \in Invoices, Mode = "gross", NEW r \in Nat, NEW n \in Nat
  PROVE  DerivedOf(r, n) <= n
<1> DEFINE d == Scale + r
<1>1. Scale \in Nat /\ d \in Nat \ {0} /\ Scale <= d BY DEF Scale
<1> HIDE DEF d
<1>2. RoundHalfUp(n * Scale, d) \in 0..n BY <1>1, RoundPart
<1> QED BY <1>2 DEF DerivedOf, d

\* A sent invoice without credits satisfies the invariant.
LEMMA CreditInitInv == CreditInit => CreditInv
<1> SUFFICES ASSUME CreditInit PROVE CreditInv OBVIOUS
<1>0. invoice \in Invoices /\ credits = <<>> /\ draft = NoDraft /\ pending = NoRequest
      /\ payment = Unpaid /\ ledger = <<>>
  BY DEF CreditInit
<1>1. Live = {} BY <1>0 DEF Live
<1>2. Shapes BY <1>0, <1>1, FS_EmptySet, EmptySeq DEF Shapes
<1>3. /\ \A l : OfLine(l) = {} /\ \A r : OfRate(r) = {}
  BY <1>1 DEF OfLine, OfRate
<1>4. Quantity({}) = 0 /\ BaseSum({}) = 0 /\ InputSum({}) = 0 /\ DerivedSum({}) = 0
  BY TotalsAre, SumEmpty
<1>5. ASSUME NEW l \in DOMAIN Lines PROVE LineWithin(l)
  <2>1. Lines[l].qty \in Nat \ {0} /\ Lines[l].base \in Nat /\ Input(l) \in Nat BY <1>0, InvoiceFacts
  <2> QED BY <2>1, <1>3, <1>4 DEF LineWithin
<1>6. ASSUME NEW r \in Rates PROVE RateWithin(r)
  <2>1. r \in Nat /\ Capacity(r) \in Nat /\ DerivedOf(r, Capacity(r)) \in Nat BY <1>2, RateTypes
  <2>2. Capacity(r) = 0 => DerivedOf(r, Capacity(r)) = 0 BY <1>0, <2>1, DerivedType
  <2>3. Mode = "gross" => DerivedOf(r, Capacity(r)) <= Capacity(r) BY <1>0, <2>1, DerivedWithin
  <2> QED BY <2>1, <2>2, <2>3, <1>3, <1>4 DEF RateWithin, Within
<1>7. PaymentTold BY <1>0, EmptySeq DEF PaymentTold, Told
<1> QED BY <1>0, <1>2, <1>5, <1>6, <1>7 DEF CreditInv, RequestsOK

\* The part of the invariant about credits.
CreditsKept == /\ Shapes
               /\ \A l \in DOMAIN Lines : LineWithin(l)
               /\ \A r \in Rates : RateWithin(r)

\* A step that leaves the credits alone keeps it.
LEMMA SameCredits ==
  ASSUME CreditsKept, invoice' = invoice, credits' = credits
  PROVE  CreditsKept'
<1>1. /\ Lines' = Lines /\ Mode' = Mode /\ Rates' = Rates /\ StoredCredit' = StoredCredit
      /\ \A l : Input(l)' = Input(l)
      /\ \A r : Capacity(r)' = Capacity(r)
  BY SameInvoice
<1>2. Live' = Live /\ \A x : At(x)' = At(x) BY DEF Live, At, Counts, Status
<1>3. (\A l : OfLine(l)' = OfLine(l)) /\ (\A r : OfRate(r)' = OfRate(r)) BY <1>2 DEF OfLine, OfRate
<1>4. Shapes' BY <1>1, <1>2 DEF CreditsKept, Shapes
<1>5. ASSUME NEW l PROVE /\ Quantity(OfLine(l))' = Quantity(OfLine(l))
                         /\ BaseSum(OfLine(l))' = BaseSum(OfLine(l))
                         /\ InputSum(OfLine(l))' = InputSum(OfLine(l))
  BY <1>2, <1>3 DEF Quantity, BaseSum, InputSum
<1>6. ASSUME NEW r PROVE /\ InputSum(OfRate(r))' = InputSum(OfRate(r))
                         /\ DerivedSum(OfRate(r))' = DerivedSum(OfRate(r))
                         /\ DerivedOf(r, Capacity(r))' = DerivedOf(r, Capacity(r))
  <2>1. InputSum(OfRate(r))' = InputSum(OfRate(r)) /\ DerivedSum(OfRate(r))' = DerivedSum(OfRate(r))
    BY <1>2, <1>3 DEF InputSum, DerivedSum
  <2>2. DerivedOf(r, Capacity(r))' = DerivedOf(r, Capacity(r))
    BY <1>1 DEF DerivedOf, Scale, RoundHalfUp
  <2> QED BY <2>1, <2>2
<1>7. ASSUME NEW l \in DOMAIN Lines PROVE LineWithin(l)'
  <2>1. LineWithin(l) BY DEF CreditsKept
  <2> QED BY <2>1, <1>1, <1>5 DEF LineWithin
<1>8. ASSUME NEW r \in Rates PROVE RateWithin(r)'
  <2>1. RateWithin(r) BY DEF CreditsKept
  <2> QED BY <2>1, <1>1, <1>6 DEF RateWithin, Within
<1> QED BY <1>1, <1>4, <1>7, <1>8 DEF CreditsKept

\* Whether a request fits depends on the invoice alone.
LEMMA SameRequestOK ==
  ASSUME invoice' = invoice, NEW q
  PROVE  RequestOK(q)' <=> RequestOK(q)
BY DEF RequestOK, Lines

\* The request a new draft starts from fits the invoice.
LEMMA InitialRequestOK ==
  ASSUME CreditsKept
  PROVE  RequestOK(InitialRequest)
<1>1. \A l \in DOMAIN Lines : 0 \in 0..Lines[l].qty BY InvoiceFacts DEF CreditsKept, Shapes
<1>2. \A l \in DOMAIN Lines : Remaining[l] \in 0..Lines[l].qty
  <2> SUFFICES ASSUME NEW l \in DOMAIN Lines PROVE Remaining[l] \in 0..Lines[l].qty OBVIOUS
  <2>1. OfLine(l) \subseteq Live BY DEF OfLine
  <2>2. Quantity(OfLine(l)) \in Nat /\ Lines[l].qty \in Nat
    BY <2>1, TotalTypes, InvoiceFacts DEF CreditsKept, Shapes
  <2>3. Quantity(OfLine(l)) <= Lines[l].qty BY DEF CreditsKept, LineWithin
  <2>4. Remaining[l] = IF Creditable(l) THEN Lines[l].qty - Quantity(OfLine(l)) ELSE 0
    BY DEF Remaining
  <2> QED BY <2>2, <2>3, <2>4
<1>3. <<>> \in Seq([rate : Nat, amount : Nat]) BY EmptySeq
<1>4. RequestOK(Nothing) BY <1>1, <1>3 DEF RequestOK, Nothing
<1>5. RequestOK([lines |-> Remaining, manual |-> <<>>]) BY <1>2, <1>3 DEF RequestOK
<1> QED BY <1>4, <1>5 DEF InitialRequest

\* The gross total and what is credited of it, as sums over the VAT rates.
LEMMA GrossSums ==
  ASSUME Shapes, NEW f, f = [r \in Rates |-> Gross(Capacity(r), DerivedOf(r, Capacity(r)))],
         NEW h, h = [r \in Rates |-> Gross(InputSum(OfRate(r)), DerivedSum(OfRate(r)))]
  PROVE  /\ IsFiniteSet(Rates) /\ GrossTotal = Sum(f, Rates) /\ CreditedGross = Sum(h, Rates)
         /\ \A r \in Rates : f[r] \in Int /\ h[r] \in Int
<1>1. IsFiniteSet(Rates)
  <2>1. Len(Lines) \in Nat /\ DOMAIN Lines = 1..Len(Lines) BY InvoiceFacts DEF Shapes
  <2>2. IsFiniteSet(DOMAIN Lines) BY <2>1, FS_Interval
  <2> DEFINE g == [l \in DOMAIN Lines |-> Lines[l].rate]
  <2>3. g \in Surjection(DOMAIN Lines, Rates) BY DEF Surjection, Rates
  <2> HIDE DEF g
  <2> QED BY <2>2, <2>3, FS_Surjection
<1>2. \A r \in Rates : f[r] \in Int /\ h[r] \in Int
  <2>1. \A v, d \in Nat : Gross(v, d) \in Int BY DEF Gross
  <2> SUFFICES ASSUME NEW r \in Rates PROVE f[r] \in Int /\ h[r] \in Int OBVIOUS
  <2>2. /\ f[r] = Gross(Capacity(r), DerivedOf(r, Capacity(r)))
        /\ h[r] = Gross(InputSum(OfRate(r)), DerivedSum(OfRate(r)))
    OBVIOUS
  <2>3. /\ Capacity(r) \in Nat /\ DerivedOf(r, Capacity(r)) \in Nat
        /\ InputSum(OfRate(r)) \in Nat /\ DerivedSum(OfRate(r)) \in Nat
    BY RateTypes
  <2> QED BY <2>1, <2>2, <2>3
<1>3. GrossTotal = Sum(f, Rates) /\ CreditedGross = Sum(h, Rates)
  BY DEF GrossTotal, CreditedGross, SumFunction, Sum
<1> QED BY <1>1, <1>2, <1>3

\* The open amount of the invoice is an integer.
LEMMA OpenAmountType ==
  ASSUME Shapes
  PROVE  GrossTotal - CreditedGross \in Int
<1> DEFINE f == [r \in Rates |-> Gross(Capacity(r), DerivedOf(r, Capacity(r)))]
           h == [r \in Rates |-> Gross(InputSum(OfRate(r)), DerivedSum(OfRate(r)))]
<1>1. /\ IsFiniteSet(Rates) /\ GrossTotal = Sum(f, Rates) /\ CreditedGross = Sum(h, Rates)
      /\ \A r \in Rates : f[r] \in Int /\ h[r] \in Int
  BY GrossSums
<1> HIDE DEF f, h
<1>2. Sum(f, Rates) \in Int /\ Sum(h, Rates) \in Int BY <1>1, SumType
<1> QED BY <1>1, <1>2

\* Marking the invoice paid and reverting it keep the ledger in step with the
\* payment.
LEMMA PaymentStep ==
  ASSUME Shapes, PaymentTold, (\E d \in PaymentDates : MarkPaid(d)) \/ RevertPaid
  PROVE  PaymentTold'
<1>0. ledger \in Seq(PaymentEvents) /\ Told(ledger, payment) BY DEF PaymentTold
<1>1. Len(ledger) \in Nat /\ DOMAIN ledger = 1..Len(ledger) BY <1>0
<1>2. \A e \in DOMAIN ledger : ledger[e] \in PaymentEvents BY <1>0
<1>3. payment = IF Len(ledger) % 2 = 0 THEN Unpaid
                ELSE [state |-> "paid", on |-> ledger[Len(ledger)].on, amount |-> ledger[Len(ledger)].amount]
  BY <1>0 DEF Told
<1>4. ASSUME NEW ev \in PaymentEvents, NEW p, ledger' = Append(ledger, ev), payment' = p,
             ev.action = IF (Len(ledger) + 1) % 2 = 1 THEN "marked" ELSE "reverted",
             (Len(ledger) + 1) % 2 = 0 => /\ ev.on = ledger[Len(ledger)].on
                                          /\ ev.amount = ledger[Len(ledger)].amount,
             p = IF (Len(ledger) + 1) % 2 = 0 THEN Unpaid
                 ELSE [state |-> "paid", on |-> ev.on, amount |-> ev.amount]
      PROVE  PaymentTold'
  <2>1. /\ ledger' \in Seq(PaymentEvents) /\ Len(ledger') = Len(ledger) + 1
        /\ DOMAIN ledger' = 1..(Len(ledger) + 1)
        /\ \A e \in 1..Len(ledger) : ledger'[e] = ledger[e]
        /\ ledger'[Len(ledger) + 1] = ev
    BY <1>0, <1>4, AppendProperties
  <2>2. ASSUME NEW e \in DOMAIN ledger'
        PROVE  /\ ledger'[e].action = IF e % 2 = 1 THEN "marked" ELSE "reverted"
               /\ e % 2 = 0 => /\ ledger'[e].on = ledger'[e - 1].on
                               /\ ledger'[e].amount = ledger'[e - 1].amount
    <3>1. CASE e \in DOMAIN ledger
      <4>1. /\ ledger[e].action = IF e % 2 = 1 THEN "marked" ELSE "reverted"
            /\ e % 2 = 0 => /\ ledger[e].on = ledger[e - 1].on
                            /\ ledger[e].amount = ledger[e - 1].amount
        BY <1>0, <3>1 DEF Told
      <4>2. e \in 1..Len(ledger) BY <1>1, <3>1
      <4>3. e % 2 = 0 => e - 1 \in 1..Len(ledger) BY <4>2, <1>1
      <4> QED BY <4>1, <4>2, <4>3, <2>1
    <3>2. CASE e \notin DOMAIN ledger
      <4>1. e = Len(ledger) + 1 BY <1>1, <2>1, <2>2, <3>2
      <4>2. e % 2 = 0 => e - 1 = Len(ledger) /\ Len(ledger) \in 1..Len(ledger) BY <4>1, <1>1
      <4> QED BY <4>1, <4>2, <2>1, <1>4
    <3> QED BY <3>1, <3>2
  <2>3. Unpaid' = Unpaid BY DEF Unpaid
  <2>4. payment' = IF Len(ledger') % 2 = 0 THEN Unpaid
                   ELSE [state |-> "paid", on |-> ledger'[Len(ledger')].on,
                         amount |-> ledger'[Len(ledger')].amount]
    BY <2>1, <1>4
  <2> QED BY <2>1, <2>2, <2>3, <2>4 DEF PaymentTold, Told
<1>5. CASE \E d \in PaymentDates : MarkPaid(d)
  <2>1. PICK d \in PaymentDates : MarkPaid(d) BY <1>5
  <2>2. PICK a : a = GrossTotal - CreditedGross OBVIOUS
  <2>3. a \in Nat \ {0}
    <3>1. a > 0 BY <2>1, <2>2 DEF MarkPaid
    <3>2. a \in Int BY <2>2, OpenAmountType
    <3> QED BY <3>1, <3>2
  <2>4. /\ payment = Unpaid /\ payment' = [state |-> "paid", on |-> d, amount |-> a]
        /\ ledger' = Append(ledger, [action |-> "marked", on |-> d, amount |-> a])
    BY <2>1, <2>2 DEF MarkPaid
  <2>5. (Len(ledger) + 1) % 2 = 1
    <3>1. Len(ledger) % 2 = 0 BY <1>3, <2>4 DEF Unpaid
    <3> QED BY <3>1, <1>1
  <2>6. [action |-> "marked", on |-> d, amount |-> a] \in PaymentEvents BY <2>3 DEF PaymentEvents
  <2> QED BY <2>4, <2>5, <2>6, <1>4
<1>6. CASE RevertPaid
  <2>1. /\ payment # Unpaid /\ payment' = Unpaid
        /\ ledger' = Append(ledger, [action |-> "reverted", on |-> payment.on, amount |-> payment.amount])
    BY <1>6 DEF RevertPaid
  <2>2. Len(ledger) % 2 # 0 /\ payment.on = ledger[Len(ledger)].on
        /\ payment.amount = ledger[Len(ledger)].amount
    BY <1>3, <2>1
  <2>3. (Len(ledger) + 1) % 2 = 0 /\ Len(ledger) \in DOMAIN ledger BY <2>2, <1>1
  <2>4. ledger[Len(ledger)] \in PaymentEvents BY <2>3, <1>2
  <2> DEFINE ev == [action |-> "reverted", on |-> payment.on, amount |-> payment.amount]
  <2>5. ev \in PaymentEvents BY <2>2, <2>4 DEF PaymentEvents
  <2>6. ev.action = "reverted" /\ ev.on = payment.on /\ ev.amount = payment.amount OBVIOUS
  <2>7. ledger' = Append(ledger, ev) BY <2>1
  <2> HIDE DEF ev
  <2> QED BY <2>1, <2>2, <2>3, <2>5, <2>6, <2>7, <1>4
<1> QED BY <1>5, <1>6

\* Every operation preserves the invariant.
LEMMA CreditNextInv == CreditInv /\ [CreditNext]_creditVars => CreditInv'
<1> SUFFICES ASSUME CreditInv, [CreditNext]_creditVars PROVE CreditInv' OBVIOUS
<1>0. CreditsKept /\ RequestsOK /\ PaymentTold /\ Shapes BY DEF CreditInv, CreditsKept
<1>1. SUFFICES CreditsKept' /\ RequestsOK' /\ PaymentTold' BY DEF CreditInv, CreditsKept
<1>2. ASSUME ledger' = ledger, payment' = payment PROVE PaymentTold'
  BY <1>0, <1>2 DEF PaymentTold, Told, Unpaid
<1>3. ASSUME invoice' = invoice, draft' = draft, pending' = pending PROVE RequestsOK'
  BY <1>0, <1>3 DEF RequestsOK, RequestOK, Lines, NoDraft, NoRequest
<1>4. CASE CreateDraft
  <2>1. PICK q : q = InitialRequest OBVIOUS
  <2>2. pending' = [kind |-> "create", request |-> q]
        /\ invoice' = invoice /\ credits' = credits /\ draft' = draft
        /\ payment' = payment /\ ledger' = ledger
    BY <1>4, <2>1 DEF CreateDraft
  <2>3. RequestOK(q)' BY <1>0, <2>1, <2>2, InitialRequestOK, SameRequestOK
  <2>4. RequestsOK'
    BY <1>0, <2>2, <2>3 DEF RequestsOK, RequestOK, Lines, NoDraft
  <2> QED BY <1>0, <1>2, <2>2, <2>4, SameCredits
<1>5. CASE SaveDraft
  <2>1. /\ pending # NoRequest /\ pending' = NoRequest
        /\ draft' = IF draft = NoDraft THEN [kind |-> "draft", request |-> pending.request] ELSE draft
        /\ invoice' = invoice /\ credits' = credits /\ payment' = payment /\ ledger' = ledger
    BY <1>5 DEF SaveDraft
  <2>2. RequestsOK' BY <1>0, <2>1 DEF RequestsOK, RequestOK, Lines, NoDraft, NoRequest
  <2> QED BY <1>0, <1>2, <2>1, <2>2, SameCredits
<1>6. CASE DeleteDraft
  <2>1. /\ draft' = NoDraft /\ invoice' = invoice /\ credits' = credits
        /\ pending' = pending /\ payment' = payment /\ ledger' = ledger
    BY <1>6 DEF DeleteDraft
  <2>2. RequestsOK' BY <1>0, <2>1 DEF RequestsOK, RequestOK, Lines, NoDraft, NoRequest
  <2> QED BY <1>0, <1>2, <2>1, <2>2, SameCredits
<1>7. ASSUME NEW q \in invoice.offered, UpdateDraft(q) PROVE CreditsKept' /\ RequestsOK' /\ PaymentTold'
  <2>1. /\ draft' = [kind |-> "draft", request |-> q] /\ invoice' = invoice /\ credits' = credits
        /\ pending' = pending /\ payment' = payment /\ ledger' = ledger
    BY <1>7 DEF UpdateDraft
  <2>2. RequestOK(q) BY <1>0, CreditAssumption DEF RequestOK, Lines, Shapes
  <2>3. RequestsOK' BY <1>0, <2>1, <2>2 DEF RequestsOK, RequestOK, Lines, NoDraft, NoRequest
  <2> QED BY <1>0, <1>2, <2>1, <2>3, SameCredits
<1>8. CASE ApproveCreditDraft
  <2>1. PICK q : q = draft.request OBVIOUS
  <2>2. PICK P : P = Calculated(q) OBVIOUS
  <2>3. /\ Calculable(q) /\ Approving(P) /\ draft # NoDraft
        /\ draft' = NoDraft /\ invoice' = invoice
        /\ pending' = pending /\ payment' = payment /\ ledger' = ledger
    BY <1>8, <2>1, <2>2 DEF ApproveCreditDraft, Approving
  <2>4. RequestOK(q) BY <1>0, <2>1, <2>3 DEF RequestsOK
  <2>5. Shapes' BY <1>0, <2>2, <2>3, <2>4, ApproveKeepsShapes
  <2>6. \A l \in DOMAIN Lines : LineWithin(l)'
    BY <1>0, <2>2, <2>3, <2>4, ApproveKeepsLine DEF CreditsKept
  <2>7. \A r \in Rates : RateWithin(r)'
    BY <1>0, <2>2, <2>3, <2>4, ApproveKeepsRate DEF CreditsKept
  <2>8. CreditsKept'
    <3>1. Lines' = Lines /\ Rates' = Rates BY <2>3, SameInvoice
    <3> QED BY <3>1, <2>5, <2>6, <2>7 DEF CreditsKept
  <2>9. RequestsOK' BY <1>0, <2>3 DEF RequestsOK, RequestOK, Lines, NoDraft, NoRequest
  <2> QED BY <1>2, <2>3, <2>8, <2>9
<1>9. ASSUME NEW c \in DOMAIN credits, NEW to \in {"sent", "cancelled"}, SetCreditStatus(c, to)
      PROVE  CreditsKept' /\ RequestsOK' /\ PaymentTold'
  <2>1. /\ invoice' = invoice /\ draft' = draft /\ pending' = pending
        /\ payment' = payment /\ ledger' = ledger
    BY <1>9 DEF SetCreditStatus
  <2>2. Shapes' BY <1>0, <1>9, <2>1, StatusEffect
  <2>3. \A l \in DOMAIN Lines : LineWithin(l)'
    BY <1>0, <1>9, <2>1, StatusKeepsLine DEF CreditsKept
  <2>4. \A r \in Rates : RateWithin(r)' BY <1>0, <1>9, <2>1, StatusKeepsRate DEF CreditsKept
  <2>5. CreditsKept'
    <3>1. Lines' = Lines /\ Rates' = Rates BY <2>1, SameInvoice
    <3> QED BY <3>1, <2>2, <2>3, <2>4 DEF CreditsKept
  <2> QED BY <1>2, <1>3, <2>1, <2>5
<1>10. CASE (\E d \in PaymentDates : MarkPaid(d)) \/ RevertPaid
  <2>1. invoice' = invoice /\ credits' = credits /\ draft' = draft /\ pending' = pending
    BY <1>10 DEF MarkPaid, RevertPaid
  <2>2. PaymentTold' BY <1>0, <1>10, PaymentStep
  <2> QED BY <1>0, <1>3, <2>1, <2>2, SameCredits
<1>11. CASE UNCHANGED creditVars
  <2>1. invoice' = invoice /\ credits' = credits /\ draft' = draft /\ pending' = pending
        /\ payment' = payment /\ ledger' = ledger
    BY <1>11 DEF creditVars
  <2> QED BY <1>0, <1>2, <1>3, <2>1, SameCredits
<1> QED BY <1>4, <1>5, <1>6, <1>7, <1>8, <1>9, <1>10, <1>11
     DEF CreditNext, MarkCreditSent, CancelCredit

\* The invariant of credits and payments, for every invoice and every history.
THEOREM CreditInvariance == CreditSpec => []CreditInv
BY CreditInitInv, CreditNextInv, PTL DEF CreditSpec

\* The credits that are not cancelled never exceed the invoice, line by line
\* and rate by rate, for every invoice, every split of its quantities and every
\* order of approvals and cancellations (calculateCreditInvoice.ts asserts it
\* of what it reads).
THEOREM CreditsStayWithinInvoice == CreditSpec => []NeverOverCredited
<1>1. CreditInv => NeverOverCredited
  BY DEF CreditInv, NeverOverCredited, LineWithin, RateWithin
<1> QED BY <1>1, CreditInvariance, PTL

\* When every quantity is credited, the amounts of each rate are the invoice's
\* to the cent, however the credits were split and rounded.
THEOREM FullCreditIsExact == CreditSpec => []FullCreditMatches
<1>1. CreditInv => FullCreditMatches
  <2> SUFFICES ASSUME CreditInv,
                      \A l \in DOMAIN Lines : Creditable(l) => Quantity(OfLine(l)) = Lines[l].qty,
                      NEW r \in Rates
               PROVE  /\ InputSum(OfRate(r)) = Capacity(r)
                      /\ DerivedSum(OfRate(r)) = DerivedOf(r, Capacity(r))
    BY DEF FullCreditMatches
  <2>0. Shapes /\ RateWithin(r) BY DEF CreditInv
  <2>1. ASSUME NEW l \in DOMAIN Lines PROVE InputSum(OfLine(l)) = Input(l)
    <3>1. LineWithin(l) BY DEF CreditInv
    <3>2. Input(l) \in Nat BY <2>0, InvoiceFacts DEF Shapes
    <3>3. InputSum(OfLine(l)) \in Nat
      <4>1. OfLine(l) \subseteq Live BY DEF OfLine
      <4> QED BY <2>0, <4>1, TotalTypes
    <3>4. CASE Creditable(l) BY <3>1, <3>4 DEF LineWithin
    <3>5. CASE ~ Creditable(l)
      <4>1. Input(l) = 0 BY <3>2, <3>5 DEF Creditable
      <4> QED BY <4>1, <3>1, <3>2, <3>3 DEF LineWithin
    <3> QED BY <3>4, <3>5
  <2> DEFINE D == LinesAt(r)
  <2>2. \A l \in D : InputSum(OfLine(l)) = Input(l) BY <2>1 DEF LinesAt
  <2>3. Sum([l \in D |-> Input(l)], D) <= InputSum(OfRate(r)) BY <2>0, <2>2, InputCovered
  <2>4. Capacity(r) = Sum([l \in D |-> Input(l)], D) /\ Capacity(r) \in Nat
        /\ InputSum(OfRate(r)) \in Nat
    BY <2>0, RateTypes
  <2>5. InputSum(OfRate(r)) <= Capacity(r) BY <2>0 DEF RateWithin, Within
  <2>6. InputSum(OfRate(r)) = Capacity(r) BY <2>3, <2>4, <2>5
  <2> QED BY <2>0, <2>6 DEF RateWithin
<1> QED BY <1>1, CreditInvariance, PTL

\* The payment ledger tells the payment, and what is stored keeps its shape,
\* for every number of payment events (sqliteInvoicePaymentRepository.ts).
THEOREM PaymentIsTold == CreditSpec => []LedgerTellsPayment
<1>1. CreditInv => LedgerTellsPayment
  <2> SUFFICES ASSUME CreditInv PROVE LedgerTellsPayment OBVIOUS
  <2>0. Shapes /\ RequestsOK /\ PaymentTold BY DEF CreditInv
  <2>1. ASSUME NEW c \in DOMAIN credits
        PROVE  /\ Status(c) \in {"approved", "sent", "cancelled"}
               /\ DOMAIN credits[c].lines # {}
               /\ \A i \in DOMAIN credits[c].lines : credits[c].lines[i] \in Line
    BY <2>0, CreditFacts, LineFunctionFacts DEF Status
  <2>2. ASSUME NEW x \in Line
        PROVE  /\ x.line \in {0} \cup DOMAIN Lines /\ x.rate \in Rates /\ x.qty > 0
               /\ 0 <= x.input /\ x.input <= x.base /\ 0 <= x.derived
               /\ Mode = "gross" => x.derived <= x.input
    BY LineFacts DEF LineSound
  <2>3. \A q \in {draft, pending} : q.kind # "none" =>
          \A l \in DOMAIN Lines : q.request.lines[l] \in 0..Lines[l].qty
    BY <2>0 DEF RequestsOK, RequestOK, NoDraft, NoRequest
  <2>4. ledger \in Seq(PaymentEvents) /\ Told(ledger, payment) BY <2>0 DEF PaymentTold
  <2>5. payment = Unpaid \/ (payment.on \in PaymentDates /\ payment.amount > 0)
    <3>1. Len(ledger) \in Nat /\ DOMAIN ledger = 1..Len(ledger) BY <2>4
    <3>2. payment = IF Len(ledger) % 2 = 0 THEN Unpaid
                    ELSE [state |-> "paid", on |-> ledger[Len(ledger)].on,
                          amount |-> ledger[Len(ledger)].amount]
      BY <2>4 DEF Told
    <3>3. CASE Len(ledger) % 2 = 0 BY <3>2, <3>3
    <3>4. CASE Len(ledger) % 2 # 0
      <4>1. Len(ledger) \in DOMAIN ledger BY <3>1, <3>4
      <4>2. ledger[Len(ledger)] \in PaymentEvents BY <4>1, <2>4
      <4>3. payment.on = ledger[Len(ledger)].on /\ payment.amount = ledger[Len(ledger)].amount
        BY <3>2, <3>4
      <4> QED BY <4>2, <4>3 DEF PaymentEvents
    <3> QED BY <3>3, <3>4
  <2>6. CreditTypeOK BY <2>1, <2>2, <2>3, <2>5 DEF CreditTypeOK
  <2> QED BY <2>4, <2>6 DEF LedgerTellsPayment, Told
<1> QED BY <1>1, CreditInvariance, PTL

\* The open amount is never negative, and zero once every quantity is credited.
NothingOverpaid ==
  /\ CreditedGross <= GrossTotal
  /\ (\A l \in DOMAIN Lines : Creditable(l) => Quantity(OfLine(l)) = Lines[l].qty)
       => CreditedGross = GrossTotal

\* The amount left to pay, the gross total less what the credits take, is never
\* negative, and a fully credited invoice has nothing left to pay: what
\* MarkPaid and the creation of a draft test for every invoice and every
\* history of credits (sqliteInvoicePaymentRepository.ts).
THEOREM OpenAmountIsSound == CreditSpec => []NothingOverpaid
<1>1. CreditInv /\ FullCreditMatches => NothingOverpaid
  <2> SUFFICES ASSUME CreditInv, FullCreditMatches PROVE NothingOverpaid OBVIOUS
  <2>1. Shapes BY DEF CreditInv
  <2> DEFINE f == [r \in Rates |-> Gross(Capacity(r), DerivedOf(r, Capacity(r)))]
             h == [r \in Rates |-> Gross(InputSum(OfRate(r)), DerivedSum(OfRate(r)))]
  <2>2. /\ IsFiniteSet(Rates) /\ GrossTotal = Sum(f, Rates) /\ CreditedGross = Sum(h, Rates)
        /\ \A r \in Rates : f[r] \in Int /\ h[r] \in Int
    BY <2>1, GrossSums
  <2>3. ASSUME NEW r \in Rates PROVE h[r] <= f[r]
    <3>1. /\ Capacity(r) \in Nat /\ DerivedOf(r, Capacity(r)) \in Nat
          /\ InputSum(OfRate(r)) \in Nat /\ DerivedSum(OfRate(r)) \in Nat
      BY <2>1, RateTypes
    <3>2. RateWithin(r) BY DEF CreditInv
    <3>3. InputSum(OfRate(r)) <= Capacity(r) /\ DerivedSum(OfRate(r)) <= DerivedOf(r, Capacity(r))
      BY <3>2 DEF RateWithin, Within
    <3>4. /\ f[r] = Gross(Capacity(r), DerivedOf(r, Capacity(r)))
          /\ h[r] = Gross(InputSum(OfRate(r)), DerivedSum(OfRate(r)))
      OBVIOUS
    <3> HIDE DEF f, h
    <3> QED BY <3>1, <3>3, <3>4 DEF Gross
  <2>4. ASSUME \A l \in DOMAIN Lines : Creditable(l) => Quantity(OfLine(l)) = Lines[l].qty
        PROVE  \A r \in Rates : h[r] = f[r]
    BY <2>4 DEF FullCreditMatches
  <2> HIDE DEF f, h
  <2>5. Sum(h, Rates) <= Sum(f, Rates) BY <2>2, <2>3, SumOrder
  <2>6. (\A r \in Rates : h[r] = f[r]) => Sum(h, Rates) = Sum(f, Rates) BY <2>2, SumSame
  <2> QED BY <2>2, <2>4, <2>5, <2>6 DEF NothingOverpaid
<1> QED BY <1>1, CreditInvariance, FullCreditIsExact, PTL

-----------------------------------------------------------------------------
(* Powers and digits.                                                        *)

\* g holds the powers of the base up to the n-th.
PowerUpTo(g, n) == \A k \in 0..n : g[k] = IF k = 0 THEN 1 ELSE Base * g[k - 1]

\* There is one such function as far as both reach.
LEMMA PowerUnique ==
  ASSUME NEW n \in Nat, NEW m \in Nat, n <= m, NEW g, PowerUpTo(g, n), NEW h, PowerUpTo(h, m)
  PROVE  g[n] = h[n]
<1> DEFINE T == {k \in 0..n : g[k] # h[k]}
<1> SUFFICES ASSUME T # {} PROVE FALSE OBVIOUS
<1>1. T \subseteq Nat OBVIOUS
<1>2. PICK k \in T : \A y \in T : k <= y
  <2> HIDE DEF T
  <2> QED BY <1>1, LeastNumber
<1>3. k \in 0..n /\ k \in 0..m /\ g[k] # h[k] OBVIOUS
<1>4. /\ g[k] = IF k = 0 THEN 1 ELSE Base * g[k - 1]
      /\ h[k] = IF k = 0 THEN 1 ELSE Base * h[k - 1]
  BY <1>3 DEF PowerUpTo
<1>5. k # 0 BY <1>3, <1>4
<1>6. k - 1 \in 0..n /\ ~ (k <= k - 1) BY <1>3, <1>5
<1>7. g[k - 1] = h[k - 1] BY <1>2, <1>6
<1> QED BY <1>3, <1>4, <1>5, <1>7

\* There is one up to every exponent.
LEMMA PowerExists == \A n \in Nat : \E g : PowerUpTo(g, n)
<1> DEFINE T == {n \in Nat : \E g : PowerUpTo(g, n)}
<1>1. T \subseteq Nat OBVIOUS
<1>2. 0 \in T
  <2> DEFINE g == [k \in Nat |-> 1]
  <2>1. PowerUpTo(g, 0) BY DEF PowerUpTo
  <2> QED BY <2>1
<1>3. ASSUME NEW n \in T PROVE n + 1 \in T
  <2>1. PICK g : PowerUpTo(g, n) OBVIOUS
  <2> DEFINE h == [k \in Nat |-> IF k <= n THEN g[k] ELSE Base * g[n]]
  <2>2. ASSUME NEW k \in 0..(n + 1) PROVE h[k] = IF k = 0 THEN 1 ELSE Base * h[k - 1]
    <3>1. n \in Nat OBVIOUS
    <3>2. CASE k <= n
      <4>1. k \in 0..n BY <3>1, <3>2
      <4>2. g[k] = IF k = 0 THEN 1 ELSE Base * g[k - 1] BY <4>1, <2>1 DEF PowerUpTo
      <4>3. h[k] = g[k] BY <3>2, <4>1
      <4>4. k # 0 => h[k - 1] = g[k - 1] BY <3>1, <4>1
      <4> QED BY <4>2, <4>3, <4>4
    <3>3. CASE k = n + 1
      <4>1. h[k] = Base * g[n] /\ h[k - 1] = g[n] /\ k # 0 BY <3>1, <3>3
      <4> QED BY <4>1
    <3> QED BY <3>1, <3>2, <3>3
  <2>3. PowerUpTo(h, n + 1) BY <2>2 DEF PowerUpTo
  <2> HIDE DEF h
  <2> QED BY <2>3
<1>4. T = Nat
  <2> HIDE DEF T
  <2> QED BY <1>1, <1>2, <1>3, NumberInduction
<1> QED BY <1>4

\* The recursion of Power, which the two lemmas before justify.
LEMMA PowerIs ==
  /\ Power[0] = 1
  /\ \A k \in Nat : Power[k + 1] = Base * Power[k]
<1> DEFINE G(n) == CHOOSE g : PowerUpTo(g, n)
           F == [n \in Nat |-> G(n)[n]]
           Is(f) == f = [k \in Nat |-> IF k = 0 THEN 1 ELSE Base * f[k - 1]]
<1>1. \A n \in Nat : PowerUpTo(G(n), n) BY PowerExists
<1> HIDE DEF G
<1>2. ASSUME NEW k \in Nat PROVE F[k] = IF k = 0 THEN 1 ELSE Base * F[k - 1]
  <2>1. PowerUpTo(G(k), k) BY <1>1
  <2>2. G(k)[k] = IF k = 0 THEN 1 ELSE Base * G(k)[k - 1] BY <2>1 DEF PowerUpTo
  <2>3. ASSUME k # 0 PROVE G(k)[k - 1] = G(k - 1)[k - 1]
    <3>1. k - 1 \in Nat /\ k - 1 <= k BY <2>3
    <3>2. PowerUpTo(G(k - 1), k - 1) BY <3>1, <1>1
    <3> DEFINE j == k - 1
    <3> HIDE DEF j
    <3>3. j \in Nat /\ j <= k /\ PowerUpTo(G(j), j) BY <3>1, <3>2 DEF j
    <3>4. G(j)[j] = G(k)[j] BY <2>1, <3>3, PowerUnique
    <3> QED BY <3>4 DEF j
  <2>4. F[k] = G(k)[k] /\ (k # 0 => F[k - 1] = G(k - 1)[k - 1]) OBVIOUS
  <2> HIDE DEF F
  <2> QED BY <2>2, <2>3, <2>4
<1>3. Is(F)
  <2>1. F = [n \in Nat |-> F[n]] OBVIOUS
  <2> HIDE DEF F
  <2> QED BY <2>1, <1>2
<1>4. Power = CHOOSE f : Is(f) BY DEF Power
<1> HIDE DEF F
<1>5. Is(CHOOSE f : Is(f)) BY <1>3
<1>6. Is(Power) BY <1>4, <1>5
<1>7. \A k \in Nat : Power[k] = IF k = 0 THEN 1 ELSE Base * Power[k - 1] BY <1>6
<1> HIDE DEF Is
<1>8. \A k \in Nat : k + 1 \in Nat /\ k + 1 # 0 /\ (k + 1) - 1 = k OBVIOUS
<1> QED BY <1>7, <1>8, 0 \in Nat

\* A power is positive and exceeds its exponent.
LEMMA PowerPositive == \A k \in Nat : Power[k] \in Nat \ {0} /\ Power[k] > k
<1> DEFINE T == {k \in Nat : Power[k] \in Nat \ {0} /\ Power[k] > k}
<1>1. T \subseteq Nat OBVIOUS
<1>2. 0 \in T BY PowerIs
<1>3. ASSUME NEW k \in T PROVE k + 1 \in T
  <2>1. k \in Nat /\ Power[k + 1] = Base * Power[k] BY PowerIs
  <2> DEFINE p == Power[k]
  <2>2. p \in Nat \ {0} /\ p > k /\ Base \in Nat \ {0, 1} BY NumberingAssumption
  <2>3. Base * p \in Nat /\ Base * p >= 2 * p
    <3> HIDE DEF p
    <3> QED BY <2>2
  <2>4. Base * p > k + 1 /\ Base * p \in Nat \ {0}
    <3> HIDE DEF p
    <3> QED BY <2>1, <2>2, <2>3
  <2> QED BY <2>1, <2>4
<1>4. T = Nat
  <2> HIDE DEF T
  <2> QED BY <1>1, <1>2, <1>3, NumberInduction
<1> QED BY <1>4

\* Exponents add up.
LEMMA PowerGrows == \A a, b \in Nat : Power[a + b] = Power[a] * Power[b]
<1> SUFFICES ASSUME NEW a \in Nat PROVE \A b \in Nat : Power[a + b] = Power[a] * Power[b] OBVIOUS
<1> DEFINE T == {b \in Nat : Power[a + b] = Power[a] * Power[b]}
<1>1. T \subseteq Nat OBVIOUS
<1>2. 0 \in T
  <2>1. a + 0 = a /\ Power[0] = 1 /\ Power[a] \in Nat BY PowerIs, PowerPositive
  <2> QED BY <2>1
<1>3. ASSUME NEW b \in T PROVE b + 1 \in T
  <2>1. b \in Nat /\ Power[a + b] = Power[a] * Power[b] OBVIOUS
  <2>2. a + (b + 1) = (a + b) + 1 /\ a + b \in Nat BY <2>1
  <2>3. Power[a + (b + 1)] = Base * Power[a + b] /\ Power[b + 1] = Base * Power[b]
    BY <2>1, <2>2, PowerIs
  <2>4. Power[a] \in Nat /\ Power[b] \in Nat /\ Base \in Nat BY <2>1, PowerPositive, NumberingAssumption
  <2> DEFINE p == Power[a] q == Power[b]
  <2>5. Base * (p * q) = p * (Base * q)
    <3>1. p \in Nat /\ q \in Nat BY <2>4
    <3> HIDE DEF p, q
    <3> QED BY <3>1, <2>4
  <2> QED BY <2>1, <2>3, <2>5
<1>4. T = Nat
  <2> HIDE DEF T
  <2> QED BY <1>1, <1>2, <1>3, NumberInduction
<1> QED BY <1>4

\* Every number has a number of digits, and it fits into them.
LEMMA DigitsFacts ==
  ASSUME NEW n \in Nat
  PROVE  Digits(n) \in Nat \ {0} /\ n < Power[Digits(n)]
<1> DEFINE T == {k \in Nat \ {0} : Power[k] > n}
<1>1. T \subseteq Nat OBVIOUS
<1>2. n + 1 \in T BY PowerPositive
<1>3. PICK k \in T : \A y \in T : k <= y
  <2> HIDE DEF T
  <2> QED BY <1>1, <1>2, LeastNumber
<1>4. k \in Nat \ {0} /\ Power[k] > n /\ k <= n + 1 BY <1>2, <1>3
<1>5. k = 1 \/ Power[k - 1] <= n
  <2> SUFFICES ASSUME k # 1 PROVE Power[k - 1] <= n OBVIOUS
  <2>1. k - 1 \in Nat \ {0} /\ ~ (k <= k - 1) BY <1>4
  <2>2. k - 1 \notin T BY <1>3, <2>1
  <2>3. ~ (Power[k - 1] > n) /\ Power[k - 1] \in Nat BY <2>1, <2>2, PowerPositive
  <2> QED BY <2>3
<1>6. \E j \in 1..(n + 1) : Power[j] > n /\ (j = 1 \/ Power[j - 1] <= n) BY <1>4, <1>5
<1>7. Digits(n) \in 1..(n + 1) /\ Power[Digits(n)] > n BY <1>6 DEF Digits
<1>8. Digits(n) \in Nat \ {0} BY <1>7
<1>9. Power[Digits(n)] \in Nat BY <1>8, PowerPositive
<1> QED BY <1>7, <1>8, <1>9

\* Every supported year and month.
AllDates == [year : 1..MaxYear, month : 1..Months]

\* Powers grow with the exponent.
LEMMA PowerOrder == \A a, b \in Nat : a <= b => Power[a] <= Power[b]
<1> SUFFICES ASSUME NEW a \in Nat, NEW b \in Nat, a <= b PROVE Power[a] <= Power[b] OBVIOUS
<1> DEFINE c == b - a
<1>1. c \in Nat /\ a + c = b OBVIOUS
<1> HIDE DEF c
<1>2. Power[a + c] = Power[a] * Power[c] BY <1>1, PowerGrows
<1> DEFINE p == Power[a] q == Power[c]
<1>3. p \in Nat /\ q \in Nat \ {0} BY <1>1, PowerPositive
<1>4. Power[b] = p * q BY <1>1, <1>2
<1>5. p <= p * q
  <2> HIDE DEF p, q
  <2> QED BY <1>3
<1> QED BY <1>4, <1>5

\* A sequence number formatted with padding keeps its value and fits its
\* length.
LEMMA FormatSequenceFacts ==
  ASSUME NEW n \in Nat, NEW p \in Nat
  PROVE  \E L \in Nat \ {0} : FormatSequence(n, p) = <<L, n>> /\ n < Power[L]
<1> DEFINE a == Digits(n) L == Max({a, p})
<1>1. a \in Nat \ {0} /\ n < Power[a] BY DigitsFacts
<1> HIDE DEF a
<1>2. \E x \in {a, p} : \A y \in {a, p} : x >= y BY <1>1
<1>3. L \in {a, p} /\ \A y \in {a, p} : L >= y BY <1>2 DEF Max
<1>4. L \in Nat \ {0} /\ a <= L BY <1>1, <1>3
<1>5. FormatSequence(n, p) = <<L, n>> BY DEF FormatSequence, a
<1> HIDE DEF L
<1>6. Power[a] <= Power[L] /\ Power[a] \in Nat /\ Power[L] \in Nat BY <1>1, <1>4, PowerOrder, PowerPositive
<1>7. n < Power[L] BY <1>1, <1>6
<1> QED BY <1>4, <1>5, <1>7

\* A year and a sequence number written side by side can be told apart again.
LEMMA Splits ==
  ASSUME NEW y \in Nat, NEW n \in Nat, NEW P \in Nat \ {0}, n < P
  PROVE  y * P + n \in Nat /\ (y * P + n) \div P = y /\ (y * P + n) % P = n
<1>1. y * P \in Nat OBVIOUS
<1>2. y * P + n \in Nat BY <1>1
<1> DEFINE v == y * P + n
<1>3. v \in Nat /\ P * y <= v /\ v < P * y + P BY <1>1
<1>4. v = P * y + n BY <1>1
<1> HIDE DEF v
<1>5. v \div P = y BY <1>3
<1>6. v % P = v - P * (v \div P) BY <1>3
<1>7. P * y \in Int OBVIOUS
<1>8. v % P = n BY <1>4, <1>5, <1>6, <1>7
<1> QED BY <1>2, <1>5, <1>8 DEF v

\* The year of a date has YearDigits digits and is at least the minimum prefix
\* of its series: a fiscal year of the first calendar year may be year zero.
LEMMA YearFacts ==
  ASSUME NEW s \in Settings, s.mode # "plainSequence", NEW d \in AllDates
  PROVE  Year(s, d) \in Nat /\ Year(s, d) < Power[YearDigits] /\ Year(s, d) >= MinimumPrefix(s)
<1>1. YearDigits \in Nat BY NumberingAssumption
<1>2. Power[YearDigits] \in Nat BY <1>1, PowerPositive
<1>3. d.year \in 1..MaxYear /\ d.month \in 1..Months BY DEF AllDates
<1>4. s.startMonth \in 1..Months /\ s.mode \in Modes BY DEF Settings
<1>5. d.year \in Nat \ {0} /\ d.year < Power[YearDigits] BY <1>2, <1>3 DEF MaxYear
<1>6. Months \in Nat BY NumberingAssumption
<1>7. CASE s.mode = "calendarYearSequence"
  <2>1. Year(s, d) = d.year /\ MinimumPrefix(s) = 1 BY <1>7 DEF Year, MinimumPrefix
  <2> QED BY <2>1, <1>5, <1>2
<1>8. CASE s.mode # "calendarYearSequence"
  <2>1. Year(s, d) = IF d.month >= s.startMonth THEN d.year ELSE d.year - 1
    BY <1>8 DEF Year, FiscalYear
  <2>2. CASE d.month >= s.startMonth
    <3>1. MinimumPrefix(s) \in {0, 1} BY DEF MinimumPrefix
    <3> QED BY <2>1, <2>2, <3>1, <1>5, <1>2
  <2>3. CASE ~ (d.month >= s.startMonth)
    <3>1. s.startMonth > 1 BY <2>3, <1>3, <1>4, <1>6
    <3>2. Year(s, d) = d.year - 1 /\ Year(s, d) \in Nat BY <2>1, <2>3, <1>5
    <3>3. CASE s.mode = "fiscalYearSequence"
      <4>1. MinimumPrefix(s) = 0 BY <3>1, <3>3 DEF MinimumPrefix
      <4> QED BY <4>1, <3>2, <1>5, <1>2
    <3> QED BY <3>3, <1>4, <1>8 DEF Modes
  <2> QED BY <2>2, <2>3
<1> QED BY <1>7, <1>8

-----------------------------------------------------------------------------
(* The least first number is exact.                                          *)

\* The ranges of a series' settings.
LEMMA CapacityFacts ==
  ASSUME NEW s \in Settings
  PROVE  /\ MaximumSequence(s) \in Nat \ {0} /\ s.padding \in Nat /\ s.first \in Nat \ {0}
         /\ s.mode \in Modes /\ s.startMonth \in 1..Months
<1>1. /\ YearDigits \in Nat /\ MaxLength \in Nat /\ MaxLength - YearDigits \in Nat \ {0}
      /\ MaxSafe \in Nat /\ MaxSafe >= Power[MaxLength - YearDigits] /\ MaxPadding \in Nat
  BY NumberingAssumption
<1> DEFINE k == MaxLength - YearDigits
<1>2. k \in Nat \ {0} /\ MaxSafe >= Power[k] BY <1>1
<1> HIDE DEF k
<1>3. Power[k] \in Nat /\ Power[k] > k BY <1>2, PowerPositive
<1>4. Power[k] - 1 \in Nat \ {0} /\ MaxSafe \in Nat \ {0} BY <1>1, <1>2, <1>3
<1>5. MaximumSequence(s) \in Nat \ {0} BY <1>4 DEF MaximumSequence, k
<1>6. s.padding \in 0..MaxPadding /\ s.first \in 1..MaxSafe /\ s.mode \in Modes /\ s.startMonth \in 1..Months
  BY DEF Settings
<1> QED BY <1>1, <1>5, <1>6

\* A number of a series with years is the year followed by the sequence number.
LEMMA YearNumber ==
  ASSUME NEW s \in Settings, s.mode # "plainSequence", NEW d \in AllDates, NEW n \in Nat
  PROVE  \E L \in Nat \ {0} : /\ FormatSequence(n, s.padding) = <<L, n>> /\ n < Power[L]
                              /\ FormatNumber(s, d, n) = <<YearDigits + L, Year(s, d) * Power[L] + n>>
<1>1. s.padding \in Nat BY CapacityFacts
<1>2. PICK L \in Nat \ {0} : FormatSequence(n, s.padding) = <<L, n>> /\ n < Power[L]
  BY <1>1, FormatSequenceFacts
<1>3. FormatNumber(s, d, n) = <<YearDigits + L, Year(s, d) * Power[L] + n>>
  BY <1>2 DEF FormatNumber, Concat
<1> QED BY <1>2, <1>3

\* A string of digits: its value fits its length.
WellFormed(number) == number \in Nat \X Nat /\ number[2] < Power[number[1]]

\* Every formatted number is a string of digits.
LEMMA FormatWellFormed ==
  ASSUME NEW s \in Settings, NEW d \in AllDates, NEW n \in Nat
  PROVE  WellFormed(FormatNumber(s, d, n))
<1>1. CASE s.mode = "plainSequence"
  <2>1. s.padding \in Nat BY CapacityFacts
  <2>2. PICK L \in Nat \ {0} : FormatSequence(n, s.padding) = <<L, n>> /\ n < Power[L]
    BY <2>1, FormatSequenceFacts
  <2>3. FormatNumber(s, d, n) = <<L, n>> BY <1>1, <2>2 DEF FormatNumber
  <2> QED BY <2>2, <2>3 DEF WellFormed
<1>2. CASE s.mode # "plainSequence"
  <2>1. PICK L \in Nat \ {0} : /\ n < Power[L]
                               /\ FormatNumber(s, d, n) = <<YearDigits + L, Year(s, d) * Power[L] + n>>
    BY <1>2, YearNumber
  <2>2. YearDigits \in Nat BY NumberingAssumption
  <2> DEFINE y == Year(s, d) P == Power[L] Q == Power[YearDigits]
  <2>3. y \in Nat /\ y < Q BY <1>2, YearFacts
  <2>4. P \in Nat \ {0} /\ Q \in Nat BY <2>1, <2>2, PowerPositive
  <2>5. Power[YearDigits + L] = Q * P BY <2>2, PowerGrows
  <2>6. n < P BY <2>1
  <2>7. y * P + n \in Nat /\ y * P + n < Q * P
    <3> HIDE DEF y, P, Q
    <3>1. (y + 1) * P <= Q * P /\ (y + 1) * P = y * P + P /\ y * P \in Nat /\ Q * P \in Nat
      BY <2>3, <2>4
    <3> QED BY <3>1, <2>4, <2>6
  <2>8. YearDigits + L \in Nat BY <2>2
  <2>9. FormatNumber(s, d, n) = <<YearDigits + L, y * P + n>> BY <2>1
  <2> HIDE DEF y, P, Q
  <2> QED BY <2>5, <2>7, <2>8, <2>9 DEF WellFormed
<1> QED BY <1>1, <1>2

\* A number the new series would format as an existing one is found by the
\* search for collisions.
LEMMA MetCollides ==
  ASSUME NEW s \in Settings, NEW d \in AllDates, NEW n \in 1..MaximumSequence(s)
  PROVE  n \in Collisions(FormatNumber(s, d, n), s)
<1>1. n \in Nat /\ s.padding \in Nat BY CapacityFacts
<1>2. CASE s.mode = "plainSequence"
  <2>2. PICK L \in Nat \ {0} : FormatSequence(n, s.padding) = <<L, n>>
    BY <1>1, FormatSequenceFacts
  <2>3. FormatNumber(s, d, n) = <<L, n>> BY <1>2, <2>2 DEF FormatNumber
  <2> QED BY <1>2, <2>2, <2>3 DEF Collisions, Produced
<1>3. CASE s.mode # "plainSequence"
  <2>1. PICK L \in Nat \ {0} : /\ FormatSequence(n, s.padding) = <<L, n>> /\ n < Power[L]
                               /\ FormatNumber(s, d, n) = <<YearDigits + L, Year(s, d) * Power[L] + n>>
    BY <1>1, <1>3, YearNumber
  <2>2. YearDigits \in Nat BY NumberingAssumption
  <2> DEFINE y == Year(s, d) P == Power[L] N == FormatNumber(s, d, n)
  <2>3. y \in Nat /\ y >= MinimumPrefix(s) BY <1>3, YearFacts
  <2>4. P \in Nat \ {0} /\ n < P BY <2>1, PowerPositive
  <2>5. N[1] = YearDigits + L /\ N[2] = y * P + n BY <2>1
  <2>6. N[1] - YearDigits = L /\ N[1] > YearDigits BY <2>2, <2>5
  <2> HIDE DEF y, P, N
  <2>7. N[2] \div P = y /\ N[2] % P = n
    <3>1. n \in Nat /\ y \in Nat /\ P \in Nat \ {0} /\ n < P BY <1>1, <2>3, <2>4
    <3>2. (y * P + n) \div P = y /\ (y * P + n) % P = n BY <3>1, Splits
    <3> QED BY <3>2, <2>5
  <2>8. Prefix(N) = y /\ Rest(N) = <<L, n>> BY <2>6, <2>7 DEF Prefix, Rest, P
  <2>9. Produced(Rest(N), s) = {n} BY <2>1, <2>8 DEF Produced
  <2>10. n \in Collisions(N, s) BY <1>3, <2>3, <2>6, <2>8, <2>9 DEF Collisions
  <2> QED BY <2>10 DEF N
<1> QED BY <1>2, <1>3

\* Every year from the minimum prefix on is the year of some date.
LEMMA SomeDate ==
  ASSUME NEW s \in Settings, s.mode # "plainSequence", NEW y \in Nat,
         y < Power[YearDigits], y >= MinimumPrefix(s)
  PROVE  \E d \in AllDates : Year(s, d) = y
<1>1. s.mode \in Modes /\ s.startMonth \in 1..Months /\ Months \in Nat \ {0}
  BY CapacityFacts, NumberingAssumption
<1>2. YearDigits \in Nat \ {0} BY NumberingAssumption
<1>3. Power[YearDigits] \in Nat /\ Power[YearDigits] > YearDigits BY <1>2, PowerPositive
<1>4. MaxYear \in Nat \ {0} /\ y <= MaxYear BY <1>2, <1>3 DEF MaxYear
<1>5. CASE y # 0
  <2> DEFINE d == [year |-> y, month |-> s.startMonth]
  <2>1. d \in AllDates BY <1>1, <1>4, <1>5 DEF AllDates
  <2>2. Year(s, d) = y BY <1>1 DEF Year, FiscalYear
  <2> QED BY <2>1, <2>2
<1>6. CASE y = 0
  <2>1. s.mode = "fiscalYearSequence" /\ s.startMonth > 1 BY <1>6 DEF MinimumPrefix
  <2> DEFINE d == [year |-> 1, month |-> 1]
  <2>2. d \in AllDates BY <1>1, <1>4 DEF AllDates
  <2>3. Year(s, d) = 0 BY <2>1, <1>1 DEF Year, FiscalYear
  <2> QED BY <2>2, <2>3, <1>6
<1> QED BY <1>5, <1>6

\* What the search for collisions finds is a number the new series would really
\* format as the existing one, at some date.
LEMMA CollidesMet ==
  ASSUME NEW s \in Settings, NEW N, WellFormed(N), NEW n \in Collisions(N, s)
  PROVE  n \in 1..MaximumSequence(s) /\ \E d \in AllDates : FormatNumber(s, d, n) = N
<1>0. N \in Nat \X Nat /\ N[1] \in Nat /\ N[2] \in Nat /\ N = <<N[1], N[2]>> /\ N[2] < Power[N[1]]
  BY DEF WellFormed
<1>1. CASE s.mode = "plainSequence"
  <2>1. n \in Produced(N, s) BY <1>1 DEF Collisions
  <2>2. n = N[2] /\ n \in 1..MaximumSequence(s) /\ FormatSequence(n, s.padding) = N
    BY <2>1 DEF Produced
  <2>3. \A d \in AllDates : FormatNumber(s, d, n) = N BY <1>1, <2>2 DEF FormatNumber
  <2>4. AllDates # {}
    <3>1. YearDigits \in Nat \ {0} /\ Months \in Nat \ {0} BY NumberingAssumption
    <3>2. Power[YearDigits] \in Nat /\ Power[YearDigits] > YearDigits BY <3>1, PowerPositive
    <3>3. [year |-> 1, month |-> 1] \in AllDates BY <3>1, <3>2 DEF AllDates, MaxYear
    <3> QED BY <3>3
  <2> QED BY <2>2, <2>3, <2>4
<1>2. CASE s.mode # "plainSequence"
  <2>1. N[1] > YearDigits /\ Prefix(N) >= MinimumPrefix(s) /\ n \in Produced(Rest(N), s)
    BY <1>2 DEF Collisions
  <2>2. YearDigits \in Nat BY NumberingAssumption
  <2> DEFINE L == N[1] - YearDigits P == Power[L] Q == Power[YearDigits] y == Prefix(N)
  <2>3. L \in Nat \ {0} /\ N[1] = YearDigits + L BY <1>0, <2>1, <2>2
  <2>4. Rest(N) = <<L, N[2] % P>> /\ y = N[2] \div P BY DEF Rest, Prefix
  <2>5. n = N[2] % P /\ n \in 1..MaximumSequence(s) /\ FormatSequence(n, s.padding) = <<L, n>>
    BY <2>1, <2>4 DEF Produced
  <2>6. Power[N[1]] = Q * P
    <3> HIDE DEF L
    <3> QED BY <2>2, <2>3, PowerGrows
  <2>7. P \in Nat \ {0} /\ Q \in Nat
    <3> HIDE DEF L
    <3> QED BY <2>2, <2>3, PowerPositive
  <2>8. y \in Nat /\ y * P + n = N[2] /\ y < Q
    <3> DEFINE v == N[2]
    <3>1. v \in Nat /\ v < Q * P /\ y = v \div P /\ n = v % P BY <1>0, <2>4, <2>5, <2>6
    <3> HIDE DEF v, P, Q, y
    <3>2. y \in Int /\ P * y <= v /\ v < P * y + P BY <2>7, <3>1
    <3>3. v % P = v - P * (v \div P) BY <2>7, <3>1
    <3>4. y \in Nat BY <2>7, <3>1, <3>2
    <3>5. P * y \in Int /\ y * P = P * y BY <2>7, <3>2
    <3>6. y * P + n = v BY <3>1, <3>3, <3>5
    <3>7. P * y < P * Q BY <2>7, <3>1, <3>2, <3>5
    <3>8. y < Q BY <2>7, <3>2, <3>7
    <3> QED BY <3>4, <3>6, <3>8 DEF v
  <2>9. PICK d \in AllDates : Year(s, d) = y
    <3> HIDE DEF y
    <3> QED BY <1>2, <2>1, <2>8, SomeDate DEF y
  <2>10. FormatNumber(s, d, n) = <<YearDigits + L, y * P + n>>
    BY <1>2, <2>5, <2>9 DEF FormatNumber, Concat
  <2>11. FormatNumber(s, d, n) = N
    <3> HIDE DEF L, P, y
    <3> QED BY <1>0, <2>3, <2>8, <2>10
  <2> QED BY <2>5, <2>11
<1> QED BY <1>1, <1>2

\* A bounded set of numbers has a greatest element.
LEMMA GreatestNumber ==
  ASSUME NEW S, S \subseteq Nat, S # {}, NEW m \in Nat, \A y \in S : y <= m
  PROVE  \E x \in S : \A y \in S : x >= y
<1> DEFINE B == {b \in Nat : \A y \in S : y <= b}
<1>1. B \subseteq Nat /\ B # {} OBVIOUS
<1>2. PICK b \in B : \A y \in B : b <= y
  <2> HIDE DEF B
  <2> QED BY <1>1, LeastNumber
<1>3. b \in Nat /\ \A y \in S : y <= b OBVIOUS
<1>4. b \in S
  <2> SUFFICES ASSUME b \notin S PROVE FALSE OBVIOUS
  <2>1. \A y \in S : y \in Nat /\ y < b BY <1>3
  <2>4. PICK y \in S : TRUE OBVIOUS
  <2>5. y \in Nat /\ y < b BY <2>1
  <2>6. b - 1 \in Nat BY <1>3, <2>5
  <2>2. b - 1 \in Nat /\ \A z \in S : z <= b - 1
    <3>1. \A z \in Nat : z < b => z <= b - 1 BY <1>3
    <3> QED BY <3>1, <2>1, <2>6
  <2>3. b - 1 \in B /\ ~ (b <= b - 1) BY <1>3, <2>2
  <2> QED BY <2>3, <1>2
<1> QED BY <1>3, <1>4

\* The sequence numbers a series with settings s would format as an existing
\* number.
Met(existing, s) == {n \in 1..MaximumSequence(s) : \E d \in AllDates : FormatNumber(s, d, n) \in existing}

\* The largest collision is the largest number met, and the answer is the
\* number after it.
LEMMA MinimumSafeFacts ==
  ASSUME NEW s \in Settings, NEW E, \A N \in E : WellFormed(N)
  PROVE  \E largest \in 0..MaximumSequence(s) :
            /\ largest = 0 \/ largest \in Met(E, s)
            /\ \A n \in Met(E, s) : n <= largest
            /\ MinimumSafe(E, s) = IF largest >= MaximumSequence(s) THEN 0 ELSE largest + 1
<1> DEFINE M == MaximumSequence(s) C == UNION {Collisions(N, s) : N \in E} S == {0} \cup C
           largest == Max(S)
<1>1. M \in Nat BY CapacityFacts
<1>2. C = Met(E, s)
  <2>1. ASSUME NEW n \in C PROVE n \in Met(E, s)
    <3>1. PICK N \in E : n \in Collisions(N, s) BY <2>1
    <3>2. n \in 1..M /\ \E d \in AllDates : FormatNumber(s, d, n) = N BY <3>1, CollidesMet
    <3> QED BY <3>1, <3>2 DEF Met
  <2>2. ASSUME NEW n \in Met(E, s) PROVE n \in C
    <3>1. n \in 1..M BY <2>2 DEF Met
    <3>2. PICK d \in AllDates : FormatNumber(s, d, n) \in E BY <2>2 DEF Met
    <3>3. n \in Collisions(FormatNumber(s, d, n), s) BY <3>1, MetCollides
    <3> QED BY <3>2, <3>3
  <2> QED BY <2>1, <2>2
<1>3. Met(E, s) \subseteq 1..M BY DEF Met
<1>4. S \subseteq Nat /\ S # {} /\ \A y \in S : y <= M BY <1>1, <1>2, <1>3
<1>5. MinimumSafe(E, s) = IF largest >= M THEN 0 ELSE largest + 1 BY DEF MinimumSafe
<1>6. S = {0} \cup Met(E, s) BY <1>2
<1> HIDE DEF C, S
<1>7. \E x \in S : \A y \in S : x >= y BY <1>1, <1>4, GreatestNumber
<1>8. largest \in S /\ \A y \in S : largest >= y BY <1>7 DEF Max
<1> HIDE DEF largest, M
<1>9. largest \in 0..M BY <1>1, <1>4, <1>8
<1>10. \A n \in Met(E, s) : n <= largest BY <1>3, <1>6, <1>8, <1>9
<1>11. largest = 0 \/ largest \in Met(E, s) BY <1>6, <1>8
<1> QED BY <1>5, <1>9, <1>10, <1>11 DEF M

\* calculateMinimumSafeInvoiceSequenceNumber answers the least first number
\* that meets no existing one, or that there is none.
LEMMA MinimumSafeExact ==
  ASSUME NEW s \in Settings, NEW E, \A N \in E : WellFormed(N),
         NEW firsts, firsts = {n \in 1..MaximumSequence(s) : \A m \in Met(E, s) : m < n}
  PROVE  MinimumSafe(E, s) = IF firsts = {} THEN 0 ELSE Min(firsts)
<1> DEFINE M == MaximumSequence(s)
<1>1. M \in Nat \ {0} BY CapacityFacts
<1>2. PICK largest \in 0..M :
            /\ largest = 0 \/ largest \in Met(E, s)
            /\ \A n \in Met(E, s) : n <= largest
            /\ MinimumSafe(E, s) = IF largest >= M THEN 0 ELSE largest + 1
  BY MinimumSafeFacts
<1>3. Met(E, s) \subseteq 1..M BY DEF Met
<1>4. firsts = {n \in 1..M : \A m \in Met(E, s) : m < n} OBVIOUS
<1> HIDE DEF M
<1>5. CASE largest >= M
  <2>1. largest = M /\ M \in Met(E, s) BY <1>1, <1>2, <1>5
  <2>2. firsts = {} BY <1>1, <1>4, <2>1
  <2> QED BY <1>2, <1>5, <2>2
<1>6. CASE ~ (largest >= M)
  <2> DEFINE f == largest + 1
  <2>1. f \in 1..M BY <1>1, <1>2, <1>6
  <2>2. f \in firsts
    <3>1. \A m \in Met(E, s) : m < f BY <1>1, <1>2, <1>3
    <3> QED BY <1>4, <2>1, <3>1
  <2>3. ASSUME NEW n \in firsts PROVE f <= n
    <3>1. n \in 1..M /\ \A m \in Met(E, s) : m < n BY <1>4, <2>3
    <3> QED BY <3>1, <1>1, <1>2
  <2>4. MinimumSafe(E, s) = f BY <1>2, <1>6
  <2> HIDE DEF f
  <2>5. \A x \in firsts : x \in Nat BY <1>1, <1>4
  <2>6. ASSUME NEW x \in firsts, \A y \in firsts : x =< y PROVE x = f
    BY <2>1, <2>2, <2>3, <2>5, <2>6
  <2>7. f \in firsts /\ \A y \in firsts : f =< y BY <2>2, <2>3
  <2>8. Min(firsts) \in firsts /\ \A y \in firsts : Min(firsts) =< y
    BY <2>7 DEF Min
  <2>9. Min(firsts) = f BY <2>6, <2>8
  <2> QED BY <2>2, <2>4, <2>9
<1> QED BY <1>5, <1>6

-----------------------------------------------------------------------------
(* The invariant of numbering.                                               *)

\* The scopes of sequence numbers.
Scopes == {<<"plain">>} \cup (Modes \X Int)

\* An invoice, as numbered.
Entries == [kind : {"standard", "credit"}, series : Nat, scope : Scopes, sequence : Nat,
            number : Nat \X Nat, status : {"approved", "sent", "cancelled", "reopened_for_edit"}]

\* The part of the invariant about series: as many as revisions, each activated
\* from the one before it.
SeriesInv ==
  /\ settings \in Seq(Offered) /\ Len(settings) <= MaxSeries
  /\ active = IF settings = <<>> THEN NoSeries
              ELSE [key |-> Len(settings), revision |-> Len(settings)]
  /\ events \in Seq([previous : Nat, next : Nat])
  /\ Len(events) = IF settings = <<>> THEN 0 ELSE Len(settings) - 1
  /\ \A e \in DOMAIN events : events[e] = [previous |-> e, next |-> e + 1]
  /\ request \in [Clients -> Requests]

\* The series and scope of an invoice.
SlotOf(i) == <<invoices[i].series, invoices[i].scope>>

\* The invoices of a series and scope.
OfSlot(x) == {i \in DOMAIN invoices : SlotOf(i) = x}

\* Their sequence numbers.
Taken(x) == {invoices[i].sequence : i \in OfSlot(x)}

\* The numbers of a series and scope run from the first number to the last one
\* without a gap, each on one invoice.
Run(x) ==
  /\ x[1] \in DOMAIN settings /\ sequences[x] \in 1..MaxSafe
  /\ settings[x[1]].first <= sequences[x]
  /\ Taken(x) = settings[x[1]].first..sequences[x]
  /\ Cardinality(OfSlot(x)) = sequences[x] - settings[x[1]].first + 1

\* An invoice's number is the format of its sequence number in the settings its
\* series still has, at a date of its scope.
Numbered(i) ==
  \E d \in Dates : /\ invoices[i].scope = Scope(settings[invoices[i].series], d)
                   /\ invoices[i].number =
                        FormatNumber(settings[invoices[i].series], d, invoices[i].sequence)

\* No number the active series can still format is this invoice's.
Apart(i) ==
  \A d \in Dates : \A n \in Current.first..MaximumSequence(Current) :
     FormatNumber(Current, d, n) # invoices[i].number

\* Every invoice has its sequence row.
Booked == \A i \in DOMAIN invoices : SlotOf(i) \in DOMAIN sequences

\* Every sequence row is a run.
Runs == \A x \in DOMAIN sequences : Run(x)

\* Every invoice carries the number of its series.
AllNumbered == \A i \in DOMAIN invoices : Numbered(i)

\* The active series never meets the invoices of the series before it.
AllApart == \A i \in DOMAIN invoices : invoices[i].series # active.key => Apart(i)

\* The part of the invariant about invoices.  NextNumberIsFree is not
\* inductive: that a number is free now says nothing of the next one.
BookInv == invoices \in Seq(Entries) /\ Booked /\ Runs /\ AllNumbered /\ AllApart

\* The dates and settings the model offers are supported ones.
LEMMA DatesFacts == Dates \subseteq AllDates /\ Offered \subseteq Settings
BY NumberingAssumption DEF AllDates

\* Equal pairs have equal parts.
LEMMA PairParts ==
  ASSUME NEW a, NEW b, NEW c, NEW d, <<a, b>> = <<c, d>>
  PROVE  a = c /\ b = d
OBVIOUS

\* Within a series two dates and sequence numbers have the same number only if
\* they share the sequence number and the scope.
LEMMA FormatInjective ==
  ASSUME NEW s \in Settings, NEW d \in AllDates, NEW e \in AllDates, NEW n \in Nat, NEW m \in Nat,
         FormatNumber(s, d, n) = FormatNumber(s, e, m)
  PROVE  n = m /\ Scope(s, d) = Scope(s, e)
<1>1. CASE s.mode = "plainSequence"
  <2>1. s.padding \in Nat BY CapacityFacts
  <2>2. PICK L \in Nat \ {0} : FormatSequence(n, s.padding) = <<L, n>> BY <2>1, FormatSequenceFacts
  <2>3. PICK K \in Nat \ {0} : FormatSequence(m, s.padding) = <<K, m>> BY <2>1, FormatSequenceFacts
  <2>4. FormatNumber(s, d, n) = <<L, n>> /\ FormatNumber(s, e, m) = <<K, m>>
    BY <1>1, <2>2, <2>3 DEF FormatNumber
  <2>5. <<L, n>> = <<K, m>> BY <2>4
  <2>6. n = m BY <2>5, PairParts
  <2> QED BY <1>1, <2>6 DEF Scope
<1>2. CASE s.mode # "plainSequence"
  <2>1. PICK L \in Nat \ {0} : /\ n < Power[L]
                               /\ FormatNumber(s, d, n) = <<YearDigits + L, Year(s, d) * Power[L] + n>>
    BY <1>2, YearNumber
  <2>2. PICK K \in Nat \ {0} : /\ m < Power[K]
                               /\ FormatNumber(s, e, m) = <<YearDigits + K, Year(s, e) * Power[K] + m>>
    BY <1>2, YearNumber
  <2>3. YearDigits \in Nat BY NumberingAssumption
  <2>4. YearDigits + L = YearDigits + K /\ Year(s, d) * Power[L] + n = Year(s, e) * Power[K] + m
    <3> DEFINE a == YearDigits + L b == Year(s, d) * Power[L] + n
               c == YearDigits + K f == Year(s, e) * Power[K] + m
    <3>1. <<a, b>> = <<c, f>> BY <2>1, <2>2
    <3> HIDE DEF a, b, c, f
    <3>2. a = c /\ b = f BY <3>1, PairParts
    <3> QED BY <3>2 DEF a, b, c, f
  <2>5. L = K BY <2>3, <2>4
  <2> DEFINE y == Year(s, d) z == Year(s, e) P == Power[L]
  <2>6. y \in Nat /\ z \in Nat BY <1>2, YearFacts
  <2>7. P \in Nat \ {0} /\ n < P /\ m < P /\ y * P + n = z * P + m
    BY <2>1, <2>2, <2>4, <2>5, PowerPositive
  <2>8. y = z /\ n = m
    <3> HIDE DEF y, z, P
    <3>1. (y * P + n) \div P = y /\ (y * P + n) % P = n BY <2>6, <2>7, Splits
    <3>2. (z * P + m) \div P = z /\ (z * P + m) % P = m BY <2>6, <2>7, Splits
    <3> QED BY <3>1, <3>2, <2>7
  <2>9. Scope(s, d) = <<s.mode, y>> /\ Scope(s, e) = <<s.mode, z>> BY <1>2 DEF Scope
  <2> QED BY <2>8, <2>9
<1> QED BY <1>1, <1>2

\* What the invariant says of one invoice.
LEMMA EntryFacts ==
  ASSUME SeriesInv, BookInv, NEW i \in DOMAIN invoices
  PROVE  /\ invoices[i] \in Entries /\ SlotOf(i) \in DOMAIN sequences
         /\ invoices[i].series \in DOMAIN settings
         /\ settings[invoices[i].series] \in Settings
         /\ invoices[i].sequence \in Nat
         /\ invoices[i].sequence \in settings[invoices[i].series].first..sequences[SlotOf(i)]
         /\ WellFormed(invoices[i].number)
<1>1. invoices[i] \in Entries BY DEF BookInv
<1>2. invoices[i].sequence \in Nat BY <1>1 DEF Entries
<1>3. SlotOf(i) \in DOMAIN sequences /\ Run(SlotOf(i)) BY DEF BookInv, Booked, Runs
<1>4. SlotOf(i)[1] = invoices[i].series BY DEF SlotOf
<1>5. invoices[i].series \in DOMAIN settings BY <1>3, <1>4 DEF Run
<1>6. settings[invoices[i].series] \in Settings
  <2>1. settings \in Seq(Offered) BY DEF SeriesInv
  <2>2. settings[invoices[i].series] \in Offered BY <1>5, <2>1
  <2> QED BY <2>2, DatesFacts
<1>7. invoices[i].sequence \in Taken(SlotOf(i)) BY DEF Taken, OfSlot
<1>8. invoices[i].sequence \in settings[invoices[i].series].first..sequences[SlotOf(i)]
  BY <1>3, <1>4, <1>7 DEF Run
<1>9. WellFormed(invoices[i].number)
  <2>1. PICK d \in Dates : invoices[i].number =
                        FormatNumber(settings[invoices[i].series], d, invoices[i].sequence)
    BY DEF BookInv, AllNumbered, Numbered
  <2>2. d \in AllDates BY DatesFacts
  <2> QED BY <1>2, <1>6, <2>1, <2>2, FormatWellFormed
<1> QED BY <1>1, <1>2, <1>3, <1>5, <1>6, <1>8, <1>9

\* Once there are settings, the active series is the last one.
LEMMA CurrentFacts ==
  ASSUME SeriesInv, settings # <<>>
  PROVE  /\ Len(settings) \in Nat \ {0} /\ DOMAIN settings = 1..Len(settings)
         /\ active.key = Len(settings) /\ active.revision = Len(settings)
         /\ active.key \in DOMAIN settings
         /\ Current \in Settings /\ Current.first \in Nat \ {0}
<1>1. settings \in Seq(Offered) /\ active = [key |-> Len(settings), revision |-> Len(settings)]
  BY DEF SeriesInv
<1>2. Len(settings) \in Nat \ {0} /\ DOMAIN settings = 1..Len(settings) BY <1>1, EmptySeq, LenProperties
<1>3. active.key = Len(settings) /\ active.revision = Len(settings) BY <1>1
<1>4. active.key \in DOMAIN settings BY <1>2, <1>3
<1>5. Current \in Offered BY <1>1, <1>4 DEF Current
<1> QED BY <1>2, <1>3, <1>4, <1>5, DatesFacts, CapacityFacts

\* The next sequence number is at least the series' first one.
LEMMA NextSequenceFacts ==
  ASSUME SeriesInv, BookInv, settings # <<>>, NEW d \in Dates
  PROVE  NextSequence(d) \in Nat \ {0} /\ Current.first <= NextSequence(d)
<1>1. Current.first \in Nat \ {0} BY CurrentFacts
<1>2. CASE Slot(d) \notin DOMAIN sequences BY <1>1, <1>2 DEF NextSequence
<1>3. CASE Slot(d) \in DOMAIN sequences
  <2>1. Run(Slot(d)) BY <1>3 DEF BookInv, Runs
  <2>2. Slot(d)[1] = active.key BY DEF Slot
  <2>3. sequences[Slot(d)] \in 1..MaxSafe /\ Current.first <= sequences[Slot(d)]
    BY <2>1, <2>2 DEF Run, Current
  <2>4. NextSequence(d) = sequences[Slot(d)] + 1 BY <1>3 DEF NextSequence
  <2>5. MaxSafe \in Nat BY NumberingAssumption
  <2> QED BY <1>1, <2>3, <2>4, <2>5
<1> QED BY <1>2, <1>3

\* The next number is free: within the series numbers differ, and the invoices
\* of earlier series are apart from it.
LEMMA NextNumberFree ==
  ASSUME SeriesInv, BookInv
  PROVE  NextNumberIsFree
<1> SUFFICES ASSUME settings # <<>>, NEW d \in Dates, NextSequence(d) <= MaximumSequence(Current),
                    NEW i \in DOMAIN invoices, invoices[i].number = NextNumber(d)
             PROVE  FALSE
  BY DEF NextNumberIsFree, Numbers
<1> DEFINE s == Current n == NextSequence(d)
<1>1. s \in Settings /\ s.first \in Nat \ {0} BY CurrentFacts
<1>2. n \in Nat \ {0} /\ s.first <= n BY NextSequenceFacts
<1>3. invoices[i].number = FormatNumber(s, d, n) BY DEF NextNumber
<1>4. MaximumSequence(s) \in Nat BY <1>1, CapacityFacts
<1>5. CASE invoices[i].series # active.key
  <2>1. Apart(i) BY <1>5 DEF BookInv, AllApart
  <2>2. n \in s.first..MaximumSequence(s) BY <1>1, <1>2, <1>4
  <2> QED BY <1>3, <2>1, <2>2 DEF Apart
<1>6. CASE invoices[i].series = active.key
  <2>1. settings[invoices[i].series] = s BY <1>6 DEF Current
  <2>2. PICK e \in Dates : /\ invoices[i].scope = Scope(s, e)
                           /\ invoices[i].number = FormatNumber(s, e, invoices[i].sequence)
    BY <2>1 DEF BookInv, AllNumbered, Numbered
  <2>3. d \in AllDates /\ e \in AllDates /\ invoices[i].sequence \in Nat BY DatesFacts, EntryFacts
  <2>4. n = invoices[i].sequence /\ Scope(s, d) = Scope(s, e)
    <3> DEFINE m == invoices[i].sequence
    <3>1. m \in Nat /\ n \in Nat BY <1>2, <2>3
    <3>2. FormatNumber(s, d, n) = FormatNumber(s, e, m) BY <1>3, <2>2
    <3> HIDE DEF s, n, m
    <3>3. n = m /\ Scope(s, d) = Scope(s, e) BY <1>1, <2>3, <3>1, <3>2, FormatInjective
    <3> QED BY <3>3 DEF m
  <2>5. SlotOf(i) = Slot(d) BY <1>6, <2>2, <2>4 DEF SlotOf, Slot
  <2>6. /\ Slot(d) \in DOMAIN sequences
        /\ invoices[i].sequence \in settings[invoices[i].series].first..sequences[Slot(d)]
    BY <2>5, EntryFacts
  <2>7. sequences[Slot(d)] \in Nat
    <3>1. Run(Slot(d)) BY <2>6 DEF BookInv, Runs
    <3>2. MaxSafe \in Nat BY NumberingAssumption
    <3> QED BY <3>1, <3>2 DEF Run
  <2>8. n = sequences[Slot(d)] + 1 BY <2>6 DEF NextSequence
  <2> HIDE DEF n, s
  <2> QED BY <1>1, <2>1, <2>4, <2>6, <2>7, <2>8
<1> QED BY <1>5, <1>6

\* An invoice keeps what its number is made of.
SameEntry(j) ==
  /\ invoices[j].series' = invoices[j].series /\ invoices[j].scope' = invoices[j].scope
  /\ invoices[j].sequence' = invoices[j].sequence /\ invoices[j].number' = invoices[j].number

\* A step that takes no number and replaces no settings.
BooksKept ==
  /\ sequences' = sequences /\ invoices' \in Seq(Entries) /\ DOMAIN invoices' = DOMAIN invoices
  /\ \A j \in DOMAIN invoices : SameEntry(j)
  /\ \A k \in DOMAIN settings : k \in DOMAIN settings' /\ settings'[k] = settings[k]

\* A company without settings satisfies the invariant.
LEMMA NumberingInit == Init => SeriesInv /\ BookInv
<1> SUFFICES ASSUME Init PROVE SeriesInv /\ BookInv OBVIOUS
<1>1. /\ settings = <<>> /\ sequences = <<>> /\ active = NoSeries /\ events = <<>> /\ invoices = <<>>
      /\ request = [c \in Clients |-> Idle]
  BY DEF Init
<1>2. settings \in Seq(Offered) /\ Len(settings) = 0 /\ events \in Seq([previous : Nat, next : Nat])
      /\ Len(events) = 0 /\ DOMAIN events = {}
  BY <1>1
<1>3. MaxSeries \in Nat BY NumberingAssumption
<1>4. request \in [Clients -> Requests] BY <1>1 DEF Requests
<1>5. SeriesInv BY <1>1, <1>2, <1>3, <1>4 DEF SeriesInv
<1>6. invoices \in Seq(Entries) /\ DOMAIN invoices = {} /\ DOMAIN sequences = {} BY <1>1
<1>7. Booked /\ Runs /\ AllNumbered /\ AllApart BY <1>6 DEF Booked, Runs, AllNumbered, AllApart
<1> QED BY <1>5, <1>6, <1>7 DEF BookInv

\* Such a step keeps the runs and the numbers.
LEMMA KeptBooks ==
  ASSUME SeriesInv, BookInv, BooksKept
  PROVE  invoices' \in Seq(Entries) /\ Booked' /\ Runs' /\ AllNumbered'
<1>1. /\ sequences' = sequences /\ invoices' \in Seq(Entries) /\ DOMAIN invoices' = DOMAIN invoices
      /\ \A j \in DOMAIN invoices : SameEntry(j)
      /\ \A k \in DOMAIN settings : k \in DOMAIN settings' /\ settings'[k] = settings[k]
  BY DEF BooksKept
<1>2. \A j \in DOMAIN invoices : SlotOf(j)' = SlotOf(j) BY <1>1 DEF SlotOf, SameEntry
<1>3. Booked' BY <1>1, <1>2 DEF Booked, BookInv
<1>4. Runs'
  <2> SUFFICES ASSUME NEW x \in DOMAIN sequences' PROVE Run(x)' BY DEF Runs
  <2>1. Run(x) BY <1>1 DEF BookInv, Runs
  <2>2. OfSlot(x)' = OfSlot(x) BY <1>1, <1>2 DEF OfSlot
  <2>3. \A j \in OfSlot(x) : invoices'[j].sequence = invoices[j].sequence
    BY <1>1 DEF OfSlot, SameEntry
  <2>4. Taken(x)' = Taken(x) BY <2>2, <2>3 DEF Taken
  <2>5. x[1] \in DOMAIN settings' /\ settings'[x[1]] = settings[x[1]] BY <1>1, <2>1 DEF Run
  <2> QED BY <1>1, <2>1, <2>2, <2>4, <2>5 DEF Run
<1>5. AllNumbered'
  <2> SUFFICES ASSUME NEW i \in DOMAIN invoices' PROVE Numbered(i)' BY DEF AllNumbered
  <2>1. i \in DOMAIN invoices /\ Numbered(i) BY <1>1 DEF BookInv, AllNumbered
  <2>2. invoices[i].series \in DOMAIN settings BY <2>1, EntryFacts
  <2>3. settings'[invoices[i].series] = settings[invoices[i].series] BY <1>1, <2>2
  <2> QED BY <1>1, <2>1, <2>3 DEF Numbered, SameEntry
<1> QED BY <1>1, <1>3, <1>4, <1>5

\* Settings may change freely while no number has been taken.
LEMMA EmptyBooks ==
  ASSUME SeriesInv, BookInv, DOMAIN sequences = {}, sequences' = sequences, invoices' = invoices
  PROVE  BookInv'
<1>1. DOMAIN invoices = {} BY DEF BookInv, Booked
<1>2. invoices' \in Seq(Entries) BY DEF BookInv
<1>3. Booked' /\ Runs' /\ AllNumbered' /\ AllApart'
  BY <1>1 DEF Booked, Runs, AllNumbered, AllApart
<1> QED BY <1>2, <1>3 DEF BookInv

-----------------------------------------------------------------------------
(* Every step keeps the books.                                               *)

\* Reading the state for an update or an activation.
LEMMA RequestStep ==
  ASSUME SeriesInv, BookInv, NEW c \in Clients, NEW s \in Offered,
         UpdateSettings(c, s) \/ ActivateSeries(c, s)
  PROVE  SeriesInv' /\ BookInv'
<1>1. settings' = settings /\ sequences' = sequences /\ active' = active /\ events' = events
      /\ invoices' = invoices
  BY DEF UpdateSettings, ActivateSeries
<1>2. request \in [Clients -> Requests] BY DEF SeriesInv
<1>3. request' \in [Clients -> Requests]
  <2>1. CASE UpdateSettings(c, s)
    <3>1. [kind |-> "update", settings |-> s] \in Requests BY DEF Requests
    <3>2. request' = [request EXCEPT ![c] = [kind |-> "update", settings |-> s]]
      BY <2>1 DEF UpdateSettings
    <3> QED BY <1>2, <3>1, <3>2
  <2>2. CASE ActivateSeries(c, s)
    <3>1. settings # <<>> BY <2>2 DEF ActivateSeries
    <3>2. Len(settings) \in 1..MaxSeries BY <3>1, CurrentFacts, NumberingAssumption DEF SeriesInv
    <3>3. active = [key |-> Len(settings), revision |-> Len(settings)] BY <3>1 DEF SeriesInv
    <3>4. active \in [key : 1..MaxSeries, revision : 1..MaxSeries] BY <3>2, <3>3
    <3>5. [kind |-> "activate", settings |-> s, expected |-> active] \in Requests
      BY <3>4 DEF Requests
    <3>6. request' = [request EXCEPT ![c] = [kind |-> "activate", settings |-> s, expected |-> active]]
      BY <2>2 DEF ActivateSeries
    <3> QED BY <1>2, <3>5, <3>6
  <2> QED BY <2>1, <2>2
<1>4. SeriesInv' BY <1>1, <1>3 DEF SeriesInv
<1>5. BookInv'
  BY <1>1 DEF BookInv, Booked, Runs, AllNumbered, AllApart, Run, Numbered, Apart, Taken, OfSlot, SlotOf, Current
<1> QED BY <1>4, <1>5

\* A request that has ended leaves its client idle.
LEMMA IdleAgain ==
  ASSUME SeriesInv, NEW c \in Clients, request' = [request EXCEPT ![c] = Idle]
  PROVE  request' \in [Clients -> Requests]
<1>1. Idle \in Requests BY DEF Requests
<1> QED BY <1>1 DEF SeriesInv

\* A request carries settings a user may ask for.
LEMMA RequestSettings ==
  ASSUME SeriesInv, NEW c \in Clients, request[c].kind \in {"update", "activate"}
  PROVE  request[c].settings \in Offered
<1>1. request[c] \in Requests BY DEF SeriesInv
<1>2. request[c] # Idle BY DEF Idle
<1> QED BY <1>1, <1>2 DEF Requests

\* Saving the settings of the default series: the trigger lets it replace them
\* only while no number hangs on them, because an event names the default
\* series as soon as there is a second one.
LEMMA SaveStep ==
  ASSUME SeriesInv, BookInv, NEW c \in Clients, SaveSettings(c)
  PROVE  SeriesInv' /\ BookInv'
<1>1. /\ request[c].kind = "update" /\ request' = [request EXCEPT ![c] = Idle]
      /\ sequences' = sequences /\ events' = events /\ invoices' = invoices
  BY DEF SaveSettings
<1>2. request' \in [Clients -> Requests] BY <1>1, IdleAgain
<1>3. PICK t \in Offered : t = request[c].settings BY <1>1, RequestSettings
<1>4. settings \in Seq(Offered) BY DEF SeriesInv
<1>5. CASE settings = <<>>
  <2>1. settings' = <<t>> /\ active' = [key |-> 1, revision |-> 1]
    BY <1>3, <1>5 DEF SaveSettings, Default
  <2>2. settings' \in Seq(Offered) /\ Len(settings') = 1 /\ settings' # <<>> BY <2>1
  <2>3. events' \in Seq([previous : Nat, next : Nat]) /\ Len(events') = 0
        /\ \A e \in DOMAIN events' : events'[e] = [previous |-> e, next |-> e + 1]
    BY <1>1, <1>5 DEF SeriesInv
  <2>4. 1 <= MaxSeries BY NumberingAssumption
  <2>5. SeriesInv' BY <1>2, <2>1, <2>2, <2>3, <2>4 DEF SeriesInv
  <2>6. DOMAIN sequences = {}
    <3>1. DOMAIN settings = {} BY <1>5
    <3>2. \A x \in DOMAIN sequences : x[1] \in DOMAIN settings BY DEF BookInv, Runs, Run
    <3> QED BY <3>1, <3>2
  <2> QED BY <1>1, <2>5, <2>6, EmptyBooks
<1>6. CASE settings # <<>> /\ Immutable(Default)
  <2>1. settings' = settings /\ active' = active BY <1>6 DEF SaveSettings
  <2>2. SeriesInv' BY <1>1, <1>2, <2>1 DEF SeriesInv
  <2>3. BookInv'
    BY <1>1, <2>1 DEF BookInv, Booked, Runs, AllNumbered, AllApart, Run, Numbered, Apart, Taken, OfSlot, SlotOf, Current
  <2> QED BY <2>2, <2>3
<1>7. CASE settings # <<>> /\ ~Immutable(Default)
  <2>1. settings' = [settings EXCEPT ![1] = t] /\ active' = active
    BY <1>3, <1>7 DEF SaveSettings, Default
  <2>2. Len(settings) \in Nat \ {0} /\ DOMAIN settings = 1..Len(settings) BY <1>7, CurrentFacts
  <2>3. settings' \in Seq(Offered) /\ Len(settings') = Len(settings)
    BY <1>4, <2>1, <2>2, ExceptSeq
  <2>4. settings' # <<>> BY <2>2, <2>3
  <2>5. SeriesInv' BY <1>1, <1>2, <1>7, <2>1, <2>3, <2>4 DEF SeriesInv
  <2>6. Len(settings) = 1
    <3>1. Len(events) = Len(settings) - 1 /\ events \in Seq([previous : Nat, next : Nat])
      BY <1>7 DEF SeriesInv
    <3>2. SUFFICES ASSUME Len(settings) # 1 PROVE FALSE OBVIOUS
    <3>3. 1 \in DOMAIN events BY <2>2, <3>1, <3>2, LenProperties
    <3>4. events[1].previous = 1 BY <3>3 DEF SeriesInv
    <3> QED BY <1>7, <3>3, <3>4 DEF Immutable, Default
  <2>7. DOMAIN sequences = {}
    <3> SUFFICES ASSUME NEW x \in DOMAIN sequences PROVE FALSE OBVIOUS
    <3>1. x[1] \in DOMAIN settings BY DEF BookInv, Runs, Run
    <3>2. x[1] = 1 BY <2>2, <2>6, <3>1
    <3> QED BY <1>7, <3>2 DEF Immutable, HasUsedNumbering, Default
  <2> QED BY <1>1, <2>5, <2>7, EmptyBooks
<1> QED BY <1>5, <1>6, <1>7

\* Activating a series: the checked revision makes it follow the last one, the
\* checked first number keeps it apart from every number taken so far.
LEMMA ActivateStep ==
  ASSUME SeriesInv, BookInv, NEW c \in Clients, Activate(c)
  PROVE  SeriesInv' /\ BookInv'
<1>1. /\ request[c].kind = "activate" /\ request' = [request EXCEPT ![c] = Idle]
      /\ sequences' = sequences /\ invoices' = invoices
  BY DEF Activate
<1>2. request' \in [Clients -> Requests] BY <1>1, IdleAgain
<1>3. PICK t \in Offered : t = request[c].settings BY <1>1, RequestSettings
<1>4. settings \in Seq(Offered) /\ Len(settings) \in Nat BY DEF SeriesInv
<1>5. CASE ~(Unchanged(c) /\ Readable(Numbers) /\ SafeFirst(request[c].settings))
  <2>1. settings' = settings /\ active' = active /\ events' = events BY <1>5 DEF Activate
  <2>2. SeriesInv' BY <1>1, <1>2, <2>1 DEF SeriesInv
  <2>3. BookInv'
    BY <1>1, <2>1 DEF BookInv, Booked, Runs, AllNumbered, AllApart, Run, Numbered, Apart, Taken, OfSlot, SlotOf, Current
  <2> QED BY <2>2, <2>3
<1>6. CASE Unchanged(c) /\ Readable(Numbers) /\ SafeFirst(request[c].settings)
  <2> DEFINE L == Len(settings)
  <2>1. active = request[c].expected BY <1>6 DEF Unchanged
  <2>2. /\ L < MaxSeries /\ settings' = Append(settings, t)
        /\ active' = [key |-> L + 1, revision |-> active.revision + 1]
        /\ events' = Append(events, [previous |-> active.key, next |-> L + 1])
    BY <1>3, <1>6, <2>1 DEF Activate
  <2>3. settings # <<>>
    <3>1. request[c] \in Requests /\ request[c] # Idle BY <1>1 DEF SeriesInv, Idle
    <3>2. request[c].expected \in [key : 1..MaxSeries, revision : 1..MaxSeries]
      BY <1>1, <3>1 DEF Requests
    <3>3. active # NoSeries BY <2>1, <3>2 DEF NoSeries
    <3> QED BY <3>3 DEF SeriesInv
  <2>4. L \in Nat \ {0} /\ DOMAIN settings = 1..L /\ active.key = L /\ active.revision = L
    BY <2>3, CurrentFacts
  <2>5. /\ settings' \in Seq(Offered) /\ Len(settings') = L + 1 /\ settings'[L + 1] = t
        /\ \A k \in 1..L : settings'[k] = settings[k]
    BY <1>4, <2>2, AppendProperties
  <2>6. settings' # <<>> BY <2>4, <2>5
  <2>7. DOMAIN settings' = 1..(L + 1) BY <2>5, LenProperties
  <2>8. SeriesInv'
    <3>1. L + 1 <= MaxSeries BY <2>2, <2>4, NumberingAssumption
    <3>2. events \in Seq([previous : Nat, next : Nat]) /\ Len(events) = L - 1
          /\ \A e \in DOMAIN events : events[e] = [previous |-> e, next |-> e + 1]
      BY <2>3 DEF SeriesInv
    <3> DEFINE v == [previous |-> L, next |-> L + 1]
    <3>3. v \in [previous : Nat, next : Nat] BY <2>4
    <3>4. events' = Append(events, v) BY <2>2, <2>4
    <3> HIDE DEF v, L
    <3>5. DOMAIN events = 1..(L - 1) BY <2>4, <3>2, LenProperties
    <3>6. /\ events' \in Seq([previous : Nat, next : Nat]) /\ Len(events') = L
          /\ events'[L] = v /\ \A e \in 1..(L - 1) : events'[e] = events[e]
      BY <2>4, <3>2, <3>3, <3>4, AppendProperties
    <3>7. DOMAIN events' = 1..L BY <2>4, <3>6, LenProperties
    <3>8. \A e \in DOMAIN events' : events'[e] = [previous |-> e, next |-> e + 1]
      <4> SUFFICES ASSUME NEW e \in DOMAIN events' PROVE events'[e] = [previous |-> e, next |-> e + 1]
        OBVIOUS
      <4>1. CASE e = L BY <3>6, <4>1 DEF v
      <4>2. CASE e # L
        <5>1. e \in 1..(L - 1) BY <2>4, <3>7, <4>2
        <5> QED BY <3>2, <3>5, <3>6, <5>1
      <4> QED BY <4>1, <4>2
    <3>9. active' = [key |-> L + 1, revision |-> L + 1] BY <2>2, <2>4
    <3>10. (L + 1) - 1 = L BY <2>4
    <3> QED BY <1>2, <2>5, <2>6, <3>1, <3>6, <3>8, <3>9, <3>10 DEF SeriesInv
  <2>9. BooksKept
    <3>1. invoices \in Seq(Entries) BY DEF BookInv
    <3>2. \A j \in DOMAIN invoices : SameEntry(j) BY <1>1 DEF SameEntry
    <3>3. \A k \in DOMAIN settings : k \in DOMAIN settings' /\ settings'[k] = settings[k]
      BY <2>4, <2>5, <2>7
    <3> QED BY <1>1, <3>1, <3>2, <3>3 DEF BooksKept
  <2>10. AllApart'
    <3> SUFFICES ASSUME NEW i \in DOMAIN invoices' PROVE Apart(i)' BY DEF AllApart
    <3>1. Current' = t BY <2>2, <2>5 DEF Current
    <3>2. i \in DOMAIN invoices /\ invoices'[i] = invoices[i] BY <1>1
    <3>3. invoices[i].number \in Numbers BY <3>2 DEF Numbers
    <3>4. t \in Settings BY DatesFacts
    <3>5. \A N \in Numbers : WellFormed(N) BY EntryFacts DEF Numbers
    <3>6. PICK largest \in 0..MaximumSequence(t) :
             /\ \A n \in Met(Numbers, t) : n <= largest
             /\ MinimumSafe(Numbers, t) = IF largest >= MaximumSequence(t) THEN 0 ELSE largest + 1
      BY <3>4, <3>5, MinimumSafeFacts
    <3>7. MaximumSequence(t) \in Nat /\ t.first \in Nat \ {0} BY <3>4, CapacityFacts
    <3>8. largest + 1 <= t.first BY <1>3, <1>6, <3>6, <3>7 DEF SafeFirst
    <3>9. ASSUME NEW d \in Dates, NEW n \in t.first..MaximumSequence(t),
                 FormatNumber(t, d, n) = invoices[i].number
          PROVE  FALSE
      <4>1. d \in AllDates BY DatesFacts
      <4>2. n \in 1..MaximumSequence(t) BY <3>7
      <4>3. n \in Met(Numbers, t) BY <3>3, <3>9, <4>1, <4>2 DEF Met
      <4>4. n <= largest BY <3>6, <4>3
      <4> QED BY <3>6, <3>7, <3>8, <4>4
    <3> QED BY <3>1, <3>2, <3>9 DEF Apart
  <2> QED BY <2>8, <2>9, <2>10, KeptBooks DEF BookInv
<1> QED BY <1>5, <1>6

\* An approval takes the next number of its run.
LEMMA TakeStep ==
  ASSUME SeriesInv, BookInv, NEW d \in Dates, NEW kind \in {"standard", "credit"},
         Numberable(d), Take(d, kind), settings' = settings, active' = active
  PROVE  BookInv'
<1>0. settings # <<>> /\ NextSequence(d) <= MaxSafe BY DEF Numberable
<1>1. PICK s \in Settings : s = Current /\ s = settings[active.key] /\ s.first \in Nat \ {0}
  BY <1>0, CurrentFacts DEF Current
<1>2. PICK n \in Nat \ {0} : n = NextSequence(d) /\ s.first <= n /\ n <= MaxSafe
  BY <1>0, <1>1, NextSequenceFacts
<1>3. PICK k \in DOMAIN settings : k = active.key /\ k \in Nat BY <1>0, CurrentFacts
<1>4. PICK scope \in Scopes : scope = Scope(s, d)
  <2>1. s.mode \in Modes BY <1>1, CapacityFacts
  <2>2. d \in AllDates BY DatesFacts
  <2>3. s.mode # "plainSequence" => Year(s, d) \in Nat BY <2>2, YearFacts
  <2>4. CASE s.mode = "plainSequence" BY <2>4 DEF Scope, Scopes
  <2>5. CASE s.mode # "plainSequence"
    <3> DEFINE y == Year(s, d)
    <3>1. y \in Int BY <2>3, <2>5
    <3>2. Scope(s, d) = <<s.mode, y>> BY <2>5 DEF Scope
    <3> HIDE DEF y
    <3>3. <<s.mode, y>> \in Modes \X Int BY <2>1, <3>1
    <3> QED BY <3>2, <3>3 DEF Scopes
  <2> QED BY <2>4, <2>5
<1>5. PICK number \in Nat \X Nat : number = FormatNumber(s, d, n)
  <2>1. d \in AllDates BY DatesFacts
  <2> QED BY <2>1, FormatWellFormed DEF WellFormed
<1> DEFINE rec == [kind |-> kind, series |-> k, scope |-> scope, sequence |-> n,
                   number |-> number, status |-> "approved"]
<1>6. PICK x0 : x0 = <<k, scope>> OBVIOUS
<1>7. Slot(d) = x0 /\ NextNumber(d) = number
  BY <1>1, <1>2, <1>3, <1>4, <1>5, <1>6 DEF Slot, NextNumber
<1>8. /\ invoices' = Append(invoices, rec)
      /\ DOMAIN sequences' = DOMAIN sequences \cup {x0} /\ sequences'[x0] = n
      /\ \A x \in DOMAIN sequences \ {x0} : sequences'[x] = sequences[x]
  BY <1>1, <1>2, <1>3, <1>4, <1>7 DEF Take
<1>9. rec \in Entries BY <1>3 DEF Entries
<1>10. rec.series = k /\ rec.scope = scope /\ rec.sequence = n /\ rec.number = number OBVIOUS
<1> HIDE DEF rec
<1>11. invoices \in Seq(Entries) /\ Booked /\ Runs /\ AllNumbered /\ AllApart BY DEF BookInv
<1>12. PICK L \in Nat : L = Len(invoices) BY <1>11
<1>13. /\ invoices' \in Seq(Entries) /\ DOMAIN invoices = 1..L /\ DOMAIN invoices' = 1..(L + 1)
       /\ invoices'[L + 1] = rec /\ \A i \in 1..L : invoices'[i] = invoices[i]
  BY <1>8, <1>9, <1>11, <1>12, AppendProperties, LenProperties
<1>14. DOMAIN invoices' = (1..L) \cup {L + 1} /\ L + 1 \notin 1..L BY <1>12, <1>13
<1>15. SlotOf(L + 1)' = x0 BY <1>6, <1>10, <1>13 DEF SlotOf
<1>16. \A i \in 1..L : SlotOf(i)' = SlotOf(i) BY <1>13 DEF SlotOf
<1>17. Booked'
  <2> SUFFICES ASSUME NEW i \in DOMAIN invoices' PROVE SlotOf(i)' \in DOMAIN sequences' BY DEF Booked
  <2>1. CASE i = L + 1 BY <1>8, <1>15, <2>1
  <2>2. CASE i \in 1..L BY <1>8, <1>11, <1>13, <1>16, <2>2 DEF Booked
  <2> QED BY <1>14, <2>1, <2>2
<1>18. AllNumbered'
  <2> SUFFICES ASSUME NEW i \in DOMAIN invoices' PROVE Numbered(i)' BY DEF AllNumbered
  <2>1. CASE i = L + 1
    BY <1>1, <1>3, <1>4, <1>5, <1>10, <1>13, <2>1 DEF Numbered
  <2>2. CASE i \in 1..L BY <1>11, <1>13, <2>2 DEF AllNumbered, Numbered
  <2> QED BY <1>14, <2>1, <2>2
<1>19. AllApart'
  <2> SUFFICES ASSUME NEW i \in DOMAIN invoices', invoices'[i].series # active.key PROVE Apart(i)'
    BY DEF AllApart
  <2>1. i \in 1..L BY <1>3, <1>10, <1>13, <1>14
  <2>2. Apart(i) BY <1>11, <1>13, <2>1 DEF AllApart
  <2>3. Current' = Current BY DEF Current
  <2> QED BY <1>13, <2>1, <2>2, <2>3 DEF Apart
<1>20. ASSUME NEW x \in DOMAIN sequences, x # x0 PROVE Run(x)'
  <2>1. Run(x) BY <1>11, <1>20 DEF Runs
  <2>2. OfSlot(x)' = OfSlot(x) BY <1>13, <1>14, <1>15, <1>16, <1>20 DEF OfSlot
  <2>3. \A i \in OfSlot(x) : invoices'[i] = invoices[i] BY <1>13 DEF OfSlot
  <2>4. Taken(x)' = Taken(x) BY <2>2, <2>3 DEF Taken
  <2>5. sequences'[x] = sequences[x] BY <1>8, <1>20
  <2> QED BY <2>1, <2>2, <2>4, <2>5 DEF Run
<1>21. Run(x0)'
  <2>1. OfSlot(x0)' = OfSlot(x0) \cup {L + 1} BY <1>13, <1>14, <1>15, <1>16 DEF OfSlot
  <2>2. L + 1 \notin OfSlot(x0) /\ OfSlot(x0) \subseteq 1..L BY <1>13, <1>14 DEF OfSlot
  <2>3. \A i \in OfSlot(x0) : invoices'[i] = invoices[i] BY <1>13 DEF OfSlot
  <2>4. Taken(x0)' = Taken(x0) \cup {n} BY <1>10, <1>13, <2>1, <2>3 DEF Taken
  <2>5. IsFiniteSet(OfSlot(x0))
    <3>1. 1 \in Int /\ L \in Int BY <1>12
    <3>2. IsFiniteSet(1..L) BY <3>1, FS_Interval
    <3> QED BY <2>2, <3>2, FS_Subset
  <2>6. Cardinality(OfSlot(x0)') = Cardinality(OfSlot(x0)) + 1 BY <2>1, <2>2, <2>5, FS_AddElement
  <2>7. x0[1] = k BY <1>6
  <2>8. MaxSafe \in Nat BY NumberingAssumption
  <2>9. Taken(x0)' = s.first..n /\ Cardinality(OfSlot(x0)') = n - s.first + 1
    <3>1. CASE x0 \in DOMAIN sequences
      <4>1. Run(x0) BY <1>11, <3>1 DEF Runs
      <4>2. PICK q : q = sequences[x0] OBVIOUS
      <4>3. /\ q \in 1..MaxSafe /\ s.first <= q /\ Taken(x0) = s.first..q
            /\ Cardinality(OfSlot(x0)) = q - s.first + 1
        BY <1>1, <1>3, <2>7, <4>1, <4>2 DEF Run
      <4>4. n = q + 1 BY <1>2, <1>7, <3>1, <4>2 DEF NextSequence
      <4>5. (s.first..q) \cup {n} = s.first..n BY <1>1, <2>8, <4>3, <4>4
      <4>6. (q - s.first + 1) + 1 = n - s.first + 1 BY <1>1, <2>8, <4>3, <4>4
      <4> QED BY <2>4, <2>6, <4>3, <4>5, <4>6
    <3>2. CASE x0 \notin DOMAIN sequences
      <4>1. OfSlot(x0) = {} BY <1>11, <3>2 DEF Booked, OfSlot
      <4>2. Taken(x0) = {} BY <4>1 DEF Taken
      <4>3. n = s.first BY <1>1, <1>2, <1>7, <3>2 DEF NextSequence
      <4>4. Cardinality(OfSlot(x0)) = 0 BY <4>1, FS_EmptySet
      <4>5. s.first..n = {n} /\ n - s.first + 1 = 1 BY <4>3
      <4> QED BY <2>4, <2>6, <4>2, <4>4, <4>5
    <3> QED BY <3>1, <3>2
  <2>10. n \in 1..MaxSafe BY <1>2, <2>8
  <2> QED BY <1>1, <1>2, <1>3, <1>8, <2>7, <2>9, <2>10 DEF Run
<1>22. Runs' BY <1>8, <1>20, <1>21 DEF Runs
<1> QED BY <1>13, <1>17, <1>18, <1>19, <1>22 DEF BookInv

\* Sending, cancelling, reopening and approving again leave the numbers alone.
LEMMA StatusStep ==
  ASSUME SeriesInv, BookInv, NEW i \in DOMAIN invoices, NEW from,
         NEW to \in {"approved", "sent", "cancelled", "reopened_for_edit"}, SetStatus(i, from, to)
  PROVE  SeriesInv' /\ BookInv'
<1>1. /\ invoices' = [invoices EXCEPT ![i].status = to]
      /\ settings' = settings /\ sequences' = sequences /\ active' = active
      /\ events' = events /\ request' = request
  BY DEF SetStatus
<1>2. SeriesInv' BY <1>1 DEF SeriesInv
<1> DEFINE e == [invoices[i] EXCEPT !.status = to]
<1>3. invoices \in Seq(Entries) /\ AllApart BY DEF BookInv
<1>4. invoices[i] \in Entries BY <1>3
<1>5. /\ e \in Entries /\ e.series = invoices[i].series /\ e.scope = invoices[i].scope
      /\ e.sequence = invoices[i].sequence /\ e.number = invoices[i].number
  BY <1>4 DEF Entries
<1>6. invoices' = [invoices EXCEPT ![i] = e] BY <1>1
<1> HIDE DEF e
<1>7. /\ invoices' \in Seq(Entries) /\ DOMAIN invoices' = DOMAIN invoices
      /\ \A j \in DOMAIN invoices : invoices'[j] = IF j = i THEN e ELSE invoices[j]
  BY <1>3, <1>5, <1>6, ExceptSeq
<1>8. \A j \in DOMAIN invoices : SameEntry(j) BY <1>5, <1>7 DEF SameEntry
<1>9. BooksKept BY <1>1, <1>7, <1>8 DEF BooksKept
<1>10. AllApart'
  <2> SUFFICES ASSUME NEW j \in DOMAIN invoices', invoices'[j].series # active.key PROVE Apart(j)'
    BY <1>1 DEF AllApart
  <2>1. j \in DOMAIN invoices /\ SameEntry(j) BY <1>7, <1>8
  <2>2. Apart(j) BY <1>3, <2>1 DEF AllApart, SameEntry
  <2>3. Current' = Current BY <1>1 DEF Current
  <2> QED BY <2>1, <2>2, <2>3 DEF Apart, SameEntry
<1> QED BY <1>2, <1>9, <1>10, KeptBooks DEF BookInv

\* Every operation preserves the invariant.
LEMMA NumberingStep == SeriesInv /\ BookInv /\ [Next]_vars => SeriesInv' /\ BookInv'
<1> SUFFICES ASSUME SeriesInv, BookInv, [Next]_vars PROVE SeriesInv' /\ BookInv' OBVIOUS
<1>1. ASSUME NEW c \in Clients, NEW s \in Offered, UpdateSettings(c, s) \/ ActivateSeries(c, s)
      PROVE  SeriesInv' /\ BookInv'
  BY <1>1, RequestStep
<1>2. ASSUME NEW c \in Clients, SaveSettings(c) PROVE SeriesInv' /\ BookInv' BY <1>2, SaveStep
<1>3. ASSUME NEW c \in Clients, Activate(c) PROVE SeriesInv' /\ BookInv' BY <1>3, ActivateStep
<1>4. ASSUME NEW d \in Dates, NEW kind \in {"standard", "credit"}, Numberable(d), Take(d, kind),
             UNCHANGED <<settings, active, events, request>>
      PROVE  SeriesInv' /\ BookInv'
  <2>1. SeriesInv' BY <1>4 DEF SeriesInv
  <2>2. BookInv' BY <1>4, TakeStep
  <2> QED BY <2>1, <2>2
<1>5. ASSUME NEW i \in DOMAIN invoices, MarkSent(i) \/ Cancel(i) \/ Reopen(i) \/ Reapprove(i)
      PROVE  SeriesInv' /\ BookInv'
  BY <1>5, StatusStep DEF MarkSent, Cancel, Reopen, Reapprove
<1>6. CASE UNCHANGED vars
  <2>1. SeriesInv' BY <1>6 DEF SeriesInv, vars
  <2>2. BookInv'
    BY <1>6 DEF vars, BookInv, Booked, Runs, AllNumbered, AllApart, Run, Numbered, Apart, Taken, OfSlot, SlotOf, Current
  <2> QED BY <2>1, <2>2
<1>7. ASSUME NEW d \in Dates, ApproveDraft(d) \/ ApproveCredit(d) PROVE SeriesInv' /\ BookInv'
  BY <1>4, <1>7 DEF ApproveDraft, ApproveCredit
<1> QED BY <1>1, <1>2, <1>3, <1>5, <1>6, <1>7 DEF Next

-----------------------------------------------------------------------------
(* What follows for numbering.                                               *)

\* The invariant of numbering, for every base, length of numbers, set of dates
\* and settings, and number of clients.
THEOREM NumberingInvariance == Spec => [](SeriesInv /\ BookInv)
BY NumberingInit, NumberingStep, PTL DEF Spec

\* In every such state the least safe first number is exact.
LEMMA ExactFirst == SeriesInv /\ BookInv => MinimumIsExact
<1> SUFFICES ASSUME SeriesInv, BookInv, NEW s \in Offered
             PROVE  LET met == Met(Numbers, s)
                        firsts == {n \in 1..MaximumSequence(s) : \A m \in met : m < n}
                    IN  MinimumSafe(Numbers, s) = IF firsts = {} THEN 0 ELSE Min(firsts)
  BY DEF MinimumIsExact, Met, AllDates
<1>1. s \in Settings BY DatesFacts
<1>2. \A N \in Numbers : WellFormed(N) BY EntryFacts DEF Numbers
<1> DEFINE firsts == {n \in 1..MaximumSequence(s) : \A m \in Met(Numbers, s) : m < n}
<1>3. MinimumSafe(Numbers, s) = IF firsts = {} THEN 0 ELSE Min(firsts)
  <2>1. firsts = {n \in 1..MaximumSequence(s) : \A m \in Met(Numbers, s) : m < n} OBVIOUS
  <2> HIDE DEF firsts
  <2> QED BY <1>1, <1>2, <2>1, MinimumSafeExact
<1> QED BY <1>3

\* The first number calculateMinimumSafeInvoiceSequenceNumber.ts answers is the
\* least one that never meets an existing number, in every reachable state and
\* for every settings a user may ask for.
THEOREM FirstNumberIsExact == Spec => []MinimumIsExact
BY NumberingInvariance, ExactFirst, PTL

\* The next number of the active series is never in use, so that UNIQUE
\* (company_id, invoice_number) never refuses an approval, however often and to
\* whatever format the series was switched.
THEOREM NumbersStayFree == Spec => []NextNumberIsFree
BY NumberingInvariance, NextNumberFree, PTL

\* The runs are what the property asks for.
LEMMA NoGaps == SeriesInv /\ BookInv => SequencesHaveNoGaps
<1> SUFFICES ASSUME SeriesInv, BookInv PROVE SequencesHaveNoGaps OBVIOUS
<1>1. \A i \in DOMAIN invoices : SlotOf(i) \in DOMAIN sequences BY DEF BookInv, Booked
<1>2. \A x \in DOMAIN sequences : /\ Taken(x) = settings[x[1]].first..sequences[x]
                                  /\ Cardinality(OfSlot(x)) = sequences[x] - settings[x[1]].first + 1
  BY DEF BookInv, Runs, Run
<1> QED BY <1>1, <1>2 DEF SequencesHaveNoGaps, Taken, OfSlot, SlotOf

\* In every series and scope the numbers taken run without a gap and each
\* belongs to one invoice, through approvals, cancellations, reopenings and
\* switches of the series.
THEOREM SequencesRunWithoutGaps == Spec => []SequencesHaveNoGaps
BY NumberingInvariance, NoGaps, PTL

\* The series form the chain the property asks for.
LEMMA OneChain == SeriesInv /\ BookInv => HistoryIsOneChain
<1> SUFFICES ASSUME SeriesInv, BookInv PROVE HistoryIsOneChain OBVIOUS
<1>1. /\ settings \in Seq(Offered) /\ Len(settings) \in Nat /\ Len(settings) <= MaxSeries
      /\ DOMAIN settings = 1..Len(settings) /\ events \in Seq([previous : Nat, next : Nat])
      /\ request \in [Clients -> Requests]
      /\ \A e \in DOMAIN events : events[e] = [previous |-> e, next |-> e + 1]
      /\ MaxSeries \in Nat
  BY LenProperties, NumberingAssumption DEF SeriesInv
<1>2. \A x \in DOMAIN sequences : x[1] \in DOMAIN settings /\ sequences[x] \in 1..MaxSafe
  BY DEF BookInv, Runs, Run
<1>3. CASE settings = <<>>
  <2>1. active = NoSeries /\ Len(events) = 0 BY <1>3 DEF SeriesInv
  <2>2. DOMAIN events = {} BY <1>1, <2>1, EmptySeq
  <2>3. TypeOK BY <1>1, <1>2, <1>3, <2>1, <2>2 DEF TypeOK
  <2> QED BY <1>3, <2>3 DEF HistoryIsOneChain
<1>4. CASE settings # <<>>
  <2> DEFINE L == Len(settings)
  <2>1. /\ L \in Nat \ {0} /\ active.key = L /\ active.revision = L
        /\ active = [key |-> L, revision |-> L] /\ Len(events) = L - 1
    BY <1>4, CurrentFacts DEF SeriesInv
  <2>2. DOMAIN events = 1..(L - 1) /\ DOMAIN settings = 1..L /\ L <= MaxSeries BY <1>1, <2>1, LenProperties
  <2> HIDE DEF L
  <2>3. active \in [key : 1..L, revision : 1..MaxSeries] BY <1>1, <2>1, <2>2
  <2>4. active # NoSeries BY <2>1 DEF NoSeries
  <2>5. \A e \in DOMAIN events : {events[e].previous, events[e].next} \subseteq DOMAIN settings
    <3> SUFFICES ASSUME NEW e \in DOMAIN events PROVE {events[e].previous, events[e].next} \subseteq 1..L
      BY <2>2
    <3>1. e \in 1..(L - 1) BY <2>2
    <3>2. e \in 1..L /\ e + 1 \in 1..L BY <2>1, <3>1
    <3>3. events[e].previous = e /\ events[e].next = e + 1 BY <1>1
    <3> QED BY <3>2, <3>3
  <2>6. TypeOK BY <1>1, <1>2, <1>4, <2>3, <2>4, <2>5 DEF TypeOK, L
  <2>7. active.revision = Len(events) + 1 BY <2>1
  <2>8. active.key = IF events = <<>> THEN Default ELSE events[Len(events)].next
    <3>1. CASE events = <<>>
      <4>1. L = 1 BY <1>1, <2>1, <3>1, EmptySeq
      <4> QED BY <2>1, <3>1, <4>1 DEF Default
    <3>2. CASE events # <<>>
      <4>1. Len(events) # 0 BY <1>1, <3>2, EmptySeq
      <4>2. L - 1 \in DOMAIN events BY <2>1, <2>2, <4>1
      <4>3. events[L - 1].next = (L - 1) + 1 BY <1>1, <4>2
      <4> QED BY <2>1, <3>2, <4>3
    <3> QED BY <3>1, <3>2
  <2>9. ASSUME NEW e \in DOMAIN events
        PROVE  events[e].previous = IF e = 1 THEN Default ELSE events[e - 1].next
    <3>1. e \in 1..(L - 1) BY <2>2
    <3>2. events[e].previous = e BY <1>1
    <3>3. CASE e = 1 BY <3>2, <3>3 DEF Default
    <3>4. CASE e # 1
      <4>1. e - 1 \in 1..(L - 1) BY <2>1, <3>1, <3>4
      <4>2. events[e - 1].next = (e - 1) + 1 BY <1>1, <2>2, <4>1
      <4> QED BY <3>1, <3>2, <3>4, <4>2
    <3> QED BY <3>3, <3>4
  <2>10. {events[e].next : e \in DOMAIN events} = DOMAIN settings \ {Default}
    <3>1. ASSUME NEW e \in DOMAIN events PROVE events[e].next \in DOMAIN settings \ {1}
      <4>1. events[e].next = e + 1 /\ e \in 1..(L - 1) BY <1>1, <2>2
      <4> QED BY <2>1, <2>2, <4>1
    <3>2. ASSUME NEW k \in DOMAIN settings \ {1} PROVE \E e \in DOMAIN events : events[e].next = k
      <4>1. k - 1 \in DOMAIN events /\ (k - 1) + 1 = k BY <2>1, <2>2, <3>2
      <4>2. events[k - 1].next = (k - 1) + 1 BY <1>1, <4>1
      <4> QED BY <4>1, <4>2
    <3> QED BY <3>1, <3>2 DEF Default
  <2> QED BY <2>6, <2>7, <2>8, <2>9, <2>10 DEF HistoryIsOneChain
<1> QED BY <1>3, <1>4

\* The events of the series are one chain from the default series to the active
\* one, one for each revision, however the requests of several clients overlap
\* (sqliteInvoiceNumberingSeriesRepository.ts).
THEOREM SeriesFormOneChain == Spec => []HistoryIsOneChain
BY NumberingInvariance, OneChain, PTL

\* Every invoice stays, with its series, scope, sequence number and number.
NumbersKept == \A i \in DOMAIN invoices : i \in DOMAIN invoices' /\ SameEntry(i)

\* An approval only adds an invoice.
LEMMA TakeKeepsNumbers ==
  ASSUME BookInv, NEW d \in Dates, NEW kind, Take(d, kind)
  PROVE  NumbersKept
<1>1. PICK v : invoices' = Append(invoices, v) BY DEF Take
<1>2. invoices \in Seq(Entries) /\ Len(invoices) \in Nat /\ DOMAIN invoices = 1..Len(invoices)
  BY LenProperties DEF BookInv
<1>3. PICK S : invoices \in Seq(S) /\ v \in S
  <2>1. invoices \in Seq(Entries \cup {v}) BY <1>2
  <2> QED BY <2>1
<1>4. /\ DOMAIN invoices' = 1..(Len(invoices) + 1)
      /\ \A i \in 1..Len(invoices) : invoices'[i] = invoices[i]
  BY <1>1, <1>3, AppendProperties, LenProperties
<1>5. \A i \in DOMAIN invoices : i \in DOMAIN invoices' /\ invoices'[i] = invoices[i]
  BY <1>2, <1>4
<1> QED BY <1>5 DEF NumbersKept, SameEntry

\* A change of status leaves the number alone.
LEMMA StatusKeepsNumbers ==
  ASSUME BookInv, NEW i \in DOMAIN invoices, NEW from,
         NEW to \in {"approved", "sent", "cancelled", "reopened_for_edit"}, SetStatus(i, from, to)
  PROVE  NumbersKept
<1>1. invoices' = [invoices EXCEPT ![i].status = to] BY DEF SetStatus
<1>2. invoices \in Seq(Entries) BY DEF BookInv
<1> DEFINE e == [invoices[i] EXCEPT !.status = to]
<1>3. /\ e.series = invoices[i].series /\ e.scope = invoices[i].scope
      /\ e.sequence = invoices[i].sequence /\ e.number = invoices[i].number
  <2>1. invoices[i] \in Entries BY <1>2
  <2> QED BY <2>1 DEF Entries
<1>4. invoices' = [invoices EXCEPT ![i] = e] BY <1>1
<1> HIDE DEF e
<1>5. DOMAIN invoices' = DOMAIN invoices
      /\ \A j \in DOMAIN invoices : invoices'[j] = IF j = i THEN e ELSE invoices[j]
  BY <1>2, <1>4
<1> QED BY <1>3, <1>5 DEF NumbersKept, SameEntry

\* No step changes or reuses the number of an invoice: not reopening and
\* approving again at another date, nor a switch of the series.
THEOREM NumbersAreKept == Spec => [][NumbersKept]_vars
<1>1. BookInv /\ [Next]_vars => [NumbersKept]_vars
  <2> SUFFICES ASSUME BookInv, Next PROVE NumbersKept BY DEF vars
  <2>1. ASSUME invoices' = invoices PROVE NumbersKept BY <2>1 DEF NumbersKept, SameEntry
  <2>2. ASSUME NEW c \in Clients, NEW s \in Offered, UpdateSettings(c, s) \/ ActivateSeries(c, s)
        PROVE  NumbersKept
    BY <2>1, <2>2 DEF UpdateSettings, ActivateSeries
  <2>3. ASSUME NEW c \in Clients, SaveSettings(c) \/ Activate(c) PROVE NumbersKept
    BY <2>1, <2>3 DEF SaveSettings, Activate
  <2>4. ASSUME NEW d \in Dates, ApproveDraft(d) \/ ApproveCredit(d) PROVE NumbersKept
    BY <2>4, TakeKeepsNumbers DEF ApproveDraft, ApproveCredit
  <2>5. ASSUME NEW i \in DOMAIN invoices, MarkSent(i) \/ Cancel(i) \/ Reopen(i) \/ Reapprove(i)
        PROVE  NumbersKept
    BY <2>5, StatusKeepsNumbers DEF MarkSent, Cancel, Reopen, Reapprove
  <2> QED BY <2>2, <2>3, <2>4, <2>5 DEF Next
<1> QED BY <1>1, NumberingInvariance, PTL DEF Spec
=============================================================================
