-------------------------------- MODULE Lemmas --------------------------------
(***************************************************************************)
(* What the proofs of several components rest on: induction, sums,         *)
(* remainders, and what the calls of FlowCache do to its nodes.            *)
(*                                                                         *)
(* The principles of induction are stated about a set, the set of those    *)
(* for which a fact holds, and not about an operator: the library's        *)
(* theorem that the strict subsets of a finite set are well ordered is one *)
(* of sets too.                                                            *)
(***************************************************************************)
EXTENDS FlowCache, SequenceTheorems, FiniteSetTheorems, WellFoundedInduction,
        TLAPS

-------------------------------------------------------------------------------
(* Induction.                                                              *)

\* A set of numbers with zero and every successor of its members.
LEMMA NatInductionOnSet ==
    ASSUME NEW T, 0 \in T, \A n \in Nat : n \in T => n + 1 \in T
    PROVE  Nat \subseteq T
<1> DEFINE R == StrictSubsetOrdering(Nat)
           F == FiniteSubsetsOf(Nat)
           U == {1 .. n : n \in Nat \ T}
<1> SUFFICES ASSUME Nat \ T # {}
             PROVE  FALSE
  OBVIOUS
<1>1. IsWellFoundedOn(R, F)
  BY FS_StrictSubsetOrderingWellFounded
<1>2. \A n \in Nat : 1 .. n \in F
  BY FS_Interval DEF FiniteSubsetsOf
<1>3. U \subseteq F /\ U # {}
  BY <1>2
<1>4. \A n \in Nat : <<1 .. n, 1 .. n + 1>> \in R
  BY DEF StrictSubsetOrdering
<1>5. \E u \in U : \A v \in U : ~ (<<v, u>> \in R)
  <2> HIDE DEF U, R, F
  <2> QED BY <1>1, <1>3, WFMin
<1>6. PICK m \in Nat \ T : \A n \in Nat \ T : <<1 .. n, 1 .. m>> \notin R
  BY <1>5
<1>7. m # 0 /\ m - 1 \in Nat /\ m - 1 + 1 = m
  BY <1>6
<1>8. <<1 .. m - 1, 1 .. m>> \in R
  BY <1>4, <1>7
<1>9. m - 1 \in T
  BY <1>6, <1>7, <1>8
<1> QED BY <1>6, <1>7, <1>9

\* A set that grows by any element from the empty set to S has S as a member.
LEMMA FiniteSetInduction ==
    ASSUME NEW S, IsFiniteSet(S), NEW T, {} \in T,
           \A A \in SUBSET S : A \in T => \A x \in S \ A : A \union {x} \in T
    PROVE  S \in T
<1> DEFINE R == StrictSubsetOrdering(S)
           U == (SUBSET S) \ T
<1> SUFFICES ASSUME S \notin T
             PROVE  FALSE
  OBVIOUS
<1>1. IsWellFoundedOn(R, SUBSET S)
  BY FS_StrictSubsetOrderingWellFounded, FS_FiniteSubsetsOfFinite
<1>2. U \subseteq SUBSET S /\ U # {}
  OBVIOUS
<1>3. \E u \in U : \A v \in U : ~ (<<v, u>> \in R)
  <2> HIDE DEF U, R
  <2> QED BY <1>1, <1>2, WFMin
<1>4. PICK B \in (SUBSET S) \ T : \A A \in (SUBSET S) \ T : <<A, B>> \notin R
  BY <1>3
<1>5. PICK x \in B : TRUE
  BY <1>4
<1>6. <<B \ {x}, B>> \in R /\ B \ {x} \in SUBSET S /\ (B \ {x}) \union {x} = B
  BY <1>4, <1>5 DEF StrictSubsetOrdering
<1>7. B \ {x} \in T /\ x \in S \ (B \ {x})
  BY <1>4, <1>5, <1>6
<1> QED BY <1>4, <1>6, <1>7

-------------------------------------------------------------------------------
(* The recursive function behind a sum, and that it exists.                *)

Chosen(s) == CHOOSE x \in s : TRUE

IsSumOver(g, f, D) ==
    g = [s \in D |-> IF s = {} THEN 0 ELSE f[Chosen(s)] + g[s \ {Chosen(s)}]]

LEMMA SumUnfolds ==
    ASSUME NEW f, NEW S
    PROVE  \E g : /\ g = CHOOSE h : IsSumOver(h, f, SUBSET S)
                  /\ SumFunctionOnSet(f, S) = g[S]
BY Zenon DEF SumFunctionOnSet, FoldFunctionOnSet, MapThenFoldSet, IsSumOver, Chosen

LEMMA SumExists ==
    ASSUME NEW f, NEW S, IsFiniteSet(S)
    PROVE  \E g : IsSumOver(g, f, SUBSET S)
<1> DEFINE Small(n) == {s \in SUBSET S : Cardinality(s) <= n}
           T == {n \in Nat : \E g : IsSumOver(g, f, Small(n))}
<1>1. \A s \in SUBSET S : IsFiniteSet(s) /\ Cardinality(s) \in Nat
  BY FS_Subset, FS_CardinalityType
<1>2. \A s \in SUBSET S : s # {} =>
        /\ s \ {Chosen(s)} \in SUBSET S
        /\ Cardinality(s \ {Chosen(s)}) = Cardinality(s) - 1
  BY <1>1, FS_RemoveElement DEF Chosen
<1>3. 0 \in T
  <2>1. \A s \in Small(0) : s = {}
    BY <1>1, FS_EmptySet
  <2>2. IsSumOver([s \in Small(0) |-> 0], f, Small(0))
    BY <2>1 DEF IsSumOver
  <2> QED BY <2>2
<1>4. ASSUME NEW n \in Nat, n \in T
      PROVE  n + 1 \in T
  <2>1. PICK g : IsSumOver(g, f, Small(n))
    BY <1>4
  <2> DEFINE h == [s \in Small(n + 1) |->
                     IF s \in Small(n) THEN g[s] ELSE f[Chosen(s)] + g[s \ {Chosen(s)}]]
  <2>2. \A s \in Small(n + 1) : s # {} => s \ {Chosen(s)} \in Small(n)
    BY <1>1, <1>2
  <2>3. Small(n) \subseteq Small(n + 1) /\ {} \in Small(n)
    BY <1>1, FS_EmptySet
  <2>4. \A s \in Small(n + 1) :
          h[s] = IF s = {} THEN 0 ELSE f[Chosen(s)] + h[s \ {Chosen(s)}]
    BY <2>1, <2>2, <2>3 DEF IsSumOver
  <2>5. IsSumOver(h, f, Small(n + 1))
    BY <2>4 DEF IsSumOver
  <2> HIDE DEF h, Small
  <2> QED BY <2>5
<1>5. Nat \subseteq T
  <2> HIDE DEF T
  <2> QED BY <1>3, <1>4, NatInductionOnSet
<1>6. \A s \in SUBSET S : Cardinality(s) <= Cardinality(S)
  BY FS_Subset
<1>7. Small(Cardinality(S)) = SUBSET S /\ Cardinality(S) \in T
  BY <1>1, <1>5, <1>6
<1> QED BY <1>7

\* A sum as a function of the set, for all subsets of a finite set at once.
LEMMA SumFunctionExists ==
    ASSUME NEW f, NEW S, IsFiniteSet(S)
    PROVE  \E g : /\ IsSumOver(g, f, SUBSET S)
                  /\ \A A \in SUBSET S : SumFunctionOnSet(f, A) = g[A]
<1>1. PICK g : IsSumOver(g, f, SUBSET S)
  BY SumExists
<1>2. ASSUME NEW A \in SUBSET S
      PROVE  SumFunctionOnSet(f, A) = g[A]
  <2>1. \A s \in SUBSET A : IsFiniteSet(s) /\ Cardinality(s) \in Nat
    BY FS_Subset, FS_CardinalityType
  <2>2. \A s \in SUBSET A : s # {} =>
          /\ s \ {Chosen(s)} \in SUBSET A
          /\ Cardinality(s \ {Chosen(s)}) = Cardinality(s) - 1
    BY <2>1, FS_RemoveElement DEF Chosen
  <2>3. PICK h : /\ h = CHOOSE k : IsSumOver(k, f, SUBSET A)
                 /\ SumFunctionOnSet(f, A) = h[A]
    BY SumUnfolds
  <2>4. IsSumOver(h, f, SUBSET A)
    <3>1. \E k : IsSumOver(k, f, SUBSET A)
      BY <2>1, SumExists
    <3> QED BY <2>3, <3>1
  <2> DEFINE T == {n \in Nat : \A s \in SUBSET A : Cardinality(s) <= n => h[s] = g[s]}
  <2>5. \A s \in SUBSET A :
          /\ h[s] = IF s = {} THEN 0 ELSE f[Chosen(s)] + h[s \ {Chosen(s)}]
          /\ g[s] = IF s = {} THEN 0 ELSE f[Chosen(s)] + g[s \ {Chosen(s)}]
    BY <1>1, <2>4 DEF IsSumOver
  <2>6. 0 \in T
    <3>1. \A s \in SUBSET A : Cardinality(s) <= 0 => s = {}
      BY <2>1, FS_EmptySet
    <3> QED BY <2>5, <3>1
  <2>7. ASSUME NEW n \in Nat, n \in T
        PROVE  n + 1 \in T
    <3>1. ASSUME NEW s \in SUBSET A, Cardinality(s) <= n + 1
          PROVE  h[s] = g[s]
      <4>1. CASE s = {}
        BY <2>5, <4>1
      <4>2. CASE s # {}
        <5>1. /\ s \ {Chosen(s)} \in SUBSET A
              /\ Cardinality(s \ {Chosen(s)}) <= n
          BY <2>1, <2>2, <3>1, <4>2
        <5>2. h[s \ {Chosen(s)}] = g[s \ {Chosen(s)}]
          BY <2>7, <5>1
        <5> QED BY <2>5, <4>2, <5>2
      <4> QED BY <4>1, <4>2
    <3> QED BY <3>1
  <2>8. Cardinality(A) \in T /\ Cardinality(A) <= Cardinality(A)
    <3>1. Nat \subseteq T
      <4> HIDE DEF T
      <4> QED BY <2>6, <2>7, NatInductionOnSet
    <3> QED BY <2>1, <3>1
  <2> QED BY <2>3, <2>8
<1> QED BY <1>1, <1>2

-------------------------------------------------------------------------------
(* What a sum is.                                                          *)

LEMMA SumEmpty ==
    ASSUME NEW f
    PROVE  SumFunctionOnSet(f, {}) = 0
<1>1. IsFiniteSet({})
  BY FS_EmptySet
<1>2. PICK g : /\ IsSumOver(g, f, SUBSET {})
               /\ \A A \in SUBSET {} : SumFunctionOnSet(f, A) = g[A]
  BY <1>1, SumFunctionExists
<1> QED BY <1>2 DEF IsSumOver

\* Any element may be taken out first.
LEMMA SumTakesAny ==
    ASSUME NEW f, NEW S, IsFiniteSet(S), \A x \in S : f[x] \in Nat
    PROVE  /\ SumFunctionOnSet(f, S) \in Nat
           /\ \A x \in S : SumFunctionOnSet(f, S) = f[x] + SumFunctionOnSet(f, S \ {x})
<1>1. PICK g : /\ IsSumOver(g, f, SUBSET S)
               /\ \A A \in SUBSET S : SumFunctionOnSet(f, A) = g[A]
  BY SumFunctionExists
<1>2. \A s \in SUBSET S : IsFiniteSet(s) /\ Cardinality(s) \in Nat
  BY FS_Subset, FS_CardinalityType
<1>3. \A s \in SUBSET S : \A x \in s :
        /\ s \ {x} \in SUBSET S
        /\ Cardinality(s \ {x}) = Cardinality(s) - 1
  BY <1>2, FS_RemoveElement
<1>4. \A s \in SUBSET S :
        g[s] = IF s = {} THEN 0 ELSE f[Chosen(s)] + g[s \ {Chosen(s)}]
  BY <1>1 DEF IsSumOver
<1> DEFINE Right(s) == g[s] \in Nat /\ \A x \in s : g[s] = f[x] + g[s \ {x}]
           T == {n \in Nat : \A s \in SUBSET S : Cardinality(s) <= n => Right(s)}
<1>5. 0 \in T
  <2>1. \A s \in SUBSET S : Cardinality(s) <= 0 => s = {}
    BY <1>2, FS_EmptySet
  <2>2. {} \in SUBSET S /\ g[{}] = 0
    BY <1>4
  <2>3. Right({})
    BY <2>2
  <2> HIDE DEF Right
  <2> QED BY <2>1, <2>3
<1>6. ASSUME NEW n \in Nat, n \in T
      PROVE  n + 1 \in T
  <2>1. ASSUME NEW s \in SUBSET S, Cardinality(s) <= n + 1, s # {}
        PROVE  Right(s)
    <3> DEFINE c == Chosen(s)
    <3>1. c \in s /\ f[c] \in Nat
      BY <2>1 DEF Chosen
    <3>2. g[s] = f[c] + g[s \ {c}]
      BY <1>4, <2>1
    <3> HIDE DEF c
    <3>3. \A x \in s : s \ {x} \in SUBSET S /\ Cardinality(s \ {x}) <= n
      BY <1>2, <1>3, <2>1
    <3>4. \A x \in s : Right(s \ {x})
      BY <1>6, <3>3
    <3>5. g[s \ {c}] \in Nat /\ g[s] \in Nat
      <4>1. g[s \ {c}] \in Nat
        BY <3>1, <3>4
      <4> QED BY <3>1, <3>2, <4>1
    <3>6. ASSUME NEW x \in s, x # c
          PROVE  g[s] = f[x] + g[s \ {x}]
      <4>1. g[s \ {c}] = f[x] + g[(s \ {c}) \ {x}]
        BY <3>1, <3>4, <3>6
      <4>2. g[s \ {x}] = f[c] + g[(s \ {x}) \ {c}]
        BY <3>1, <3>4, <3>6
      <4>3. (s \ {c}) \ {x} = (s \ {x}) \ {c}
        OBVIOUS
      <4>4. g[(s \ {x}) \ {c}] \in Nat /\ f[x] \in Nat
        <5>1. s \ {x} \in SUBSET S /\ c \in s \ {x} /\ Cardinality(s \ {x}) <= n
          BY <3>1, <3>3, <3>6
        <5>2. /\ (s \ {x}) \ {c} \in SUBSET S
              /\ Cardinality((s \ {x}) \ {c}) = Cardinality(s \ {x}) - 1
          BY <1>3, <5>1
        <5>3. Cardinality(s \ {x}) \in Nat
          BY <1>2, <5>1
        <5>4. Right((s \ {x}) \ {c})
          <6>1. Cardinality((s \ {x}) \ {c}) <= n
            BY <5>1, <5>2, <5>3
          <6> HIDE DEF Right
          <6> QED BY <1>6, <5>2, <6>1
        <5> QED BY <5>4, <3>6
      <4>5. g[s] = f[c] + (f[x] + g[(s \ {x}) \ {c}])
        BY <3>2, <4>1, <4>3
      <4> QED BY <3>1, <4>2, <4>4, <4>5
    <3> QED BY <3>2, <3>5, <3>6
  <2>2. ASSUME NEW s \in SUBSET S, s = {}
        PROVE  Right(s)
    <3>1. g[s] = 0
      BY <1>4, <2>2
    <3> QED BY <2>2, <3>1
  <2> HIDE DEF Right
  <2> QED BY <2>1, <2>2
<1>7. Nat \subseteq T
  <2> HIDE DEF T
  <2> QED BY <1>5, <1>6, NatInductionOnSet
<1>8. Right(S)
  BY <1>2, <1>7
<1> QED BY <1>1, <1>8

LEMMA SumAdds ==
    ASSUME NEW f, NEW S, IsFiniteSet(S), NEW x, x \notin S,
           \A y \in S \union {x} : f[y] \in Nat
    PROVE  SumFunctionOnSet(f, S \union {x}) = f[x] + SumFunctionOnSet(f, S)
<1>1. IsFiniteSet(S \union {x}) /\ (S \union {x}) \ {x} = S
  BY FS_AddElement
<1>2. x \in S \union {x}
  OBVIOUS
<1> DEFINE U == S \union {x}
<1>3. SumFunctionOnSet(f, U) = f[x] + SumFunctionOnSet(f, U \ {x})
  <2> HIDE DEF U
  <2>1. x \in U /\ IsFiniteSet(U) /\ \A y \in U : f[y] \in Nat
    BY <1>1, <1>2 DEF U
  <2> QED BY <2>1, SumTakesAny
<1> QED BY <1>1, <1>3

\* Functions with the same values have the same sum.
LEMMA SumSame ==
    ASSUME NEW f, NEW g, NEW S, IsFiniteSet(S),
           \A x \in S : f[x] \in Nat /\ g[x] = f[x]
    PROVE  SumFunctionOnSet(g, S) = SumFunctionOnSet(f, S)
<1> DEFINE T == {A \in SUBSET S : SumFunctionOnSet(g, A) = SumFunctionOnSet(f, A)}
<1>1. {} \in T
  BY SumEmpty
<1>2. ASSUME NEW A \in SUBSET S, A \in T, NEW x \in S \ A
      PROVE  A \union {x} \in T
  <2>1. IsFiniteSet(A) /\ x \notin A
    BY FS_Subset
  <2>2. SumFunctionOnSet(f, A \union {x}) = f[x] + SumFunctionOnSet(f, A)
    BY <2>1, SumAdds
  <2>3. SumFunctionOnSet(g, A \union {x}) = g[x] + SumFunctionOnSet(g, A)
    BY <2>1, SumAdds
  <2> QED BY <1>2, <2>2, <2>3
<1>3. S \in T
  <2> HIDE DEF T
  <2> QED BY <1>1, <1>2, FiniteSetInduction
<1> QED BY <1>3

\* The sum over two disjoint sets.
LEMMA SumOfUnion ==
    ASSUME NEW f, NEW A, NEW B, IsFiniteSet(A), IsFiniteSet(B), A \cap B = {},
           \A x \in A \union B : f[x] \in Nat
    PROVE  SumFunctionOnSet(f, A \union B) = SumFunctionOnSet(f, A) + SumFunctionOnSet(f, B)
<1> DEFINE T == {C \in SUBSET B :
                  SumFunctionOnSet(f, A \union C)
                    = SumFunctionOnSet(f, A) + SumFunctionOnSet(f, C)}
<1>1. SumFunctionOnSet(f, A) \in Nat
  BY SumTakesAny
<1>2. {} \in T
  <2>1. SumFunctionOnSet(f, A) + 0 = SumFunctionOnSet(f, A) /\ A \union {} = A
    BY <1>1
  <2> QED BY <2>1, SumEmpty
<1>3. ASSUME NEW C \in SUBSET B, C \in T, NEW x \in B \ C
      PROVE  C \union {x} \in T
  <2> DEFINE U == A \union C
  <2>1. IsFiniteSet(C) /\ IsFiniteSet(U)
    BY FS_Subset, FS_Union
  <2>2. x \notin C /\ x \notin U /\ f[x] \in Nat /\ A \union (C \union {x}) = U \union {x}
    OBVIOUS
  <2>3. SumFunctionOnSet(f, C \union {x}) = f[x] + SumFunctionOnSet(f, C)
    BY <2>1, <2>2, SumAdds
  <2>4. SumFunctionOnSet(f, U \union {x}) = f[x] + SumFunctionOnSet(f, U)
    <3>1. \A y \in U \union {x} : f[y] \in Nat
      OBVIOUS
    <3> HIDE DEF U
    <3> QED BY <2>1, <2>2, <3>1, SumAdds
  <2>5. SumFunctionOnSet(f, C) \in Nat
    BY <2>1, SumTakesAny
  <2>6. SumFunctionOnSet(f, U) = SumFunctionOnSet(f, A) + SumFunctionOnSet(f, C)
    BY <1>3
  <2>7. SumFunctionOnSet(f, A \union (C \union {x}))
          = SumFunctionOnSet(f, A) + SumFunctionOnSet(f, C \union {x})
    <3> HIDE DEF U
    <3> QED BY <1>1, <2>2, <2>3, <2>4, <2>5, <2>6
  <2> QED BY <2>7
<1>4. B \in T
  <2> HIDE DEF T
  <2> QED BY <1>2, <1>3, FiniteSetInduction
<1> QED BY <1>4

\* One value changes.
LEMMA SumChanges ==
    ASSUME NEW f, NEW g, NEW S, IsFiniteSet(S), NEW x \in S,
           \A y \in S : f[y] \in Nat /\ g[y] \in Nat,
           \A y \in S \ {x} : g[y] = f[y]
    PROVE  SumFunctionOnSet(g, S) + f[x] = SumFunctionOnSet(f, S) + g[x]
<1>1. IsFiniteSet(S \ {x})
  BY FS_RemoveElement
<1>2. SumFunctionOnSet(g, S \ {x}) = SumFunctionOnSet(f, S \ {x})
  BY <1>1, SumSame
<1>3. SumFunctionOnSet(f, S \ {x}) \in Nat
  BY <1>1, SumTakesAny
<1>4. /\ SumFunctionOnSet(f, S) = f[x] + SumFunctionOnSet(f, S \ {x})
      /\ SumFunctionOnSet(g, S) = g[x] + SumFunctionOnSet(g, S \ {x})
  BY SumTakesAny
<1>5. f[x] \in Nat /\ g[x] \in Nat
  OBVIOUS
<1> QED BY <1>2, <1>3, <1>4, <1>5

\* The sum of the sums of two functions.
LEMMA SumOfSums ==
    ASSUME NEW f, NEW g, NEW h, NEW S, IsFiniteSet(S),
           \A x \in S : f[x] \in Nat /\ g[x] \in Nat /\ h[x] = f[x] + g[x]
    PROVE  SumFunctionOnSet(h, S) = SumFunctionOnSet(f, S) + SumFunctionOnSet(g, S)
<1> DEFINE T == {A \in SUBSET S :
                  SumFunctionOnSet(h, A) = SumFunctionOnSet(f, A) + SumFunctionOnSet(g, A)}
<1>1. {} \in T
  BY SumEmpty
<1>2. ASSUME NEW A \in SUBSET S, A \in T, NEW x \in S \ A
      PROVE  A \union {x} \in T
  <2>1. IsFiniteSet(A) /\ x \notin A
    BY FS_Subset
  <2>2. /\ SumFunctionOnSet(f, A \union {x}) = f[x] + SumFunctionOnSet(f, A)
        /\ SumFunctionOnSet(g, A \union {x}) = g[x] + SumFunctionOnSet(g, A)
    BY <2>1, SumAdds
  <2>3. SumFunctionOnSet(h, A \union {x}) = h[x] + SumFunctionOnSet(h, A)
    <3>1. \A y \in A \union {x} : h[y] \in Nat
      OBVIOUS
    <3> QED BY <2>1, <3>1, SumAdds
  <2>4. SumFunctionOnSet(f, A) \in Nat /\ SumFunctionOnSet(g, A) \in Nat
    BY <2>1, SumTakesAny
  <2>5. SumFunctionOnSet(h, A) = SumFunctionOnSet(f, A) + SumFunctionOnSet(g, A)
    BY <1>2
  <2>6. f[x] \in Nat /\ g[x] \in Nat /\ h[x] = f[x] + g[x]
    OBVIOUS
  <2>7. SumFunctionOnSet(h, A \union {x})
          = SumFunctionOnSet(f, A \union {x}) + SumFunctionOnSet(g, A \union {x})
    BY <2>2, <2>3, <2>4, <2>5, <2>6
  <2> QED BY <2>7
<1>3. S \in T
  <2> HIDE DEF T
  <2> QED BY <1>1, <1>2, FiniteSetInduction
<1> QED BY <1>3

\* A function that is zero everywhere.
LEMMA SumOfZeros ==
    ASSUME NEW f, NEW S, IsFiniteSet(S), \A x \in S : f[x] = 0
    PROVE  SumFunctionOnSet(f, S) = 0
<1>1. SumFunctionOnSet(f, S) = SumFunctionOnSet(f, S) + SumFunctionOnSet(f, S)
  <2>1. \A x \in S : f[x] \in Nat /\ f[x] = f[x] + f[x]
    OBVIOUS
  <2> QED BY <2>1, SumOfSums
<1>2. SumFunctionOnSet(f, S) \in Nat
  BY SumTakesAny
<1>3. \A n \in Nat : n = n + n => n = 0
  OBVIOUS
<1> QED BY <1>1, <1>2, <1>3

\* A sequence that has one number more than another.
LEMMA SumGrows ==
    ASSUME NEW s \in Seq(Nat), NEW n \in Nat,
           NEW t, DOMAIN t = 1 .. (Len(s) + 1), t[Len(s) + 1] = n,
           \A k \in 1 .. Len(s) : t[k] = s[k]
    PROVE  /\ SumFunction(s) \in Nat
           /\ SumFunction(t) = SumFunction(s) + n
<1>1. Len(s) \in Nat /\ DOMAIN s = 1 .. Len(s) /\ \A k \in 1 .. Len(s) : s[k] \in Nat
  BY LenProperties, ElementOfSeq
<1>2. /\ DOMAIN t = 1 .. (Len(s) + 1) /\ t[Len(s) + 1] = n
      /\ \A k \in 1 .. Len(s) : t[k] = s[k]
  OBVIOUS
<1>3. 1 .. (Len(s) + 1) = 1 .. Len(s) \union {Len(s) + 1} /\ Len(s) + 1 \notin 1 .. Len(s)
  BY <1>1
<1>4. IsFiniteSet(1 .. Len(s))
  BY <1>1, FS_Interval
<1>5. SumFunctionOnSet(s, 1 .. Len(s)) \in Nat
  BY <1>1, <1>4, SumTakesAny
<1>6. SumFunctionOnSet(t, 1 .. Len(s)) = SumFunctionOnSet(s, 1 .. Len(s))
  BY <1>1, <1>2, <1>4, SumSame
<1>7. \A k \in 1 .. Len(s) \union {Len(s) + 1} : t[k] \in Nat
  BY <1>1, <1>2, <1>3
<1>8. SumFunctionOnSet(t, 1 .. Len(s) \union {Len(s) + 1})
        = t[Len(s) + 1] + SumFunctionOnSet(t, 1 .. Len(s))
  BY <1>3, <1>4, <1>7, SumAdds
<1>9. SumFunction(t) = n + SumFunctionOnSet(s, 1 .. Len(s))
  BY <1>2, <1>3, <1>6, <1>8 DEF SumFunction
<1> QED BY <1>1, <1>5, <1>9 DEF SumFunction

-------------------------------------------------------------------------------
(* Remainders.                                                             *)

LEMMA DivMod ==
    ASSUME NEW m \in Nat \ {0}, NEW a \in Nat
    PROVE  /\ a \div m \in Nat /\ a % m \in 0 .. m - 1
           /\ a = m * (a \div m) + (a % m)
BY SMTT(30)

\* There is one way to divide with a remainder.
LEMMA DivModUnique ==
    ASSUME NEW m \in Nat \ {0},
           NEW p \in Int, NEW q \in Int, NEW r \in 0 .. m - 1, NEW s \in 0 .. m - 1,
           m * p + r = m * q + s
    PROVE  r = s
<1> DEFINE d == p - q
<1>1. d \in Int /\ m * d = s - r
  OBVIOUS
<1>2. s - r < m /\ s - r > -m
  OBVIOUS
<1> HIDE DEF d
<1>3. d >= 1 => m * d >= m
  BY <1>1
<1>4. d <= -1 => m * d <= -m
  BY <1>1
<1>5. d = 0
  BY <1>1, <1>2, <1>3, <1>4
<1> QED BY <1>1, <1>5

LEMMA ModAdd ==
    ASSUME NEW m \in Nat \ {0}, NEW a \in Nat, NEW b \in Nat
    PROVE  (a + (b % m)) % m = (a + b) % m
<1> DEFINE q == b \div m
           r == b % m
           p == (a + r) \div m
           s == (a + r) % m
           u == (a + b) \div m
           v == (a + b) % m
<1>1. q \in Nat /\ r \in Nat /\ b = m * q + r
  BY DivMod
<1> HIDE DEF q, r
<1>2. p \in Nat /\ s \in 0 .. m - 1 /\ a + r = m * p + s
  <2>1. a + r \in Nat
    BY <1>1
  <2> QED BY <2>1, DivMod
<1>3. u \in Nat /\ v \in 0 .. m - 1 /\ a + b = m * u + v
  <2>1. a + b \in Nat
    OBVIOUS
  <2> QED BY <2>1, DivMod
<1> HIDE DEF p, s, u, v
<1>4. m * (p + q) + s = m * u + v /\ p + q \in Int /\ u \in Int
  BY <1>1, <1>2, <1>3
<1>5. s = v
  BY <1>2, <1>3, <1>4, DivModUnique
<1> QED BY <1>5 DEF r, s, v

LEMMA ModSame ==
    ASSUME NEW m \in Nat \ {0}, NEW a \in Nat, NEW b \in Nat, a % m = b % m,
           NEW c \in Nat
    PROVE  (a + c) % m = (b + c) % m
<1>1. (c + (a % m)) % m = (c + a) % m
  BY ModAdd
<1>2. (c + (b % m)) % m = (c + b) % m
  BY ModAdd
<1>3. c + a = a + c /\ c + b = b + c
  OBVIOUS
<1>4. (c + (a % m)) % m = (c + (b % m)) % m
  OBVIOUS
<1> QED BY <1>1, <1>2, <1>3, <1>4, Zenon

-------------------------------------------------------------------------------
(* The calls of FlowCache.                                                 *)

CacheType(K, c) ==
    /\ c = [m_cacheMap |-> c.m_cacheMap, m_cacheList |-> c.m_cacheList]
    /\ c.m_cacheMap \in [Keyed(c) -> Nat]
    /\ Keyed(c) \subseteq K
    /\ c.m_cacheList \in Seq(Node(K))

Nodes(c) == {c.m_cacheList[i] : i \in 1 .. Len(c.m_cacheList)}

\* The oldest node expires first.
Sorted(c) ==
    \A i, j \in 1 .. Len(c.m_cacheList) :
        i <= j => c.m_cacheList[i].expire <= c.m_cacheList[j].expire

-------------------------------------------------------------------------------
LEMMA RemoveAtProperties ==
    ASSUME NEW S, NEW s \in Seq(S), NEW i \in 1 .. Len(s)
    PROVE  /\ RemoveAt(s, i) \in Seq(S)
           /\ Len(RemoveAt(s, i)) = Len(s) - 1
           /\ \A j \in 1 .. Len(s) - 1 :
                RemoveAt(s, i)[j] = IF j < i THEN s[j] ELSE s[j + 1]
<1> DEFINE a == SubSeq(s, 1, i - 1)
           b == SubSeq(s, i + 1, Len(s))
<1>1. Len(s) \in Nat /\ i \in Nat /\ i >= 1 /\ i <= Len(s)
  BY LenProperties
<1>2. /\ a \in Seq(S) /\ Len(a) = i - 1
      /\ \A j \in 1 .. i - 1 : a[j] = s[j]
  <2>1. i - 1 \in 1 - 1 .. Len(s)
    BY <1>1
  <2> QED BY <1>1, <2>1, SubSeqProperties
<1>3. /\ b \in Seq(S) /\ Len(b) = Len(s) - i
      /\ \A j \in 1 .. Len(s) - i : b[j] = s[i + j]
  <2>1. i + 1 \in 1 .. Len(s) + 1 /\ Len(s) \in (i + 1) - 1 .. Len(s)
    BY <1>1
  <2> QED BY <1>1, <2>1, SubSeqProperties
<1>4. RemoveAt(s, i) = a \o b
  BY DEF RemoveAt
<1> HIDE DEF a, b
<1>5. /\ a \o b \in Seq(S) /\ Len(a \o b) = Len(s) - 1
  <2>1. Len(a) + Len(b) = Len(s) - 1
    BY <1>1, <1>2, <1>3
  <2>2. a \o b \in Seq(S) /\ Len(a \o b) = Len(a) + Len(b)
    BY <1>2, <1>3, ConcatProperties
  <2> QED BY <2>1, <2>2
<1>6. ASSUME NEW j \in 1 .. Len(s) - 1
      PROVE  (a \o b)[j] = IF j < i THEN s[j] ELSE s[j + 1]
  <2>1. (a \o b)[j] = IF j <= Len(a) THEN a[j] ELSE b[j - Len(a)]
    BY <1>1, <1>2, <1>3, ConcatProperties
  <2>2. CASE j < i
    BY <1>1, <1>2, <2>1, <2>2
  <2>3. CASE ~ (j < i)
    BY <1>1, <1>2, <1>3, <2>1, <2>3
  <2> QED BY <2>2, <2>3
<1> QED BY <1>4, <1>5, <1>6

LEMMA EmptyCacheProperties ==
    ASSUME NEW K
    PROVE  /\ CacheType(K, EmptyCache)
           /\ CacheConsistent(EmptyCache)
           /\ Keyed(EmptyCache) = {}
           /\ Nodes(EmptyCache) = {}
           /\ Sorted(EmptyCache)
<1>1. Len(<<>>) = 0 /\ 1 .. 0 = {} /\ DOMAIN <<>> = {} /\ <<>> \in [{} -> Nat]
  OBVIOUS
<1> QED BY <1>1 DEF CacheType, EmptyCache, CacheConsistent, Nodes, Sorted, Keyed

\* One more address than there are nodes, so one of them is free.
LEMMA FreeAddrProperties ==
    ASSUME NEW K, NEW list \in Seq(Node(K))
    PROVE  /\ FreeAddr(list) \in Nat
           /\ \A i \in 1 .. Len(list) : list[i].addr # FreeAddr(list)
<1> DEFINE places == 1 .. Len(list)
           addrs  == 1 .. Len(list) + 1
           Free(a) == \A i \in places : list[i].addr # a
<1>1. Len(list) \in Nat
  BY LenProperties
<1>2. ASSUME \A a \in addrs : ~ Free(a)
      PROVE  FALSE
  <2> DEFINE at == [a \in addrs |-> CHOOSE i \in places : list[i].addr = a]
  <2>1. ASSUME NEW a \in addrs
        PROVE  at[a] \in places /\ list[at[a]].addr = a
    <3>1. \E i \in places : list[i].addr = a
      BY <1>2
    <3> QED BY <3>1
  <2>2. at \in [addrs -> places]
    BY <2>1
  <2>3. /\ IsFiniteSet(places) /\ Cardinality(places) = Len(list)
        /\ IsFiniteSet(addrs) /\ Cardinality(addrs) = Len(list) + 1
    <3>1. /\ IsFiniteSet(places)
          /\ Cardinality(places) = IF 1 > Len(list) THEN 0 ELSE Len(list) - 1 + 1
      BY <1>1, FS_Interval
    <3>2. /\ IsFiniteSet(addrs)
          /\ Cardinality(addrs) =
               IF 1 > Len(list) + 1 THEN 0 ELSE Len(list) + 1 - 1 + 1
      BY <1>1, FS_Interval
    <3> HIDE DEF places, addrs
    <3> QED BY <1>1, <3>1, <3>2
  <2>4. Cardinality(places) < Cardinality(addrs)
    <3> HIDE DEF places, addrs
    <3> QED BY <1>1, <2>3
  <2> HIDE DEF at, places, addrs
  <2>5. \E a, b \in addrs : a # b /\ at[a] = at[b]
    BY <2>2, <2>3, <2>4, FS_PigeonHole
  <2> QED BY <2>1, <2>5
<1>3. PICK a \in addrs : Free(a)
  BY <1>2
<1>4. FreeAddr(list) \in addrs /\ Free(FreeAddr(list))
  BY <1>3 DEF FreeAddr
<1> QED BY <1>1, <1>4

LEMMA InsertProperties ==
    ASSUME NEW K, NEW c, CacheType(K, c), CacheConsistent(c),
           NEW k \in K, ~ Count(c, k), NEW e \in Nat
    PROVE  /\ CacheType(K, Insert(c, k, e))
           /\ CacheConsistent(Insert(c, k, e))
           /\ Keyed(Insert(c, k, e)) = Keyed(c) \union {k}
           /\ Nodes(Insert(c, k, e)) = Nodes(c) \union {NewNode(c.m_cacheList, k, e)}
           /\ Sorted(c) /\ (\A x \in Nodes(c) : x.expire <= e) =>
                Sorted(Insert(c, k, e))
<1> DEFINE l == c.m_cacheList
           n == NewNode(l, k, e)
           m == Append(l, n)
           t == Store(c.m_cacheMap, k, n.addr)
           d == Insert(c, k, e)
<1>1. l \in Seq(Node(K)) /\ Len(l) \in Nat
  BY LenProperties DEF CacheType
<1>2. /\ n \in Node(K) /\ n.key = k /\ n.expire = e /\ n.addr \in Nat
      /\ \A i \in 1 .. Len(l) : l[i].addr # n.addr
  BY <1>1, FreeAddrProperties DEF NewNode, Node
<1> HIDE DEF n
<1>3. /\ m \in Seq(Node(K)) /\ Len(m) = Len(l) + 1
      /\ \A i \in 1 .. Len(l) : m[i] = l[i]
      /\ m[Len(l) + 1] = n
  BY <1>1, <1>2, AppendProperties
<1>4. d = [m_cacheMap |-> t, m_cacheList |-> m]
  BY DEF Insert, n
<1>5. /\ DOMAIN t = Keyed(c) \union {k} /\ t \in [Keyed(c) \union {k} -> Nat]
      /\ t[k] = n.addr /\ \A g \in Keyed(c) : t[g] = c.m_cacheMap[g]
  BY <1>2 DEF Store, Keyed, Count, CacheType
<1> HIDE DEF m, t, d
<1>6. d.m_cacheMap = t /\ d.m_cacheList = m /\ Keyed(d) = Keyed(c) \union {k}
  BY <1>4, <1>5 DEF Keyed
<1>7. \A i \in 1 .. Len(m) : i \in 1 .. Len(l) \/ i = Len(l) + 1
  BY <1>1, <1>3
<1>8. \A i \in 1 .. Len(l) : i \in 1 .. Len(m) /\ l[i].key \in Keyed(c) /\ l[i].key # k
  BY <1>1, <1>3 DEF CacheConsistent, Count
<1>9. Len(l) + 1 \in 1 .. Len(m)
  BY <1>1, <1>3
<1>10. CacheType(K, d)
  BY <1>3, <1>4, <1>5, <1>6 DEF CacheType
<1>11. Keyed(d) = {m[i].key : i \in 1 .. Len(m)}
  BY <1>2, <1>3, <1>6, <1>7, <1>8, <1>9, SMTT(30) DEF CacheConsistent
<1>12. \A i, j \in 1 .. Len(m) : m[i].key = m[j].key => i = j
  BY <1>2, <1>3, <1>7, <1>8 DEF CacheConsistent
<1>13. \A i, j \in 1 .. Len(m) : m[i].addr = m[j].addr => i = j
  BY <1>2, <1>3, <1>7 DEF CacheConsistent
<1>14. \A i \in 1 .. Len(m) : t[m[i].key] = m[i].addr
  <2>1. ASSUME NEW i \in 1 .. Len(l)
        PROVE  t[m[i].key] = m[i].addr
    <3>1. c.m_cacheMap[l[i].key] = l[i].addr
      BY DEF CacheConsistent
    <3>2. t[l[i].key] = c.m_cacheMap[l[i].key]
      BY <1>5, <1>8
    <3> QED BY <1>3, <3>1, <3>2
  <2>2. t[m[Len(l) + 1].key] = m[Len(l) + 1].addr
    BY <1>2, <1>3, <1>5
  <2> QED BY <1>7, <2>1, <2>2
<1>15. CacheConsistent(d)
  <2>1. Keyed(d) = {d.m_cacheList[i].key : i \in 1 .. Len(d.m_cacheList)}
    BY <1>6, <1>11
  <2>2. \A i, j \in 1 .. Len(d.m_cacheList) :
          /\ d.m_cacheList[i].key = d.m_cacheList[j].key => i = j
          /\ d.m_cacheList[i].addr = d.m_cacheList[j].addr => i = j
    BY <1>6, <1>12, <1>13
  <2>3. \A i \in 1 .. Len(d.m_cacheList) :
          d.m_cacheMap[d.m_cacheList[i].key] = d.m_cacheList[i].addr
    BY <1>6, <1>14
  <2> QED BY <2>1, <2>2, <2>3 DEF CacheConsistent
<1>16. Nodes(d) = Nodes(c) \union {n}
  BY <1>3, <1>6, <1>7, <1>8, <1>9, SMTT(30) DEF Nodes
<1>17. ASSUME Sorted(c), \A x \in Nodes(c) : x.expire <= e
       PROVE  Sorted(d)
  <2>1. \A i \in 1 .. Len(l) : l[i].expire <= e
    BY <1>17 DEF Nodes
  <2>2. \A i, j \in 1 .. Len(m) : i <= j => m[i].expire <= m[j].expire
    <3> SUFFICES ASSUME NEW i \in 1 .. Len(m), NEW j \in 1 .. Len(m), i <= j
                 PROVE  m[i].expire <= m[j].expire
      OBVIOUS
    <3>1. CASE j \in 1 .. Len(l)
      <4>1. i \in 1 .. Len(l)
        BY <3>1, <1>1, <1>3
      <4> QED BY <3>1, <4>1, <1>3, <1>17 DEF Sorted
    <3>2. CASE j = Len(l) + 1
      <4>1. CASE i \in 1 .. Len(l)
        BY <4>1, <3>2, <2>1, <1>2, <1>3
      <4>2. CASE i = Len(l) + 1
        BY <4>2, <3>2, <1>2, <1>3
      <4> QED BY <4>1, <4>2, <1>7
    <3> QED BY <3>1, <3>2, <1>7
  <2> QED BY <1>6, <2>2 DEF Sorted
<1> QED BY <1>6, <1>10, <1>15, <1>16, <1>17 DEF d, n

LEMMA IterProperties ==
    ASSUME NEW c, CacheConsistent(c), NEW k, Count(c, k)
    PROVE  /\ Iter(c, k) \in 1 .. Len(c.m_cacheList)
           /\ c.m_cacheList[Iter(c, k)].key = k
<1> DEFINE l == c.m_cacheList
<1>1. PICK i \in 1 .. Len(l) : l[i].key = k
  BY DEF CacheConsistent, Count
<1>2. l[i].addr = c.m_cacheMap[k]
  BY <1>1 DEF CacheConsistent
<1>3. Iter(c, k) \in 1 .. Len(l) /\ l[Iter(c, k)].addr = l[i].addr
  BY <1>2 DEF Iter
<1>4. Iter(c, k) = i
  BY <1>3 DEF CacheConsistent
<1> QED BY <1>1, <1>4

LEMMA DeleteProperties ==
    ASSUME NEW K, NEW c, CacheType(K, c), CacheConsistent(c), NEW k, Count(c, k)
    PROVE  /\ CacheType(K, Delete(c, k))
           /\ CacheConsistent(Delete(c, k))
           /\ Keyed(Delete(c, k)) = Keyed(c) \ {k}
           /\ Nodes(Delete(c, k)) = {x \in Nodes(c) : x.key # k}
           /\ Sorted(c) => Sorted(Delete(c, k))
<1> DEFINE l == c.m_cacheList
           p == Iter(c, k)
           m == RemoveAt(l, p)
\* The old place of the node at place j.
           old(j) == IF j < p THEN j ELSE j + 1
<1>1. l \in Seq(Node(K)) /\ Len(l) \in Nat
  BY LenProperties DEF CacheType
<1>2. p \in 1 .. Len(l) /\ l[p].key = k
  BY IterProperties
<1>3. /\ m \in Seq(Node(K)) /\ Len(m) = Len(l) - 1
      /\ \A j \in 1 .. Len(l) - 1 : m[j] = IF j < p THEN l[j] ELSE l[j + 1]
  <2> HIDE DEF p
  <2> QED BY <1>1, <1>2, RemoveAtProperties
<1>4. /\ Delete(c, k) = [m_cacheMap |-> Erase(c.m_cacheMap, k), m_cacheList |-> m]
      /\ Delete(c, k).m_cacheMap = Erase(c.m_cacheMap, k)
      /\ Delete(c, k).m_cacheList = m
      /\ Keyed(Delete(c, k)) = Keyed(c) \ {k}
      /\ Erase(c.m_cacheMap, k) \in [Keyed(c) \ {k} -> Nat]
      /\ \A g \in Keyed(c) \ {k} : Erase(c.m_cacheMap, k)[g] = c.m_cacheMap[g]
  BY DEF Delete, Erase, Keyed, CacheType
<1> HIDE DEF m, p
<1>5. \A j \in 1 .. Len(m) : old(j) \in 1 .. Len(l) /\ old(j) # p /\ m[j] = l[old(j)]
  BY <1>1, <1>2, <1>3
<1>6. \A i, j \in 1 .. Len(m) : (old(i) = old(j) => i = j) /\ (i <= j => old(i) <= old(j))
  BY <1>1, <1>2, <1>3
<1>7. \A i \in 1 .. Len(l) : i # p => \E j \in 1 .. Len(m) : old(j) = i
  <2> SUFFICES ASSUME NEW i \in 1 .. Len(l), i # p
               PROVE  \E j \in 1 .. Len(m) : old(j) = i
    OBVIOUS
  <2>1. CASE i < p
    <3>1. i \in 1 .. Len(m) /\ old(i) = i
      BY <2>1, <1>1, <1>2, <1>3
    <3> QED BY <3>1
  <2>2. CASE i > p
    <3>1. i - 1 \in 1 .. Len(m) /\ old(i - 1) = i
      BY <2>2, <1>1, <1>2, <1>3
    <3> QED BY <3>1
  <2> QED BY <2>1, <2>2, <1>1, <1>2
<1> HIDE DEF old
<1>8. CacheType(K, Delete(c, k))
  BY <1>3, <1>4 DEF CacheType
<1>9. \A i \in 1 .. Len(l) : l[i].key = k => i = p
  BY <1>2 DEF CacheConsistent
<1>10. Keyed(c) \ {k} = {m[i].key : i \in 1 .. Len(m)}
  <2>1. ASSUME NEW x \in Keyed(c) \ {k}
        PROVE  \E j \in 1 .. Len(m) : m[j].key = x
    <3>1. PICK i \in 1 .. Len(l) : l[i].key = x
      BY DEF CacheConsistent
    <3>2. i # p
      BY <3>1, <1>2
    <3> QED BY <3>1, <3>2, <1>5, <1>7
  <2>2. ASSUME NEW j \in 1 .. Len(m)
        PROVE  m[j].key \in Keyed(c) \ {k}
    BY <1>5, <1>9 DEF CacheConsistent
  <2> QED BY <2>1, <2>2
<1>11. \A i, j \in 1 .. Len(m) : m[i].key = m[j].key => i = j
  <2> SUFFICES ASSUME NEW i \in 1 .. Len(m), NEW j \in 1 .. Len(m),
                      m[i].key = m[j].key
               PROVE  i = j
    OBVIOUS
  <2>1. /\ old(i) \in 1 .. Len(l) /\ old(j) \in 1 .. Len(l)
        /\ l[old(i)].key = l[old(j)].key
    BY <1>5
  <2>2. old(i) = old(j)
    BY <2>1 DEF CacheConsistent
  <2> QED BY <2>2, <1>6
<1>12. CacheConsistent(Delete(c, k))
  <2>1. Keyed(Delete(c, k))
          = {Delete(c, k).m_cacheList[i].key : i \in 1 .. Len(Delete(c, k).m_cacheList)}
    BY <1>4, <1>10
  <2>2. \A i, j \in 1 .. Len(Delete(c, k).m_cacheList) :
          Delete(c, k).m_cacheList[i].key = Delete(c, k).m_cacheList[j].key => i = j
    BY <1>4, <1>11
  <2>3. ASSUME NEW i \in 1 .. Len(m), NEW j \in 1 .. Len(m), m[i].addr = m[j].addr
        PROVE  i = j
    <3>1. l[old(i)].addr = l[old(j)].addr
      BY <1>5, <2>3
    <3>2. old(i) = old(j)
      BY <1>5, <3>1 DEF CacheConsistent
    <3> QED BY <1>6, <3>2
  <2>4. ASSUME NEW i \in 1 .. Len(m)
        PROVE  Erase(c.m_cacheMap, k)[m[i].key] = m[i].addr
    <3>1. m[i].key \in Keyed(c) \ {k}
      BY <1>10
    <3>2. m[i] = l[old(i)] /\ old(i) \in 1 .. Len(l)
      BY <1>5
    <3>3. c.m_cacheMap[l[old(i)].key] = l[old(i)].addr
      BY <3>2 DEF CacheConsistent
    <3> QED BY <1>4, <3>1, <3>2, <3>3
  <2> QED BY <1>4, <2>1, <2>2, <2>3, <2>4 DEF CacheConsistent
<1>13. Nodes(Delete(c, k)) = {x \in Nodes(c) : x.key # k}
  <2>1. ASSUME NEW x \in Nodes(c), x.key # k
        PROVE  \E j \in 1 .. Len(m) : m[j] = x
    <3>1. PICK i \in 1 .. Len(l) : l[i] = x
      BY DEF Nodes
    <3> QED BY <2>1, <3>1, <1>2, <1>5, <1>7
  <2>2. ASSUME NEW j \in 1 .. Len(m)
        PROVE  m[j] \in Nodes(c) /\ m[j].key # k
    BY <1>5, <1>9 DEF Nodes
  <2> QED BY <2>1, <2>2, <1>4 DEF Nodes
<1>14. Sorted(c) => Sorted(Delete(c, k))
  <2> SUFFICES ASSUME Sorted(c), NEW i \in 1 .. Len(m), NEW j \in 1 .. Len(m), i <= j
               PROVE  m[i].expire <= m[j].expire
    BY <1>4 DEF Sorted
  <2>1. /\ old(i) \in 1 .. Len(l) /\ old(j) \in 1 .. Len(l) /\ old(i) <= old(j)
        /\ m[i] = l[old(i)] /\ m[j] = l[old(j)]
    BY <1>5, <1>6
  <2> QED BY <2>1 DEF Sorted
<1> QED BY <1>4, <1>8, <1>12, <1>13, <1>14

\* The oldest node's key is in the map.
LEMMA OldestInMap ==
    ASSUME NEW K, NEW c, CacheType(K, c), CacheConsistent(c), Keyed(c) # {}
    PROVE  /\ 1 \in 1 .. Len(c.m_cacheList)
           /\ Head(c.m_cacheList) = c.m_cacheList[1]
           /\ Head(c.m_cacheList).key \in Keyed(c)
<1>1. Len(c.m_cacheList) \in Nat
  BY LenProperties DEF CacheType
<1>2. 1 .. Len(c.m_cacheList) # {}
  BY DEF CacheConsistent
<1>3. 1 \in 1 .. Len(c.m_cacheList)
  BY <1>1, <1>2
<1>4. Head(c.m_cacheList) = c.m_cacheList[1]
  <2>1. c.m_cacheList # <<>>
    BY <1>3
  <2> QED BY <2>1, HeadTailProperties DEF CacheType
<1>5. c.m_cacheList[1].key \in Keyed(c)
  BY <1>3 DEF CacheConsistent
<1> QED BY <1>3, <1>4, <1>5
===============================================================================
