----------------------------- MODULE FiniteSums -----------------------------
(***************************************************************************)
(* What MapThenSumSet computes over a finite set of amounts.  It is        *)
(* defined by recursion along the elements CHOOSE picks, one after the     *)
(* other; these lemmas say that the sum exists, is a natural number, and   *)
(* may be taken apart at any element.  Induction over finite sets takes    *)
(* the form of a smallest counterexample.                                  *)
(***************************************************************************)
EXTENDS Integers, FiniteSetsExt, FiniteSetTheorems, TLAPS

Picked(s) == CHOOSE x \in s : TRUE

\* h gives the sums of the amounts g over the subsets of S.
Sums(h, g, S) ==
    h = [s \in SUBSET S |-> IF s = {} THEN 0 ELSE g[Picked(s)] + h[s \ {Picked(s)}]]

\* Among subsets of a finite set there is one that contains no other.
LEMMA SmallestSet ==
    ASSUME NEW S, IsFiniteSet(S), NEW Q, Q \subseteq SUBSET S, Q # {}
    PROVE  \E s \in Q : \A t \in Q : t \subseteq s => t = s
  <1>1. IsWellFoundedOn(StrictSubsetOrdering(S), SUBSET S)
    BY FS_StrictSubsetOrderingWellFounded, FS_FiniteSubsetsOfFinite
  <1>2. PICK s \in Q : \A t \in Q : <<t, s>> \notin StrictSubsetOrdering(S)
    BY <1>1, WFMin
  <1>3. \A t \in Q : t \subseteq s => t = s
    BY <1>2 DEF StrictSubsetOrdering
  <1> QED BY <1>3

\* The sums over the subsets of S, spelled out.
LEMMA SumsAre ==
    ASSUME NEW S, NEW g, NEW h, Sums(h, g, S)
    PROVE  /\ h[{}] = 0
           /\ \A s \in SUBSET S : s # {} => /\ Picked(s) \in s
                                            /\ s \ {Picked(s)} \in SUBSET S
                                            /\ h[s] = g[Picked(s)] + h[s \ {Picked(s)}]
  BY DEF Sums, Picked

\* They are the same for every h.
LEMMA SumsUnique ==
    ASSUME NEW S, IsFiniteSet(S), NEW g, NEW h, NEW k, Sums(h, g, S), Sums(k, g, S)
    PROVE  \A s \in SUBSET S : h[s] = k[s]
  <1> DEFINE Q == {s \in SUBSET S : h[s] # k[s]}
  <1> SUFFICES ASSUME Q # {} PROVE FALSE
    OBVIOUS
  <1>1. PICK s \in Q : \A t \in Q : t \subseteq s => t = s
    <2>1. Q \subseteq SUBSET S
      OBVIOUS
    <2> HIDE DEF Q
    <2> QED BY <2>1, SmallestSet
  <1>2. s # {}
    BY SumsAre
  <1>3. /\ Picked(s) \in s /\ s \ {Picked(s)} \in SUBSET S
        /\ h[s] = g[Picked(s)] + h[s \ {Picked(s)}]
        /\ k[s] = g[Picked(s)] + k[s \ {Picked(s)}]
    BY <1>2, SumsAre
  <1>4. s \ {Picked(s)} \notin Q
    BY <1>1, <1>3
  <1> QED BY <1>1, <1>3, <1>4

\* Sums over the subsets of S are sums over the subsets of a part of it.
LEMMA SumsRestrict ==
    ASSUME NEW S, NEW T \in SUBSET S, NEW g, NEW h, Sums(h, g, S)
    PROVE  Sums([s \in SUBSET T |-> h[s]], g, T)
  <1> DEFINE k == [s \in SUBSET T |-> h[s]]
  <1>1. ASSUME NEW s \in SUBSET T
        PROVE  h[s] = IF s = {} THEN 0 ELSE g[Picked(s)] + k[s \ {Picked(s)}]
    <2>1. s \in SUBSET S
      OBVIOUS
    <2>2. \A t \in SUBSET T : k[t] = h[t]
      OBVIOUS
    <2> HIDE DEF k
    <2>3. s \ {Picked(s)} \in SUBSET T
      OBVIOUS
    <2>4. h[{}] = 0
      BY SumsAre
    <2>5. s # {} => h[s] = g[Picked(s)] + h[s \ {Picked(s)}]
      BY <2>1, SumsAre
    <2>6. k[s \ {Picked(s)}] = h[s \ {Picked(s)}]
      BY <2>2, <2>3
    <2> QED BY <2>4, <2>5, <2>6
  <1> HIDE DEF k
  <1>2. k = [s \in SUBSET T |-> IF s = {} THEN 0 ELSE g[Picked(s)] + k[s \ {Picked(s)}]]
    BY <1>1 DEF k
  <1> QED BY <1>2 DEF Sums, k

\* There is such an h.
LEMMA SumsExist ==
    ASSUME NEW S, IsFiniteSet(S), NEW g
    PROVE  \E h : Sums(h, g, S)
  <1> DEFINE Q == {T \in SUBSET S : ~\E h : Sums(h, g, T)}
  <1> SUFFICES ASSUME Q # {} PROVE FALSE
    OBVIOUS
  <1>1. PICK T \in Q : \A U \in Q : U \subseteq T => U = T
    <2>1. Q \subseteq SUBSET S
      OBVIOUS
    <2> HIDE DEF Q
    <2> QED BY <2>1, SmallestSet
  <1> DEFINE H(s) == (CHOOSE h : Sums(h, g, s))[s]
             k == [s \in SUBSET T |-> IF s = {} THEN 0 ELSE g[Picked(s)] + H(s \ {Picked(s)})]
  <1>2. ASSUME NEW r \in SUBSET T, r # T
        PROVE  k[r] = H(r)
    <2>1. \E h : Sums(h, g, r)
      BY <1>1, <1>2
    <2>2. PICK h : h = CHOOSE x : Sums(x, g, r)
      OBVIOUS
    <2>3. Sums(h, g, r) /\ H(r) = h[r]
      BY <2>1, <2>2
    <2>4. CASE r = {}
      BY <2>3, <2>4, SumsAre
    <2>5. CASE r # {}
      <3> DEFINE t == r \ {Picked(r)}
      <3>1. t \in SUBSET r /\ t # T /\ t \in SUBSET T /\ h[r] = g[Picked(r)] + h[t]
        <4>1. r \in SUBSET r
          OBVIOUS
        <4>2. Picked(r) \in r /\ h[r] = g[Picked(r)] + h[t]
          BY <2>3, <2>5, <4>1, SumsAre
        <4> QED BY <1>2, <4>2
      <3>2. \E x : Sums(x, g, t)
        BY <1>1, <3>1
      <3>3. PICK x : x = CHOOSE y : Sums(y, g, t)
        OBVIOUS
      <3>4. Sums(x, g, t) /\ H(t) = x[t]
        BY <3>2, <3>3
      <3>5. Sums([s \in SUBSET t |-> h[s]], g, t)
        <4> HIDE DEF t
        <4> QED BY <2>3, <3>1, SumsRestrict
      <3>6. IsFiniteSet(t)
        BY <3>1, FS_Subset
      <3> HIDE DEF H, t
      <3>7. h[t] = x[t]
        <4>1. [s \in SUBSET t |-> h[s]][t] = x[t]
          BY <3>4, <3>5, <3>6, SumsUnique
        <4> QED BY <4>1
      <3>8. k[r] = g[Picked(r)] + H(t)
        BY <2>5 DEF t
      <3> QED BY <2>3, <3>1, <3>4, <3>7, <3>8
    <2> QED BY <2>4, <2>5
  <1>3. ASSUME NEW s \in SUBSET T, s # {}
        PROVE  H(s \ {Picked(s)}) = k[s \ {Picked(s)}]
    <2>1. Picked(s) \in s
      BY <1>3 DEF Picked
    <2>2. s \ {Picked(s)} \in SUBSET T /\ s \ {Picked(s)} # T
      BY <2>1
    <2> HIDE DEF k, H
    <2> QED BY <1>2, <2>2
  <1> HIDE DEF H
  <1>4. k = [s \in SUBSET T |-> IF s = {} THEN 0 ELSE g[Picked(s)] + k[s \ {Picked(s)}]]
    BY <1>3
  <1> HIDE DEF k
  <1>5. Sums(k, g, T)
    BY <1>4 DEF Sums
  <1> QED BY <1>1, <1>5

\* Sums of amounts are amounts.
LEMMA SumsType ==
    ASSUME NEW S, IsFiniteSet(S), NEW g, \A x \in S : g[x] \in Nat, NEW h, Sums(h, g, S)
    PROVE  \A s \in SUBSET S : h[s] \in Nat
  <1> DEFINE Q == {s \in SUBSET S : h[s] \notin Nat}
  <1> SUFFICES ASSUME Q # {} PROVE FALSE
    OBVIOUS
  <1>1. PICK s \in Q : \A t \in Q : t \subseteq s => t = s
    <2>1. Q \subseteq SUBSET S
      OBVIOUS
    <2> HIDE DEF Q
    <2> QED BY <2>1, SmallestSet
  <1>2. s # {}
    BY SumsAre
  <1>3. /\ Picked(s) \in s /\ s \ {Picked(s)} \in SUBSET S
        /\ h[s] = g[Picked(s)] + h[s \ {Picked(s)}]
    BY <1>2, SumsAre
  <1>4. h[s \ {Picked(s)}] \in Nat
    BY <1>1, <1>3
  <1> QED BY <1>1, <1>3, <1>4

\* Any element may be taken out first.
LEMMA SumsApart ==
    ASSUME NEW S, IsFiniteSet(S), NEW g, \A x \in S : g[x] \in Nat, NEW h, Sums(h, g, S)
    PROVE  \A s \in SUBSET S : \A x \in s : h[s] = g[x] + h[s \ {x}]
  <1> DEFINE Q == {s \in SUBSET S : ~\A x \in s : h[s] = g[x] + h[s \ {x}]}
  <1> SUFFICES ASSUME Q # {} PROVE FALSE
    OBVIOUS
  <1>1. PICK s \in Q : \A t \in Q : t \subseteq s => t = s
    <2>1. Q \subseteq SUBSET S
      OBVIOUS
    <2> HIDE DEF Q
    <2> QED BY <2>1, SmallestSet
  <1>2. PICK x \in s : h[s] # g[x] + h[s \ {x}]
    OBVIOUS
  <1> DEFINE p == Picked(s)
             both == s \ {x, p}
  <1>3. p \in s /\ h[s] = g[p] + h[s \ {p}]
    BY <1>1, SumsAre
  <1>4. x # p
    BY <1>2, <1>3
  <1>5. s \ {p} \in SUBSET S /\ s \ {x} \in SUBSET S /\ s \ {p} # s /\ s \ {x} # s
    BY <1>1, <1>3
  <1>6. s \ {p} \notin Q /\ s \ {x} \notin Q
    BY <1>1, <1>5
  <1>7. x \in s \ {p} /\ p \in s \ {x} /\ (s \ {p}) \ {x} = both /\ (s \ {x}) \ {p} = both
    BY <1>3, <1>4
  <1>8. h[s \ {p}] = g[x] + h[both] /\ h[s \ {x}] = g[p] + h[both]
    BY <1>5, <1>6, <1>7
  <1>9. g[x] \in Nat /\ g[p] \in Nat /\ both \in SUBSET S
    BY <1>1, <1>3
  <1>10. h[both] \in Nat
    BY <1>9, SumsType
  <1> HIDE DEF both, p
  <1> QED BY <1>2, <1>3, <1>8, <1>9, <1>10

---------------------------------------------------------------------------
(* The sum of the amounts g over a finite set. *)

SumOf(g, S) == MapThenSumSet(LAMBDA x : g[x], S)

\* It is what Sums says.
LEMMA SumOfIs ==
    ASSUME NEW S, IsFiniteSet(S), NEW g
    PROVE  \E h : Sums(h, g, S) /\ SumOf(g, S) = h[S]
  <1>1. \E h : Sums(h, g, S)
    BY SumsExist
  <1> QED BY <1>1 DEF SumOf, MapThenSumSet, MapThenFoldSet, Sums, Picked

\* Nothing adds up to nothing.
LEMMA SumOfEmpty == \A g : SumOf(g, {}) = 0
  <1> TAKE g
  <1>1. PICK h : Sums(h, g, {}) /\ SumOf(g, {}) = h[{}]
    BY SumOfIs, FS_EmptySet
  <1> QED BY <1>1, SumsAre

\* Amounts add up to an amount.
LEMMA SumOfType ==
    ASSUME NEW S, IsFiniteSet(S), NEW g, \A x \in S : g[x] \in Nat
    PROVE  SumOf(g, S) \in Nat
  <1>1. PICK h : Sums(h, g, S) /\ SumOf(g, S) = h[S]
    BY SumOfIs
  <1> QED BY <1>1, SumsType

\* Equal amounts have equal sums.
LEMMA SumOfEqual ==
    ASSUME NEW S, IsFiniteSet(S), NEW g, NEW f, \A x \in S : g[x] = f[x]
    PROVE  SumOf(g, S) = SumOf(f, S)
  <1>1. PICK h : Sums(h, g, S) /\ SumOf(g, S) = h[S]
    BY SumOfIs
  <1>2. PICK k : Sums(k, f, S) /\ SumOf(f, S) = k[S]
    BY SumOfIs
  <1>3. \A s \in SUBSET S : s # {} => g[Picked(s)] = f[Picked(s)]
    BY DEF Picked
  <1>4. Sums(k, g, S)
    BY <1>2, <1>3 DEF Sums
  <1> QED BY <1>1, <1>2, <1>4, SumsUnique

\* A sum is one of its amounts and the sum of the others.
LEMMA SumOfApart ==
    ASSUME NEW S, IsFiniteSet(S), NEW g, \A x \in S : g[x] \in Nat, NEW x \in S
    PROVE  SumOf(g, S) = g[x] + SumOf(g, S \ {x})
  <1>1. PICK h : Sums(h, g, S) /\ SumOf(g, S) = h[S]
    BY SumOfIs
  <1>2. S \ {x} \in SUBSET S /\ IsFiniteSet(S \ {x})
    BY FS_RemoveElement
  <1>3. PICK k : Sums(k, g, S \ {x}) /\ SumOf(g, S \ {x}) = k[S \ {x}]
    BY <1>2, SumOfIs
  <1>4. \A T \in SUBSET S : Sums([s \in SUBSET T |-> h[s]], g, T)
    BY <1>1, SumsRestrict
  <1> DEFINE T == S \ {x}
             part == [s \in SUBSET T |-> h[s]]
  <1>5. T \in SUBSET S /\ IsFiniteSet(T) /\ Sums(k, g, T) /\ SumOf(g, T) = k[T]
    BY <1>2, <1>3
  <1> HIDE DEF T
  <1>6. Sums(part, g, T) /\ part[T] = h[T]
    BY <1>4, <1>5
  <1> HIDE DEF part
  <1>7. k[T] = h[T]
    BY <1>5, <1>6, SumsUnique
  <1>8. h[S] = g[x] + h[T]
    BY <1>1, SumsApart DEF T
  <1> QED BY <1>1, <1>5, <1>7, <1>8 DEF T

\* One amount is its own sum.
LEMMA SumOfOne ==
    ASSUME NEW x, NEW g, g[x] \in Nat
    PROVE  SumOf(g, {x}) = g[x]
  <1>1. IsFiniteSet({x}) /\ {x} \ {x} = {}
    BY FS_Singleton
  <1>2. SumOf(g, {x}) = g[x] + SumOf(g, {x} \ {x})
    BY <1>1, SumOfApart
  <1> QED BY <1>1, <1>2, SumOfEmpty
=============================================================================
