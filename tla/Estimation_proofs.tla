-------------------------- MODULE Estimation_proofs --------------------------
(***************************************************************************)
(* Proofs about Estimation, for slices and windows of any length, registers  *)
(* of any capacity, and integers of any size: first of the selection, which  *)
(* SyncDaemon_proofs uses too, then of the register and of the regression.   *)
(***************************************************************************)
EXTENDS Estimation, FiniteSetTheorems, SequenceTheorems, TLAPS

-----------------------------------------------------------------------------
(* Finite sets of integers.                                                *)

\* A finite set of integers has a greatest element and a least one.
LEMMA MaxOf ==
    ASSUME NEW S \in SUBSET Int, IsFiniteSet(S), S # {}
    PROVE  /\ Max(S) \in S
           /\ \A y \in S : y <= Max(S)
<1> DEFINE Above(x) == {y \in S : y > x}
           R == StrictSubsetOrdering(S)
           Segments == {Above(x) : x \in S}
<1>1. \A x \in S : Above(x) \in FiniteSubsetsOf(S)
  BY FS_Subset DEF FiniteSubsetsOf
<1>2. Segments \subseteq FiniteSubsetsOf(S) /\ Segments # {}
  BY <1>1
<1>3. PICK a \in Segments : \A b \in Segments : ~ (<<b, a>> \in R)
  <2> HIDE DEF R, Segments
  <2> QED BY <1>2, FS_StrictSubsetOrderingWellFounded, WFMin DEF R
<1>4. PICK x \in S : a = Above(x)
  OBVIOUS
<1>5. ASSUME NEW y \in S, y > x PROVE FALSE
  <2>1. Above(y) \in Segments /\ <<Above(y), a>> \notin R
    BY <1>3
  <2>2. x \in Int /\ y \in Int /\ \A z \in S : z \in Int
    OBVIOUS
  <2>3. Above(y) \subseteq Above(x)
    <3>1. \A z \in Int : z > y => z > x
      BY <2>2, <1>5
    <3> QED BY <3>1, <2>2
  <2>4. y \in Above(x) /\ y \notin Above(y)
    BY <2>2, <1>5
  <2>5. Above(y) \in SUBSET S /\ Above(x) \in SUBSET S
    OBVIOUS
  <2> HIDE DEF Above, Segments
  <2> QED BY <2>1, <2>3, <2>4, <2>5, <1>4 DEF StrictSubsetOrdering
<1>6. \E z \in S : \A y \in S : z >= y
  BY <1>4, <1>5
<1>7. Max(S) \in S /\ \A y \in S : Max(S) >= y
  BY <1>6 DEF Max
<1> QED BY <1>7

LEMMA MinOf ==
    ASSUME NEW S \in SUBSET Int, IsFiniteSet(S), S # {}
    PROVE  /\ Min(S) \in S
           /\ \A y \in S : Min(S) <= y
<1> DEFINE T == {-y : y \in S}
           f == [y \in S |-> -y]
<1>1. IsFiniteSet(T)
  <2>1. f \in Surjection(S, T)
    BY DEF Surjection
  <2> HIDE DEF T, f
  <2> QED BY <2>1, FS_Surjection
<1>2. T \in SUBSET Int /\ T # {}
  <2>1. \A y \in S : -y \in Int
    OBVIOUS
  <2> QED BY <2>1
<1>3. Max(T) \in T /\ \A y \in T : y <= Max(T)
  <2> HIDE DEF T
  <2> QED BY <1>1, <1>2, MaxOf
<1>4. \E z \in S : \A y \in S : z <= y
  <2>1. PICK z \in S : Max(T) = -z
    BY <1>3
  <2>2. \A y \in S : -y \in T
    OBVIOUS
  <2>3. \A y \in S : -y <= -z
    BY <2>1, <2>2, <1>3
  <2>4. ASSUME NEW y \in S PROVE z <= y
    <3>1. -y <= -z /\ y \in Int /\ z \in Int
      BY <2>3
    <3> QED BY <3>1
  <2> QED BY <2>4
<1>5. Min(S) \in S /\ \A y \in S : Min(S) <= y
  BY <1>4 DEF Min
<1> QED BY <1>5

-----------------------------------------------------------------------------
(* The sweep of the selection.                                             *)

\* What select() is given: finitely many sources with positive distances.
Slice(E) ==
    /\ DOMAIN E \subseteq Int /\ IsFiniteSet(DOMAIN E)
    /\ \A s \in DOMAIN E : /\ E[s].offset \in Int
                           /\ E[s].dist \in Nat /\ E[s].dist > 0
                           /\ E[s].stratum \in Int

\* The sources whose intervals contain the point p.
Covering(E, p) == {s \in DOMAIN E : Low(E, s) <= p /\ p <= High(E, s)}

LEMMA SliceFacts ==
    ASSUME NEW E, Slice(E)
    PROVE  /\ \A s \in DOMAIN E : s \in Int /\ Low(E, s) \in Int /\ High(E, s) \in Int
                                  /\ Low(E, s) < High(E, s)
           /\ \A e \in Edges(E) : e[1] \in DOMAIN E /\ e[2] \in {"lower", "upper"}
                                  /\ Value(E, e) \in Int
           /\ \A s \in DOMAIN E : /\ <<s, "lower">> \in Edges(E) /\ <<s, "upper">> \in Edges(E)
                                  /\ Value(E, <<s, "lower">>) = Low(E, s)
                                  /\ Value(E, <<s, "upper">>) = High(E, s)
<1>1. \A s \in DOMAIN E : s \in Int /\ Low(E, s) \in Int /\ High(E, s) \in Int
                          /\ Low(E, s) < High(E, s)
  BY DEF Slice, Low, High
<1>2. \A e \in Edges(E) : e[1] \in DOMAIN E /\ e[2] \in {"lower", "upper"}
  BY DEF Edges
<1>3. \A e \in Edges(E) : Value(E, e) \in Int
  BY <1>1, <1>2 DEF Value
<1>4. \A s \in DOMAIN E : /\ <<s, "lower">> \in Edges(E) /\ <<s, "upper">> \in Edges(E)
                          /\ Value(E, <<s, "lower">>) = Low(E, s)
                          /\ Value(E, <<s, "upper">>) = High(E, s)
  BY DEF Edges, Value
<1> QED BY <1>1, <1>2, <1>3, <1>4

\* The edges of one kind among some are as many as the sources they are of.
LEMMA PassedCounts ==
    ASSUME NEW D, IsFiniteSet(D), NEW P \in SUBSET (D \X {"lower", "upper"}),
           NEW kind \in {"lower", "upper"}
    PROVE  /\ Passed(P, kind) = Cardinality({s \in D : <<s, kind>> \in P})
           /\ Passed(P, kind) \in Nat
<1> DEFINE S == {s \in D : <<s, kind>> \in P}
           T == {e \in P : e[2] = kind}
           g == [s \in S |-> <<s, kind>>]
<1>1. IsFiniteSet(S)
  BY FS_Subset
<1>2. g \in Bijection(S, T)
  <2>1. \A s \in S : g[s] \in T
    OBVIOUS
  <2>2. \A s, t \in S : g[s] = g[t] => s = t
    OBVIOUS
  <2>3. \A e \in T : e[1] \in S /\ g[e[1]] = e
    OBVIOUS
  <2> HIDE DEF S, T
  <2> QED BY <2>1, <2>2, <2>3 DEF Bijection, Injection, Surjection, IsInjective
<1>3. Cardinality(T) = Cardinality(S) /\ Cardinality(S) \in Nat
  <2> HIDE DEF S, T, g
  <2> QED BY <1>1, <1>2, FS_Bijection, FS_CardinalityType DEF ExistsBijection
<1> QED BY <1>3 DEF Passed

\* Where the scan up has counted k intervals open, k intervals contain the point; and
\* likewise for the scan down.
LEMMA CountsAreCovered ==
    ASSUME NEW E, Slice(E), NEW e \in Edges(E)
    PROVE  /\ CountUp(E, e) \in Int /\ CountDown(E, e) \in Int
           /\ CountUp(E, e) <= Cardinality(Covering(E, Value(E, e)))
           /\ CountDown(E, e) <= Cardinality(Covering(E, Value(E, e)))
<1> DEFINE D == DOMAIN E
           v == Value(E, e)
           C == Covering(E, v)
           up == {f \in Edges(E) : AtOrBefore(E, f, e)}
           down == {f \in Edges(E) : AtOrBefore(E, e, f)}
           L1 == {s \in D : <<s, "lower">> \in up}
           U1 == {s \in D : <<s, "upper">> \in up}
           L2 == {s \in D : <<s, "lower">> \in down}
           U2 == {s \in D : <<s, "upper">> \in down}
<1>1. IsFiniteSet(D) /\ IsFiniteSet(C)
  BY FS_Subset DEF Slice, Covering
<1>2. /\ Passed(up, "lower") = Cardinality(L1) /\ Passed(up, "upper") = Cardinality(U1)
      /\ Passed(down, "lower") = Cardinality(L2) /\ Passed(down, "upper") = Cardinality(U2)
  <2>1. up \in SUBSET (D \X {"lower", "upper"}) /\ down \in SUBSET (D \X {"lower", "upper"})
    BY DEF Edges
  <2> HIDE DEF D, up, down
  <2> QED BY <1>1, <2>1, PassedCounts
<1>3. L1 \ U1 \subseteq C /\ U2 \ L2 \subseteq C
  BY SliceFacts DEF AtOrBefore, Covering
<1>4. ASSUME NEW A \in SUBSET D, NEW B \in SUBSET D, A \ B \subseteq C
      PROVE  /\ Cardinality(A) - Cardinality(B) \in Int
             /\ Cardinality(A) - Cardinality(B) <= Cardinality(C)
  <2>1. IsFiniteSet(A) /\ IsFiniteSet(B) /\ IsFiniteSet(A \cap B) /\ IsFiniteSet(A \ B)
    BY <1>1, FS_Subset
  <2>2. Cardinality(A \ B) <= Cardinality(C)
    BY <1>4, <1>1, FS_Subset
  <2>3. Cardinality(A \ B) = Cardinality(A) - Cardinality(A \cap B)
    BY <2>1, FS_Difference
  <2>4. Cardinality(A \cap B) <= Cardinality(B)
    BY <2>1, FS_Subset
  <2>5. /\ Cardinality(A) \in Nat /\ Cardinality(B) \in Nat /\ Cardinality(C) \in Nat
        /\ Cardinality(A \cap B) \in Nat /\ Cardinality(A \ B) \in Nat
    BY <1>1, <2>1, FS_CardinalityType
  <2> QED BY <2>2, <2>3, <2>4, <2>5
<1>5. L1 \in SUBSET D /\ U1 \in SUBSET D /\ L2 \in SUBSET D /\ U2 \in SUBSET D
  OBVIOUS
<1>6. CountUp(E, e) = Cardinality(L1) - Cardinality(U1)
      /\ CountDown(E, e) = Cardinality(U2) - Cardinality(L2)
  BY <1>2 DEF CountUp, CountDown
<1> HIDE DEF L1, U1, L2, U2
<1> QED BY <1>3, <1>4, <1>5, <1>6

LEMMA EdgesAreFinite ==
    ASSUME NEW E, Slice(E), NEW need
    PROVE  /\ IsFiniteSet(Edges(E))
           /\ Opening(E, need) \in SUBSET Int /\ IsFiniteSet(Opening(E, need))
           /\ Closing(E, need) \in SUBSET Int /\ IsFiniteSet(Closing(E, need))
<1>1. IsFiniteSet(Edges(E))
  <2>1. IsFiniteSet({"lower", "upper"})
    <3>1. IsFiniteSet({} \cup {"lower"})
      BY FS_EmptySet, FS_AddElement, Zenon
    <3>2. IsFiniteSet(({} \cup {"lower"}) \cup {"upper"})
      BY <3>1, FS_AddElement, Zenon
    <3>3. ({} \cup {"lower"}) \cup {"upper"} = {"lower", "upper"}
      OBVIOUS
    <3> QED BY <3>2, <3>3
  <2> QED BY <2>1, FS_Product DEF Edges, Slice
<1>2. ASSUME NEW F \in SUBSET Edges(E)
      PROVE  {Value(E, e) : e \in F} \in SUBSET Int /\ IsFiniteSet({Value(E, e) : e \in F})
  <2> DEFINE V == {Value(E, e) : e \in F}
             g == [e \in F |-> Value(E, e)]
  <2>1. IsFiniteSet(F)
    BY <1>1, FS_Subset
  <2>2. g \in Surjection(F, V)
    BY DEF Surjection
  <2>3. IsFiniteSet(V)
    <3> HIDE DEF V, g
    <3> QED BY <2>1, <2>2, FS_Surjection
  <2> QED BY <2>3, SliceFacts
<1> QED BY <1>1, <1>2 DEF Opening, Closing

\* The numbers of sources that may be asked to agree.
LEMMA NeedsFacts ==
    ASSUME NEW E, Slice(E)
    PROVE  /\ Cardinality(DOMAIN E) \in Nat
           /\ IsFiniteSet(Needs(E))
           /\ \A k \in Int : k \in Needs(E) <=> k <= Cardinality(DOMAIN E)
                                                /\ 2 * k > Cardinality(DOMAIN E)
           /\ Needs(E) \subseteq Nat
<1> DEFINE n == Cardinality(DOMAIN E)
<1>1. n \in Nat
  BY FS_CardinalityType DEF Slice
<1>2. Needs(E) = {n - f : f \in 0..((n - 1) \div 2)}
  BY DEF Needs, Tried
<1> HIDE DEF n
<1>3. ASSUME NEW k \in Int
      PROVE  k \in Needs(E) <=> k <= n /\ 2 * k > n
  <2>1. ASSUME k \in Needs(E) PROVE k <= n /\ 2 * k > n
    BY <1>1, <1>2, <2>1
  <2>2. ASSUME k <= n, 2 * k > n PROVE k \in Needs(E)
    <3>1. n - k \in 0..((n - 1) \div 2) /\ n - (n - k) = k
      BY <1>1, <2>2
    <3> QED BY <1>2, <3>1
  <2> QED BY <2>1, <2>2
<1>4. Needs(E) \subseteq 0..n
  BY <1>1, <1>2
<1>5. IsFiniteSet(Needs(E))
  <2>1. IsFiniteSet(0..n)
    BY <1>1, FS_Interval
  <2> QED BY <1>4, <2>1, FS_Subset
<1> QED BY <1>1, <1>3, <1>4, <1>5 DEF n

\* The region of the sweep: a strict majority of the intervals contain its lower end, and
\* as many its upper end.
LEMMA RegionIsCovered ==
    ASSUME NEW E, Slice(E), NEW need \in Needs(E), Found(E, need)
    PROVE  LET low  == Min(Opening(E, need))
               high == Max(Closing(E, need))
           IN  /\ low \in Int /\ high \in Int /\ low <= high
               /\ need <= Cardinality(Covering(E, low))
               /\ need <= Cardinality(Covering(E, high))
<1> DEFINE low  == Min(Opening(E, need))
           high == Max(Closing(E, need))
<1>1. low \in Opening(E, need) /\ high \in Closing(E, need) /\ low <= high
  BY EdgesAreFinite, MinOf, MaxOf DEF Found
<1>2. low \in Int /\ high \in Int
  BY <1>1, EdgesAreFinite
<1>3. need \in Nat
  BY NeedsFacts
<1>4. \A p : Cardinality(Covering(E, p)) \in Nat
  <2> TAKE p
  <2>1. IsFiniteSet(Covering(E, p))
    BY FS_Subset DEF Covering, Slice
  <2> QED BY <2>1, FS_CardinalityType
<1>5. PICK e \in Edges(E) : CountUp(E, e) >= need /\ low = Value(E, e)
  BY <1>1 DEF Opening
<1>6. PICK f \in Edges(E) : CountDown(E, f) >= need /\ high = Value(E, f)
  BY <1>1 DEF Closing
<1>7. /\ CountUp(E, e) \in Int /\ CountDown(E, f) \in Int
      /\ CountUp(E, e) <= Cardinality(Covering(E, low))
      /\ CountDown(E, f) <= Cardinality(Covering(E, high))
  BY <1>5, <1>6, CountsAreCovered
<1> HIDE DEF low, high
<1>8. need <= Cardinality(Covering(E, low)) /\ need <= Cardinality(Covering(E, high))
  BY <1>3, <1>4, <1>5, <1>6, <1>7
<1> QED BY <1>1, <1>2, <1>8 DEF low, high

LEMMA LargestIsChosen ==
    ASSUME NEW E, Slice(E), Chosen(E) # {}
    PROVE  /\ Max(Chosen(E)) \in Needs(E) /\ Found(E, Max(Chosen(E)))
           /\ \A k \in Chosen(E) : k <= Max(Chosen(E))
<1>1. Chosen(E) \in SUBSET Int /\ IsFiniteSet(Chosen(E))
  BY NeedsFacts, FS_Subset DEF Chosen
<1>2. Max(Chosen(E)) \in Chosen(E) /\ \A k \in Chosen(E) : k <= Max(Chosen(E))
  BY <1>1, MaxOf
<1> QED BY <1>2 DEF Chosen

\* The source that comes first is one of the truechimers.
LEMMA FirstIsTruechimer ==
    ASSUME NEW E, Slice(E), Truechimers(E) # {}
    PROVE  First(E) \in Truechimers(E)
<1> DEFINE T == Truechimers(E)
           strata == {E[s].stratum : s \in T}
           T1 == {s \in T : E[s].stratum = Min(strata)}
           dists == {E[s].dist : s \in T1}
           T2 == {s \in T1 : E[s].dist = Min(dists)}
<1>1. T \subseteq DOMAIN E /\ IsFiniteSet(T)
  BY FS_Subset DEF Truechimers, Slice
<1>2. \A s \in T : s \in Int /\ E[s].stratum \in Int /\ E[s].dist \in Int
  BY <1>1 DEF Slice
<1>3. Min(strata) \in strata /\ \A y \in strata : Min(strata) <= y
  <2>1. [s \in T |-> E[s].stratum] \in Surjection(T, strata)
    BY DEF Surjection
  <2>2. IsFiniteSet(strata)
    BY <1>1, <2>1, FS_Surjection
  <2>3. strata \in SUBSET Int /\ strata # {}
    BY <1>2
  <2> HIDE DEF strata
  <2> QED BY <2>2, <2>3, MinOf
<1>4. T1 # {} /\ IsFiniteSet(T1) /\ T1 \subseteq T
  BY <1>1, <1>3, FS_Subset
<1>5. Min(dists) \in dists /\ \A y \in dists : Min(dists) <= y
  <2>1. [s \in T1 |-> E[s].dist] \in Surjection(T1, dists)
    BY DEF Surjection
  <2>2. IsFiniteSet(dists)
    <3> HIDE DEF T1, dists
    <3> QED BY <1>4, <2>1, FS_Surjection
  <2>3. dists \in SUBSET Int /\ dists # {}
    BY <1>2, <1>4
  <2> HIDE DEF dists
  <2> QED BY <2>2, <2>3, MinOf
<1>6. T2 # {} /\ IsFiniteSet(T2) /\ T2 \in SUBSET Int
  BY <1>2, <1>4, <1>5, FS_Subset
<1>7. Min(T2) \in T2 /\ \A y \in T2 : Min(T2) <= y
  <2> HIDE DEF T2
  <2> QED BY <1>6, MinOf
<1>8. Min(T2) \in T /\ \A t \in T : Better(E, Min(T2), t)
  <2>1. Min(T2) \in T
    BY <1>7
  <2>2. ASSUME NEW t \in T PROVE Better(E, Min(T2), t)
    <3> DEFINE s == Min(T2)
    <3>1. s \in T1 /\ s \in T /\ E[s].stratum = Min(strata) /\ E[s].dist = Min(dists)
      BY <1>7
    <3> HIDE DEF s
    <3>2. E[s].stratum <= E[t].stratum
      BY <1>3, <3>1
    <3>3. t \in T1 => E[s].dist <= E[t].dist
      BY <1>5, <3>1
    <3>4. t \in T2 => s <= t
      BY <1>7 DEF s
    <3>5. /\ t \in T1 <=> E[t].stratum = E[s].stratum
          /\ t \in T2 <=> t \in T1 /\ E[t].dist = E[s].dist
      BY <3>1
    <3> HIDE DEF T, T1, T2, strata, dists
    <3>6. Better(E, s, t)
      BY <1>2, <3>1, <3>2, <3>3, <3>4, <3>5 DEF Better
    <3> QED BY <3>6 DEF s
  <2> QED BY <2>1, <2>2
<1> QED BY <1>8 DEF First

\* The first source and the intervals it has been found to agree with.
LEMMA FirstIsCorroborated ==
    ASSUME NEW E, Slice(E), Truechimers(E) # {}, Cardinality(DOMAIN E) > 1
    PROVE  \E s \in (DOMAIN E) \ {First(E)} :
              Low(E, First(E)) <= High(E, s) /\ Low(E, s) <= High(E, First(E))
<1> DEFINE D    == DOMAIN E
           need == Max(Chosen(E))
           low  == Min(Opening(E, need))
           high == Max(Closing(E, need))
           A    == Covering(E, low)
           B    == Covering(E, high)
           c    == First(E)
<1>1. Chosen(E) # {} /\ \A s \in Truechimers(E) : s \in D /\ Survives(E, s, low, high)
  BY DEF Truechimers
<1>2. need \in Needs(E) /\ Found(E, need)
  BY <1>1, LargestIsChosen
<1>3. /\ low \in Int /\ high \in Int /\ low <= high
      /\ need <= Cardinality(A) /\ need <= Cardinality(B)
  BY <1>2, RegionIsCovered
<1>4. /\ Cardinality(D) \in Nat /\ need \in Nat /\ 2 * need > Cardinality(D)
      /\ IsFiniteSet(D)
  BY <1>2, NeedsFacts DEF Slice
<1>5. A \subseteq D /\ B \subseteq D /\ IsFiniteSet(A) /\ IsFiniteSet(B)
  BY <1>4, FS_Subset DEF Covering
<1>6. Cardinality(A) \in Nat /\ Cardinality(B) \in Nat
  BY <1>5, FS_CardinalityType
<1>7. c \in D /\ Survives(E, c, low, high)
  BY <1>1, FirstIsTruechimer
<1> HIDE DEF D, need, low, high, c
<1>8. PICK b \in D : b \in A /\ b \in B
  <2>1. A \cap B # {}
    <3>1. Cardinality(A) + Cardinality(B) > Cardinality(D)
      BY <1>3, <1>4, <1>6
    <3> HIDE DEF A, B
    <3> QED BY <1>4, <1>5, <3>1, FS_MajoritiesIntersect
  <2> QED BY <1>5, <2>1
<1>9. CASE b # c
  <2>1. Low(E, b) <= low /\ high <= High(E, b)
    BY <1>8 DEF Covering
  <2>2. Low(E, b) \in Int /\ High(E, b) \in Int /\ Low(E, c) \in Int /\ High(E, c) \in Int
    BY <1>7, SliceFacts DEF D
  <2>3. High(E, c) >= low /\ Low(E, c) <= high
    BY <1>7 DEF Survives
  <2>4. Low(E, c) <= High(E, b) /\ Low(E, b) <= High(E, c)
    BY <1>3, <2>1, <2>2, <2>3
  <2> QED BY <1>9, <2>4 DEF c, D
<1>10. CASE b = c
  <2>1. PICK s \in A : s # c
    <3>1. Cardinality(A) > 1
      BY <1>3, <1>4, <1>6 DEF D
    <3>2. A # {c}
      BY <3>1, FS_Singleton
    <3>3. A # {}
      BY <1>8
    <3> QED BY <3>2, <3>3
  <2>2. Low(E, s) <= low /\ low <= High(E, s) /\ Low(E, c) <= low /\ low <= High(E, c)
    BY <1>8, <1>10, <2>1 DEF Covering
  <2>3. s \in D
    BY <1>5
  <2>4. /\ Low(E, s) \in Int /\ High(E, s) \in Int /\ Low(E, c) \in Int /\ High(E, c) \in Int
    BY <1>7, <2>3, SliceFacts DEF D
  <2>5. Low(E, c) <= High(E, s) /\ Low(E, s) <= High(E, c)
    BY <1>3, <2>2, <2>4
  <2> QED BY <2>1, <2>3, <2>5 DEF c, D
<1> QED BY <1>9, <1>10

\* Where no two intervals merely touch, the sweep meets every clique: if k intervals
\* contain a point, both scans count k of them open, on the two sides of that point.
LEMMA CliquesAreMet ==
    ASSUME NEW E, Slice(E),
           \A s, t \in DOMAIN E : High(E, s) # Low(E, t),
           NEW p \in Int, Covering(E, p) # {},
           NEW need \in Int, need <= Cardinality(Covering(E, p))
    PROVE  Found(E, need)
<1> DEFINE D == DOMAIN E
           C == Covering(E, p)
           lows == {Low(E, s) : s \in C}
           C1 == {s \in C : Low(E, s) = Max(lows)}
           a == Max(C1)
           highs == {High(E, s) : s \in C}
           C2 == {s \in C : High(E, s) = Min(highs)}
           b == Min(C2)
           e == <<a, "lower">>
           f == <<b, "upper">>
<1>1. C \subseteq D /\ IsFiniteSet(C) /\ IsFiniteSet(D) /\ Cardinality(C) \in Nat
  BY FS_Subset, FS_CardinalityType DEF Slice, Covering
<1>2. \A s \in D : s \in Int /\ Low(E, s) \in Int /\ High(E, s) \in Int
                   /\ Low(E, s) < High(E, s)
  BY SliceFacts
<1>3. Max(lows) \in lows /\ \A y \in lows : y <= Max(lows)
  <2>1. [s \in C |-> Low(E, s)] \in Surjection(C, lows)
    BY DEF Surjection
  <2>2. lows \in SUBSET Int /\ lows # {}
    BY <1>1, <1>2
  <2> HIDE DEF lows, C
  <2>3. IsFiniteSet(lows)
    BY <1>1, <2>1, FS_Surjection
  <2> QED BY <2>2, <2>3, MaxOf
<1>4. Min(highs) \in highs /\ \A y \in highs : Min(highs) <= y
  <2>1. [s \in C |-> High(E, s)] \in Surjection(C, highs)
    BY DEF Surjection
  <2>2. highs \in SUBSET Int /\ highs # {}
    BY <1>1, <1>2
  <2> HIDE DEF highs, C
  <2>3. IsFiniteSet(highs)
    BY <1>1, <2>1, FS_Surjection
  <2> QED BY <2>2, <2>3, MinOf
<1>5. a \in C1 /\ \A y \in C1 : y <= a
  <2>1. C1 \in SUBSET Int /\ IsFiniteSet(C1) /\ C1 # {}
    BY <1>1, <1>2, <1>3, FS_Subset
  <2> HIDE DEF C1
  <2> QED BY <2>1, MaxOf
<1>6. b \in C2 /\ \A y \in C2 : b <= y
  <2>1. C2 \in SUBSET Int /\ IsFiniteSet(C2) /\ C2 # {}
    BY <1>1, <1>2, <1>4, FS_Subset
  <2> HIDE DEF C2
  <2> QED BY <2>1, MinOf
<1>7. /\ a \in C /\ b \in C /\ a \in D /\ b \in D
      /\ \A s \in C : Low(E, s) <= Low(E, a) /\ (Low(E, s) = Low(E, a) => s <= a)
      /\ \A s \in C : High(E, b) <= High(E, s) /\ (High(E, s) = High(E, b) => b <= s)
  BY <1>1, <1>3, <1>4, <1>5, <1>6
<1>8. \A s \in C : Low(E, s) <= p /\ p <= High(E, s)
  BY DEF Covering
<1> HIDE DEF a, b, lows, highs, C1, C2, C, D
<1> DEFINE up == {x \in Edges(E) : AtOrBefore(E, x, e)}
           down == {x \in Edges(E) : AtOrBefore(E, f, x)}
           L1 == {s \in D : <<s, "lower">> \in up}
           U1 == {s \in D : <<s, "upper">> \in up}
           L2 == {s \in D : <<s, "lower">> \in down}
           U2 == {s \in D : <<s, "upper">> \in down}
<1>9. e \in Edges(E) /\ f \in Edges(E) /\ Value(E, e) = Low(E, a) /\ Value(E, f) = High(E, b)
  BY <1>7, SliceFacts DEF D
<1>10. /\ \A s \in D : s \in L1 <=> Low(E, s) < Low(E, a) \/ (Low(E, s) = Low(E, a) /\ s <= a)
       /\ \A s \in D : s \in U1 <=> High(E, s) < Low(E, a) \/ (High(E, s) = Low(E, a) /\ s <= a)
       /\ \A s \in D : s \in L2 <=> High(E, b) < Low(E, s) \/ (High(E, b) = Low(E, s) /\ b <= s)
       /\ \A s \in D : s \in U2 <=> High(E, b) < High(E, s) \/ (High(E, b) = High(E, s) /\ b <= s)
  BY <1>9, SliceFacts DEF AtOrBefore, D
<1>11. /\ Passed(up, "lower") = Cardinality(L1) /\ Passed(up, "upper") = Cardinality(U1)
       /\ Passed(down, "lower") = Cardinality(L2) /\ Passed(down, "upper") = Cardinality(U2)
  <2>1. up \in SUBSET (D \X {"lower", "upper"}) /\ down \in SUBSET (D \X {"lower", "upper"})
    BY DEF Edges, D
  <2> HIDE DEF up, down
  <2> QED BY <1>1, <2>1, PassedCounts
<1>12. CountUp(E, e) = Cardinality(L1) - Cardinality(U1)
       /\ CountDown(E, f) = Cardinality(U2) - Cardinality(L2)
  BY <1>11 DEF CountUp, CountDown
<1>13. /\ L1 \subseteq D /\ U1 \subseteq D /\ L2 \subseteq D /\ U2 \subseteq D
  OBVIOUS
<1> HIDE DEF L1, U1, L2, U2, e, f
<1>14. U1 \subseteq L1 /\ C \subseteq L1 \ U1
  BY <1>1, <1>2, <1>7, <1>8, <1>10, <1>13 DEF D
<1>15. L2 \subseteq U2 /\ C \subseteq U2 \ L2
  BY <1>1, <1>2, <1>7, <1>8, <1>10, <1>13 DEF D
<1>16. ASSUME NEW A \in SUBSET D, NEW B \in SUBSET D, B \subseteq A, C \subseteq A \ B
       PROVE  Cardinality(A) - Cardinality(B) >= Cardinality(C)
  <2>1. IsFiniteSet(A) /\ IsFiniteSet(B) /\ IsFiniteSet(A \ B) /\ A \cap B = B
    BY <1>1, <1>16, FS_Subset
  <2>2. Cardinality(C) <= Cardinality(A \ B)
    BY <1>16, <2>1, FS_Subset
  <2>3. Cardinality(A \ B) = Cardinality(A) - Cardinality(B)
    BY <2>1, FS_Difference
  <2>4. Cardinality(A) \in Nat /\ Cardinality(B) \in Nat /\ Cardinality(A \ B) \in Nat
    BY <2>1, FS_CardinalityType
  <2> QED BY <1>1, <2>2, <2>3, <2>4
<1>17. CountUp(E, e) \in Int /\ CountUp(E, e) >= need
       /\ CountDown(E, f) \in Int /\ CountDown(E, f) >= need
  <2>1. CountUp(E, e) >= Cardinality(C) /\ CountDown(E, f) >= Cardinality(C)
    BY <1>12, <1>13, <1>14, <1>15, <1>16
  <2>2. CountUp(E, e) \in Int /\ CountDown(E, f) \in Int
    BY <1>9, CountsAreCovered
  <2>3. need <= Cardinality(C)
    BY DEF C
  <2> QED BY <1>1, <2>1, <2>2, <2>3
<1>18. Low(E, a) \in Opening(E, need) /\ High(E, b) \in Closing(E, need)
  BY <1>9, <1>17 DEF Opening, Closing
<1>19. Min(Opening(E, need)) \in Int /\ Min(Opening(E, need)) <= Low(E, a)
       /\ Max(Closing(E, need)) \in Int /\ High(E, b) <= Max(Closing(E, need))
  BY <1>18, EdgesAreFinite, MinOf, MaxOf
<1>20. Low(E, a) <= p /\ p <= High(E, b) /\ Low(E, a) \in Int /\ High(E, b) \in Int
  BY <1>2, <1>7, <1>8
<1> QED BY <1>18, <1>19, <1>20 DEF Found

\* What is chosen is exactly what a strict majority allows: the clique of k intervals
\* that contain a point.
LEMMA ChosenAreCliques ==
    ASSUME NEW E, Slice(E),
           \A s, t \in DOMAIN E : High(E, s) # Low(E, t),
           NEW k \in Needs(E)
    PROVE  /\ k \in Chosen(E) =>
                 \E p \in {Low(E, s) : s \in DOMAIN E} \cup {High(E, s) : s \in DOMAIN E} :
                    k <= Cardinality(Covering(E, p))
           /\ \A p \in Int : k <= Cardinality(Covering(E, p)) => k \in Chosen(E)
<1>1. ASSUME k \in Chosen(E)
      PROVE  \E p \in {Low(E, s) : s \in DOMAIN E} \cup {High(E, s) : s \in DOMAIN E} :
                k <= Cardinality(Covering(E, p))
  <2> DEFINE low == Min(Opening(E, k))
  <2>1. Found(E, k)
    BY <1>1 DEF Chosen
  <2>2. k <= Cardinality(Covering(E, low))
    BY <2>1, RegionIsCovered
  <2>3. low \in Opening(E, k)
    BY <2>1, EdgesAreFinite, MinOf DEF Found
  <2>4. PICK e \in Edges(E) : low = Value(E, e)
    BY <2>3 DEF Opening
  <2>5. low \in {Low(E, s) : s \in DOMAIN E} \cup {High(E, s) : s \in DOMAIN E}
    BY <2>4, SliceFacts DEF Value
  <2> QED BY <2>2, <2>5
<1>2. ASSUME NEW p \in Int, k <= Cardinality(Covering(E, p)) PROVE k \in Chosen(E)
  <2>1. k \in Nat /\ k > 0
    BY NeedsFacts
  <2>2. Covering(E, p) # {}
    BY <1>2, <2>1, FS_EmptySet
  <2>3. Found(E, k)
    BY <1>2, <2>1, <2>2, CliquesAreMet
  <2> QED BY <2>3 DEF Chosen
<1> QED BY <1>1, <1>2

\* A majority that contains a point holds the region to it.
LEMMA MajorityHoldsTheRegion ==
    ASSUME NEW E, Slice(E),
           \A s, t \in DOMAIN E : High(E, s) # Low(E, t),
           2 * Cardinality(Covering(E, 0)) > Cardinality(DOMAIN E),
           NEW slack \in Int,
           \A s \in Covering(E, 0) : 2 * E[s].dist <= slack
    PROVE  /\ Truechimers(E) # {}
           /\ \A s \in Truechimers(E) : Low(E, s) <= slack /\ High(E, s) >= -slack
<1> DEFINE D    == DOMAIN E
           H    == Covering(E, 0)
           need == Max(Chosen(E))
           low  == Min(Opening(E, need))
           high == Max(Closing(E, need))
           A    == Covering(E, low)
           B    == Covering(E, high)
<1>1. IsFiniteSet(D) /\ Cardinality(D) \in Nat
  BY FS_CardinalityType DEF Slice
<1>2. /\ H \subseteq D /\ A \subseteq D /\ B \subseteq D
      /\ Cardinality(H) \in Nat /\ Cardinality(A) \in Nat /\ Cardinality(B) \in Nat
      /\ Cardinality(H) <= Cardinality(D)
  <2>1. H \subseteq D /\ A \subseteq D /\ B \subseteq D
    BY DEF Covering
  <2> HIDE DEF H, A, B
  <2> QED BY <1>1, <2>1, FS_Subset, FS_CardinalityType
<1>3. Cardinality(H) \in Needs(E)
  BY <1>2, NeedsFacts
<1>4. Cardinality(H) \in Chosen(E)
  BY <1>2, <1>3, ChosenAreCliques
<1>5. need \in Needs(E) /\ Found(E, need) /\ Cardinality(H) <= need
  BY <1>4, LargestIsChosen
<1>6. /\ low \in Int /\ high \in Int /\ low <= high
      /\ need <= Cardinality(A) /\ need <= Cardinality(B)
  BY <1>5, RegionIsCovered
<1>7. need \in Nat /\ 2 * need > Cardinality(D) /\ 2 * Cardinality(H) > Cardinality(D)
  BY <1>5, NeedsFacts
<1>8. Truechimers(E) = {s \in D : Survives(E, s, low, high)}
  BY <1>4 DEF Truechimers
<1> HIDE DEF D, H, A, B, need, low, high
<1>9. PICK a \in D : a \in A /\ a \in H
  <2>1. Cardinality(A) + Cardinality(H) > Cardinality(D)
    BY <1>1, <1>2, <1>6, <1>7
  <2>2. A \cap H # {}
    BY <1>1, <1>2, <2>1, FS_MajoritiesIntersect
  <2> QED BY <1>2, <2>2
<1>10. PICK b \in D : b \in B /\ b \in H
  <2>1. Cardinality(B) + Cardinality(H) > Cardinality(D)
    BY <1>1, <1>2, <1>6, <1>7
  <2>2. B \cap H # {}
    BY <1>1, <1>2, <2>1, FS_MajoritiesIntersect
  <2> QED BY <1>2, <2>2
<1>11. PICK c \in D : c \in A /\ c \in B
  <2>1. Cardinality(A) + Cardinality(B) > Cardinality(D)
    BY <1>1, <1>2, <1>6, <1>7
  <2>2. A \cap B # {}
    BY <1>1, <1>2, <2>1, FS_MajoritiesIntersect
  <2> QED BY <1>2, <2>2
<1>12. \A s \in D : Low(E, s) \in Int /\ High(E, s) \in Int
                    /\ High(E, s) - Low(E, s) = 2 * E[s].dist /\ E[s].dist \in Int
  BY DEF Slice, Low, High, D
<1>13. /\ Low(E, a) <= low /\ low <= High(E, a) /\ Low(E, a) <= 0 /\ 0 <= High(E, a)
       /\ Low(E, b) <= high /\ high <= High(E, b) /\ Low(E, b) <= 0 /\ 0 <= High(E, b)
       /\ Low(E, c) <= low /\ low <= High(E, c) /\ Low(E, c) <= high /\ high <= High(E, c)
  BY <1>9, <1>10, <1>11 DEF Covering, A, B, H
<1>14. 2 * E[a].dist <= slack /\ 2 * E[b].dist <= slack
  BY <1>9, <1>10 DEF H
<1>15. -slack <= low /\ high <= slack
  BY <1>6, <1>9, <1>10, <1>12, <1>13, <1>14
<1>16. c \in Truechimers(E)
  BY <1>8, <1>11, <1>13 DEF Survives
<1>17. ASSUME NEW s \in Truechimers(E)
       PROVE  Low(E, s) <= slack /\ High(E, s) >= -slack
  BY <1>6, <1>8, <1>12, <1>15 DEF Survives
<1> QED BY <1>16, <1>17

-----------------------------------------------------------------------------
(* The slices that select() is given.                                      *)

ReportsInv == reports \in Seq(Reports)

LEMMA ReportsAreKept == EstimationSpec => []ReportsInv
<1>1. EstimationInit => ReportsInv
  BY DEF EstimationInit, ReportsInv
<1>2. ReportsInv /\ [EstimationNext]_<<part, reports, window, shape, registerVars>> => ReportsInv'
  <2> SUFFICES ASSUME ReportsInv,
                      [EstimationNext]_<<part, reports, window, shape, registerVars>>
               PROVE  ReportsInv'
    OBVIOUS
  <2> USE DEF ReportsInv
  <2>1. ASSUME NEW r \in Reports, Report(r) PROVE ReportsInv'
    BY <2>1 DEF Report
  <2>2. ASSUME reports' = reports PROVE ReportsInv'
    BY <2>2
  <2> QED BY <2>1, <2>2 DEF EstimationNext, Lengthen, UseRegister
<1> QED BY <1>1, <1>2, PTL DEF EstimationSpec

LEMMA ReportsAreSlices ==
    ASSUME ReportsInv
    PROVE  /\ Slice(reports)
           /\ Cardinality(Reporting) = Len(reports) /\ Len(reports) \in Nat
           /\ IsFiniteSet(Reporting)
           /\ \A p : Depth(p) = Cardinality(Covering(reports, p))
<1>1. Reporting = 1..Len(reports) /\ Len(reports) \in Nat
  BY DEF ReportsInv, Reporting
<1>2. IsFiniteSet(Reporting) /\ Cardinality(Reporting) = Len(reports)
  <2>1. IsFiniteSet(1..Len(reports)) /\ Cardinality(1..Len(reports)) = Len(reports)
    BY <1>1, FS_Interval
  <2> QED BY <1>1, <2>1
<1>3. Slice(reports)
  <2>1. \A s \in Reporting : reports[s] \in Reports
    BY DEF ReportsInv, Reporting
  <2>2. \A r \in Reports : r.offset \in Int /\ r.dist \in Nat /\ r.dist > 0 /\ r.stratum \in Int
    <3>1. \A r \in Reports : r.offset \in OffsetRange /\ r.dist \in DistRange
                              /\ r.stratum \in StratumRange
      BY DEF Reports
    <3>2. \A d \in DistRange : d \in Nat /\ d > 0
      BY EstimationAssumption
    <3>3. \A x \in OffsetRange : x \in Int
      BY EstimationAssumption
    <3>4. \A x \in StratumRange : x \in Nat
      BY EstimationAssumption
    <3> QED BY <3>1, <3>2, <3>3, <3>4
  <2> QED BY <1>1, <1>2, <2>1, <2>2 DEF Slice, Reporting
<1> QED BY <1>1, <1>2, <1>3 DEF Depth, Covering, Reporting

\* The depth of the deepest point is the largest number that works.
LEMMA LargestMajorityIsFound == ReportsInv => FindsLargestMajority
<1> SUFFICES ASSUME ReportsInv, NoTouching
             PROVE  /\ Chosen(reports) # {} <=> 2 * Deepest > Len(reports)
                    /\ Chosen(reports) # {} => Max(Chosen(reports)) = Deepest
  BY DEF FindsLargestMajority
<1> DEFINE n == Len(reports)
           depths == {Depth(p) : p \in Points} \cup {0}
           chosen == Chosen(reports)
<1>1. /\ Slice(reports) /\ IsFiniteSet(Reporting) /\ Cardinality(Reporting) = n /\ n \in Nat
      /\ \A p : Depth(p) = Cardinality(Covering(reports, p))
  BY ReportsAreSlices
<1>2. \A s, t \in DOMAIN reports : High(reports, s) # Low(reports, t)
  BY DEF NoTouching, Reporting
<1>3. Points \subseteq Int /\ IsFiniteSet(Points)
  <2> DEFINE lows  == {Low(reports, s) : s \in Reporting}
             highs == {High(reports, s) : s \in Reporting}
  <2>1. /\ [s \in Reporting |-> Low(reports, s)] \in Surjection(Reporting, lows)
        /\ [s \in Reporting |-> High(reports, s)] \in Surjection(Reporting, highs)
    BY DEF Surjection
  <2>2. lows \subseteq Int /\ highs \subseteq Int /\ Points = lows \cup highs
    BY <1>1, SliceFacts DEF Points, Reporting
  <2> HIDE DEF lows, highs
  <2>3. IsFiniteSet(lows) /\ IsFiniteSet(highs)
    BY <1>1, <2>1, FS_Surjection
  <2> QED BY <2>2, <2>3, FS_Union
<1>4. \A p : Depth(p) \in Nat /\ Depth(p) <= n
  <2> TAKE p
  <2>1. Covering(reports, p) \in SUBSET Reporting
    BY DEF Covering, Reporting
  <2> QED BY <1>1, <2>1, FS_Subset, FS_CardinalityType
<1>5. Deepest \in depths /\ \A d \in depths : d <= Deepest
  <2>1. IsFiniteSet({Depth(p) : p \in Points})
    <3>1. [p \in Points |-> Depth(p)] \in Surjection(Points, {Depth(p) : p \in Points})
      BY DEF Surjection
    <3> QED BY <1>3, <3>1, FS_Surjection
  <2>2. IsFiniteSet(depths)
    BY <2>1, FS_AddElement
  <2>3. depths \in SUBSET Int /\ depths # {}
    BY <1>4
  <2> HIDE DEF depths
  <2>4. Max(depths) \in depths /\ \A d \in depths : d <= Max(depths)
    BY <2>2, <2>3, MaxOf
  <2>5. Deepest = Max(depths)
    BY DEF Deepest, depths
  <2> QED BY <2>4, <2>5
<1>6. Deepest \in Nat /\ Deepest <= n
  BY <1>1, <1>4, <1>5
<1>7. \A k \in Int : k \in Needs(reports) <=> k <= n /\ 2 * k > n
  BY <1>1, NeedsFacts DEF Reporting
<1>8. ASSUME NEW k \in chosen PROVE k \in Nat /\ 2 * k > n /\ k <= Deepest
  <2>1. k \in Needs(reports) /\ k \in Nat
    BY <1>1, NeedsFacts DEF Chosen
  <2>2. PICK p \in Points : k <= Depth(p)
    BY <1>1, <1>2, <2>1, ChosenAreCliques DEF Points, Reporting
  <2>3. Depth(p) \in depths
    OBVIOUS
  <2> QED BY <1>4, <1>5, <1>6, <1>7, <2>1, <2>2, <2>3
<1>9. ASSUME 2 * Deepest > n PROVE Deepest \in chosen
  <2>1. Deepest \in Needs(reports)
    BY <1>6, <1>7, <1>9
  <2>2. PICK p \in Points : Deepest = Depth(p)
    BY <1>1, <1>5, <1>9
  <2> QED BY <1>1, <1>2, <1>3, <1>6, <2>1, <2>2, ChosenAreCliques
<1> HIDE DEF chosen, depths
<1>10. chosen # {} => Max(chosen) \in chosen /\ \A k \in chosen : k <= Max(chosen)
  <2>1. chosen # {} => Max(chosen) \in Needs(reports) /\ Found(reports, Max(chosen))
                       /\ \A k \in chosen : k <= Max(chosen)
    BY <1>1, LargestIsChosen DEF chosen
  <2> QED BY <2>1 DEF chosen, Chosen
<1>11. chosen # {} <=> 2 * Deepest > n
  BY <1>1, <1>6, <1>8, <1>9
<1>12. chosen # {} => Max(chosen) = Deepest
  BY <1>1, <1>6, <1>8, <1>9, <1>10, <1>11
<1> QED BY <1>11, <1>12 DEF chosen

\* The sweep finds exactly the largest number of intervals with a common point, and only
\* if they are a strict majority (select.rs, select).
THEOREM SelectionFindsLargestMajority == EstimationSpec => []FindsLargestMajority
BY ReportsAreKept, LargestMajorityIsFound, PTL

\* The honest intervals are the majority that contains 0.
LEMMA ErrorIsBounded == ReportsInv => HonestMajorityBoundsTheError
<1> DEFINE dists == {reports[s].dist : s \in Honest}
<1> SUFFICES ASSUME ReportsInv, NoTouching, 2 * Cardinality(Honest) > Len(reports)
             PROVE  /\ Truechimers(reports) # {}
                    /\ \A s \in Truechimers(reports) : /\ Low(reports, s) <= 2 * Max(dists)
                                                       /\ High(reports, s) >= -(2 * Max(dists))
  BY DEF HonestMajorityBoundsTheError
<1>1. /\ Slice(reports) /\ IsFiniteSet(Reporting) /\ Cardinality(Reporting) = Len(reports)
      /\ Len(reports) \in Nat
  BY ReportsAreSlices
<1>2. Honest = Covering(reports, 0) /\ Honest \subseteq Reporting
  BY DEF Honest, Covering, Reporting
<1>3. IsFiniteSet(Honest) /\ Honest # {}
  BY <1>1, <1>2, FS_Subset, FS_EmptySet
<1>4. Max(dists) \in dists /\ \A d \in dists : d <= Max(dists)
  <2>1. [s \in Honest |-> reports[s].dist] \in Surjection(Honest, dists)
    BY DEF Surjection
  <2>2. dists \in SUBSET Int /\ dists # {}
    BY <1>1, <1>2, <1>3 DEF Slice, Reporting
  <2> HIDE DEF dists
  <2>3. IsFiniteSet(dists)
    BY <1>3, <2>1, FS_Surjection
  <2> QED BY <2>2, <2>3, MaxOf
<1>5. /\ Max(dists) \in Int
      /\ \A s \in Honest : reports[s].dist \in Int /\ reports[s].dist <= Max(dists)
  BY <1>1, <1>2, <1>4 DEF Slice, Reporting
<1> DEFINE slack == 2 * Max(dists)
<1> HIDE DEF dists
<1>6. slack \in Int /\ \A s \in Covering(reports, 0) : 2 * reports[s].dist <= slack
  BY <1>2, <1>5
<1>7. \A s, t \in DOMAIN reports : High(reports, s) # Low(reports, t)
  BY DEF NoTouching, Reporting
<1> HIDE DEF slack
<1>8. /\ Truechimers(reports) # {}
      /\ \A s \in Truechimers(reports) : Low(reports, s) <= slack /\ High(reports, s) >= -slack
  BY <1>1, <1>2, <1>6, <1>7, MajorityHoldsTheRegion DEF Reporting
<1> QED BY <1>8 DEF slack

\* When a strict majority of the intervals contain the true offset, every source that may
\* steer is off by no more than its own distance and twice the widest honest one, whatever
\* the falsetickers say (select.rs, select).
THEOREM HonestMajorityWins == EstimationSpec => []HonestMajorityBoundsTheError
BY ReportsAreKept, ErrorIsBounded, PTL

-----------------------------------------------------------------------------
(* The register.                                                           *)

Samples == [t : Int, y : Int, delay : Delays]
Weights == {Unfilled} \cup (Int \X Int)

LEMMA DelayFacts ==
    /\ Infinity \in Int
    /\ \A d \in Delays : d \in Int /\ d < Infinity
<1>1. Delays \in SUBSET Int /\ IsFiniteSet(Delays) /\ Delays # {}
  BY RegisterAssumption
<1>2. Max(Delays) \in Delays /\ \A d \in Delays : d <= Max(Delays)
  BY <1>1, MaxOf
<1>3. Max(Delays) \in Int /\ \A d \in Delays : d \in Int
  BY <1>1, <1>2
<1> QED BY <1>2, <1>3 DEF Infinity

LEMMA AfterFacts ==
    ASSUME NEW S, NEW s \in Seq(S), NEW n \in Nat, n <= Len(s)
    PROVE  /\ After(s, n) \in Seq(S)
           /\ Len(After(s, n)) = Len(s) - n
           /\ \A i \in 1..(Len(s) - n) : After(s, n)[i] = s[i + n]
BY DEF After

\* m is the lowest delay of the samples of s behind the first h, if there are any.
IsLowest(s, h, m) ==
    /\ m \in Int /\ m <= Infinity
    /\ \A i \in (h + 1)..Len(s) : m <= s[i].delay
    /\ m = Infinity \/ \E i \in (h + 1)..Len(s) : s[i].delay = m

LEMMA LowestFacts ==
    ASSUME NEW s \in Seq(Samples), NEW h \in Nat, h <= Len(s)
    PROVE  \A m : m = LowestOf(After(s, h)) <=> IsLowest(s, h, m)
<1> DEFINE a == After(s, h)
           D == {a[i].delay : i \in DOMAIN a}
           T == D \cup {Infinity}
<1>1. /\ a \in Seq(Samples) /\ Len(a) \in Nat /\ Len(a) = Len(s) - h /\ Len(s) \in Nat
      /\ DOMAIN a = 1..Len(a)
      /\ \A i \in 1..Len(a) : a[i] = s[i + h]
  <2>1. /\ a \in Seq(Samples) /\ Len(a) = Len(s) - h
        /\ \A i \in 1..(Len(s) - h) : a[i] = s[i + h]
    BY AfterFacts
  <2>2. Len(s) \in Nat /\ Len(a) \in Nat /\ DOMAIN a = 1..Len(a)
    <3> HIDE DEF a
    <3> QED BY <2>1
  <2> HIDE DEF a
  <2> QED BY <2>1, <2>2
<1>2. \A i \in 1..Len(s) : s[i] \in Samples /\ s[i].delay \in Delays /\ s[i].delay \in Int
                           /\ s[i].delay < Infinity
  <2>1. \A r \in Samples : r.delay \in Delays
    BY DEF Samples
  <2> QED BY <2>1, DelayFacts
<1>3. \A x : x \in D <=> \E i \in (h + 1)..Len(s) : s[i].delay = x
  <2>1. ASSUME NEW i \in DOMAIN a
        PROVE  i + h \in (h + 1)..Len(s) /\ a[i].delay = s[i + h].delay
    BY <1>1
  <2>2. ASSUME NEW i \in (h + 1)..Len(s)
        PROVE  i - h \in DOMAIN a /\ a[i - h].delay = s[i].delay
    <3>1. i - h \in 1..Len(a) /\ (i - h) + h = i
      BY <1>1
    <3> QED BY <1>1, <3>1
  <2> HIDE DEF a
  <2> QED BY <2>1, <2>2
<1>4. IsFiniteSet(T)
  <2>1. IsFiniteSet(DOMAIN a)
    <3>1. IsFiniteSet(1..Len(a))
      BY <1>1, FS_Interval
    <3> QED BY <1>1, <3>1
  <2>2. [i \in DOMAIN a |-> a[i].delay] \in Surjection(DOMAIN a, D)
    BY DEF Surjection
  <2>3. IsFiniteSet(D)
    <3> HIDE DEF D, a
    <3> QED BY <2>1, <2>2, FS_Surjection
  <2> QED BY <2>3, FS_AddElement
<1>5. T \in SUBSET Int /\ T # {}
  <2> HIDE DEF D, a
  <2>1. \A x \in D : x \in Int
    BY <1>2, <1>3
  <2> QED BY <2>1, DelayFacts
<1>6. Min(T) \in T /\ \A x \in T : Min(T) <= x
  <2> HIDE DEF T
  <2> QED BY <1>4, <1>5, MinOf
<1>7. LowestOf(a) = Min(T)
  BY DEF LowestOf
<1>8. \A x : x \in T <=> x = Infinity \/ \E i \in (h + 1)..Len(s) : s[i].delay = x
  <2> HIDE DEF D
  <2> QED BY <1>3
<1> HIDE DEF a, D, T
<1>9. IsLowest(s, h, Min(T))
  <2>1. \A i \in (h + 1)..Len(s) : s[i].delay \in T
    BY <1>8
  <2> QED BY <1>5, <1>6, <1>8, <2>1 DEF IsLowest
<1>10. ASSUME NEW m, IsLowest(s, h, m) PROVE m = Min(T)
  <2>1. m \in T
    BY <1>8, <1>10 DEF IsLowest
  <2>2. m <= Min(T)
    BY <1>6, <1>8, <1>10 DEF IsLowest
  <2>3. m \in Int /\ Min(T) \in Int /\ Min(T) <= m
    BY <1>5, <1>6, <2>1
  <2> QED BY <2>2, <2>3
<1> QED BY <1>7, <1>9, <1>10 DEF a

-----------------------------------------------------------------------------
(* The invariant of the register.                                          *)

RegisterTypeInv ==
    /\ samples \in Seq(Samples) /\ weights \in Seq(Weights)
    /\ Len(weights) = Len(samples)
    /\ head \in Nat /\ head <= Len(samples) /\ head < RegisterCapacity
    /\ pushed \in Nat /\ settled \in BOOLEAN /\ caller \in {"loop", "query", "done"}
    /\ clock \in [offset : Int, freq : Int]
WindowInv ==
    /\ Len(samples) - head = Lower(pushed, RegisterCapacity)
    /\ \A i \in Live : /\ samples[i].t = pushed - (Len(samples) - i)
                       /\ samples[i].y = Off(clock, samples[i].t)
MinInv == IsLowest(samples, head, minDelay)

\* All live weights were last computed for weightsFor, except that of a sample pushed
\* since; none has been as long as weightsFor is no delay.
WeightsInv ==
    /\ weightsFor \in Int
    /\ weightsFor # Infinity =>
          /\ caller # "query" /\ pushed >= 3
          /\ \A i \in Live : i < Len(samples) \/ settled =>
                 weights[i] = <<samples[i].delay, weightsFor>>
    /\ settled /\ pushed >= 3 => weightsFor = minDelay
    /\ caller = "done" => settled
RegisterInv == RegisterTypeInv /\ WindowInv /\ MinInv /\ WeightsInv

LEMMA PushKeeps ==
    ASSUME RegisterInv, NEW d \in Delays, Push(d)
    PROVE  RegisterInv'
<1> DEFINE n       == Len(samples)
           sample  == [t |-> pushed + 1, y |-> Off(clock, pushed + 1), delay |-> d]
           grown   == Append(samples, sample)
           heavier == Append(weights, Unfilled)
           evicts  == Len(grown) - head > RegisterCapacity
           dead    == IF evicts THEN head + 1 ELSE head
           lowest  == IF evicts THEN MinWithout(samples[head + 1], After(grown, dead))
                      ELSE minDelay
           drained == IF dead >= RegisterCapacity THEN dead ELSE 0
<1>1. /\ n \in Nat /\ head \in Nat /\ head <= n /\ head < RegisterCapacity /\ pushed \in Nat
      /\ RegisterCapacity \in Nat /\ RegisterCapacity >= 3
      /\ samples \in Seq(Samples) /\ weights \in Seq(Weights) /\ Len(weights) = n
      /\ n - head = Lower(pushed, RegisterCapacity)
      /\ clock \in [offset : Int, freq : Int] /\ d \in Int
  BY RegisterAssumption, DelayFacts DEF RegisterInv, RegisterTypeInv, WindowInv
<1>2. sample \in Samples
  <2>1. clock = [offset |-> clock.offset, freq |-> clock.freq]
        /\ clock.offset \in Int /\ clock.freq \in Int
    BY <1>1
  <2>2. Off(clock, pushed + 1) \in Int
    <3>1. clock.freq * (pushed + 1) \in Int
      BY <1>1, <2>1
    <3> QED BY <2>1, <3>1 DEF Off
  <2> QED BY <1>1, <2>2 DEF Samples
<1>3. /\ grown \in Seq(Samples) /\ Len(grown) = n + 1
      /\ \A i \in 1..n : grown[i] = samples[i]
      /\ grown[n + 1] = sample
  <2> HIDE DEF sample
  <2> QED BY <1>1, <1>2
<1>4. /\ heavier \in Seq(Weights) /\ Len(heavier) = n + 1
      /\ \A i \in 1..n : heavier[i] = weights[i]
  <2>1. Unfilled \in Weights
    BY DEF Weights
  <2> QED BY <1>1, <2>1
<1>5. /\ samples' = After(grown, drained) /\ weights' = After(heavier, drained)
      /\ head' = dead - drained /\ minDelay' = Lower(lowest, d)
      /\ pushed' = pushed + 1 /\ settled' = FALSE
      /\ UNCHANGED <<weightsFor, caller, clock, changes>>
      /\ caller = "loop" => settled
      /\ caller # "done"
  BY DEF Push
<1> HIDE DEF sample, grown, heavier
<1>6. /\ evicts <=> n - head = RegisterCapacity
      /\ evicts <=> pushed >= RegisterCapacity
      /\ dead \in Nat /\ dead <= n + 1 /\ head <= dead /\ drained \in Nat /\ drained <= dead
      /\ dead - drained < RegisterCapacity
      /\ (n + 1) - dead = Lower(pushed + 1, RegisterCapacity)
  <2>1. /\ n \in Nat /\ head \in Nat /\ head <= n /\ head < RegisterCapacity /\ pushed \in Nat
        /\ RegisterCapacity \in Nat /\ RegisterCapacity >= 3
        /\ n - head = Lower(pushed, RegisterCapacity) /\ Len(grown) = n + 1
    BY <1>1, <1>3
  <2> HIDE DEF n
  <2>2. n - head <= RegisterCapacity /\ (n - head = RegisterCapacity <=> pushed >= RegisterCapacity)
    BY <2>1 DEF Lower
  <2>3. /\ evicts <=> n - head = RegisterCapacity
        /\ evicts <=> pushed >= RegisterCapacity
    BY <2>1, <2>2
  <2>4. CASE evicts
    BY <2>1, <2>2, <2>3, <2>4 DEF Lower
  <2>5. CASE ~ evicts
    BY <2>1, <2>2, <2>3, <2>5 DEF Lower
  <2> QED BY <2>4, <2>5
<1> HIDE DEF evicts, dead, drained
<1>7. /\ samples' \in Seq(Samples) /\ Len(samples') = (n + 1) - drained
      /\ \A i \in 1..((n + 1) - drained) : samples'[i] = grown[i + drained]
      /\ weights' \in Seq(Weights) /\ Len(weights') = (n + 1) - drained
      /\ \A i \in 1..((n + 1) - drained) : weights'[i] = heavier[i + drained]
  <2>1. drained \in Nat /\ drained <= n + 1
    BY <1>1, <1>6
  <2>2. drained <= Len(grown) /\ drained <= Len(heavier)
    BY <1>3, <1>4, <2>1
  <2>3. /\ After(grown, drained) \in Seq(Samples)
        /\ Len(After(grown, drained)) = Len(grown) - drained
        /\ \A i \in 1..(Len(grown) - drained) : After(grown, drained)[i] = grown[i + drained]
    BY <1>3, <2>1, <2>2, AfterFacts
  <2>4. /\ After(heavier, drained) \in Seq(Weights)
        /\ Len(After(heavier, drained)) = Len(heavier) - drained
        /\ \A i \in 1..(Len(heavier) - drained) : After(heavier, drained)[i] = heavier[i + drained]
    BY <1>4, <2>1, <2>2, AfterFacts
  <2> QED BY <1>3, <1>4, <1>5, <2>3, <2>4
<1>8. RegisterTypeInv'
  <2>1. head' \in Nat /\ head' <= Len(samples') /\ head' < RegisterCapacity
    BY <1>1, <1>5, <1>6, <1>7
  <2>2. caller' \in {"loop", "query", "done"} /\ settled' \in BOOLEAN
    BY <1>5 DEF RegisterInv, RegisterTypeInv
  <2>3. clock' \in [offset : Int, freq : Int] /\ pushed' \in Nat
    BY <1>1, <1>5
  <2>4. Len(weights') = Len(samples')
    BY <1>7
  <2> QED BY <1>7, <2>1, <2>2, <2>3, <2>4 DEF RegisterTypeInv
\* A live sample is an old live one, or the new one, which is the last.
<1>9. ASSUME NEW i \in Live'
      PROVE  /\ i \in 1..((n + 1) - drained)
             /\ \/ /\ i + drained \in Live /\ i < Len(samples')
                   /\ samples'[i] = samples[i + drained] /\ weights'[i] = weights[i + drained]
                \/ /\ i = Len(samples')
                   /\ samples'[i] = sample
  <2>1. i \in Int /\ dead - drained + 1 <= i /\ i <= (n + 1) - drained
    <3>1. i \in (dead - drained + 1)..((n + 1) - drained)
      BY <1>5, <1>7 DEF Live
    <3> QED BY <1>1, <1>6, <3>1
  <2>2. i \in 1..((n + 1) - drained)
    BY <1>1, <1>6, <2>1
  <2>3. samples'[i] = grown[i + drained] /\ weights'[i] = heavier[i + drained]
    BY <1>7, <2>2
  <2>4. CASE i < (n + 1) - drained
    <3>1. i + drained \in (head + 1)..n /\ i + drained \in 1..n
      BY <1>1, <1>6, <2>1, <2>4
    <3>2. grown[i + drained] = samples[i + drained] /\ heavier[i + drained] = weights[i + drained]
      BY <1>3, <1>4, <3>1
    <3> QED BY <1>7, <2>2, <2>3, <2>4, <3>1, <3>2 DEF Live
  <2>5. CASE i = (n + 1) - drained
    <3>1. i + drained = n + 1
      BY <1>1, <1>6, <2>5
    <3> QED BY <1>3, <1>7, <2>2, <2>3, <2>5, <3>1
  <2> QED BY <1>1, <1>6, <2>1, <2>4, <2>5
<1>10. WindowInv'
  <2>1. Len(samples') - head' = Lower(pushed', RegisterCapacity)
    BY <1>1, <1>5, <1>6, <1>7
  <2>2. ASSUME NEW i \in Live'
        PROVE  /\ samples'[i].t = pushed' - (Len(samples') - i)
               /\ samples'[i].y = Off(clock', samples'[i].t)
    <3>1. CASE i = Len(samples') /\ samples'[i] = sample
      BY <1>1, <1>5, <1>6, <1>7, <3>1 DEF sample
    <3>2. CASE i + drained \in Live /\ samples'[i] = samples[i + drained]
      <4>1. samples[i + drained].t = pushed - (n - (i + drained))
            /\ samples[i + drained].y = Off(clock, samples[i + drained].t)
        BY <3>2 DEF RegisterInv, WindowInv
      <4>2. i \in Int
        BY <1>9
      <4>3. pushed - (n - (i + drained)) = (pushed + 1) - (((n + 1) - drained) - i)
        BY <1>1, <1>6, <4>2
      <4> QED BY <1>5, <1>7, <3>2, <4>1, <4>3
    <3> QED BY <1>9, <3>1, <3>2
  <2> QED BY <2>1, <2>2 DEF WindowInv
<1>11. IsLowest(grown, dead, Lower(lowest, d))
  <2>1. IsLowest(samples, head, minDelay)
    BY DEF RegisterInv, MinInv
  <2>2. sample.delay = d /\ d < Infinity /\ Infinity \in Int
    BY DelayFacts DEF sample
  <2>3. \A i \in 1..n : samples[i].delay \in Int
    <3>1. \A i \in 1..n : samples[i] \in Samples
      BY <1>1
    <3> QED BY <3>1, DelayFacts DEF Samples
  \* lowest is the lowest of the old samples that stay
  <2>4. /\ lowest \in Int /\ lowest <= Infinity
        /\ \A i \in (dead + 1)..n : lowest <= samples[i].delay
        /\ \/ lowest = Infinity
           \/ \E i \in (dead + 1)..n : samples[i].delay = lowest
           \/ lowest >= d
    <3>1. CASE ~ evicts
      <4>1. dead = head /\ lowest = minDelay
        BY <3>1 DEF dead
      <4> QED BY <2>1, <4>1 DEF IsLowest
    <3>2. CASE evicts /\ ~ (samples[head + 1].delay <= minDelay)
      <4>1. dead = head + 1 /\ lowest = minDelay
        BY <3>2 DEF dead, MinWithout
      <4>2. \A i \in (head + 1)..n : samples[i].delay = minDelay => i \in (dead + 1)..n
        BY <1>1, <3>2, <4>1, <2>1 DEF IsLowest
      <4> QED BY <1>1, <2>1, <4>1, <4>2 DEF IsLowest
    <3>3. CASE evicts /\ samples[head + 1].delay <= minDelay
      <4>1. lowest = LowestOf(After(grown, dead))
        BY <3>3 DEF MinWithout
      <4>2. IsLowest(grown, dead, lowest)
        <5> HIDE DEF lowest
        <5> QED BY <1>3, <1>6, <4>1, LowestFacts
      <4> HIDE DEF lowest
      <4>3. \A i \in (dead + 1)..n : i \in (dead + 1)..Len(grown) /\ grown[i] = samples[i]
        BY <1>1, <1>3, <1>6
      <4>4. \A i \in (dead + 1)..Len(grown) :
               i \in (dead + 1)..n \/ grown[i].delay = d
        BY <1>1, <1>3, <1>6, <2>2
      <4>5. /\ lowest \in Int /\ lowest <= Infinity
            /\ \A i \in (dead + 1)..n : lowest <= samples[i].delay
        BY <4>2, <4>3 DEF IsLowest
      <4>6. \/ lowest = Infinity
            \/ \E i \in (dead + 1)..n : samples[i].delay = lowest
            \/ lowest = d
        BY <4>2, <4>3, <4>4 DEF IsLowest
      <4> QED BY <4>5, <4>6, <1>1
    <3> QED BY <3>1, <3>2, <3>3
  <2> HIDE DEF lowest
  <2>5. \A i \in (dead + 1)..Len(grown) :
           \/ i = n + 1 /\ grown[i].delay = d
           \/ i \in (dead + 1)..n /\ grown[i] = samples[i] /\ samples[i].delay \in Int
    BY <1>1, <1>3, <1>6, <2>2, <2>3
  <2>6. n + 1 \in (dead + 1)..Len(grown) /\ grown[n + 1].delay = d
    <3>1. dead <= n
      BY <1>1, <1>6 DEF dead, Lower
    <3> QED BY <1>1, <1>3, <1>6, <2>2, <3>1
  <2>7. \A i \in (dead + 1)..n : i \in (dead + 1)..Len(grown) /\ grown[i] = samples[i]
    BY <1>1, <1>3, <1>6
  <2>8. CASE lowest < d
    <3>1. Lower(lowest, d) = lowest
      BY <2>8 DEF Lower
    <3>2. \A i \in (dead + 1)..Len(grown) : lowest <= grown[i].delay
      BY <1>1, <2>4, <2>5, <2>8
    <3>3. \E i \in (dead + 1)..Len(grown) : grown[i].delay = lowest
      BY <1>1, <2>2, <2>4, <2>7, <2>8
    <3> QED BY <2>4, <3>1, <3>2, <3>3 DEF IsLowest
  <2>9. CASE ~ (lowest < d)
    <3>1. Lower(lowest, d) = d
      BY <2>9 DEF Lower
    <3>2. \A i \in (dead + 1)..Len(grown) : d <= grown[i].delay
      BY <1>1, <2>4, <2>5, <2>9
    <3> QED BY <1>1, <2>2, <2>6, <3>1, <3>2 DEF IsLowest
  <2> QED BY <2>8, <2>9
<1>12. MinInv'
  <2> DEFINE m == Lower(lowest, d)
  <2> HIDE DEF m, lowest
  <2>1. IsLowest(grown, dead, m)
    BY <1>11 DEF m
  <2>2. \A i \in (head' + 1)..Len(samples') :
           i + drained \in (dead + 1)..Len(grown) /\ samples'[i] = grown[i + drained]
    BY <1>1, <1>3, <1>5, <1>6, <1>7
  <2>3. \A i \in (dead + 1)..Len(grown) :
           i - drained \in (head' + 1)..Len(samples') /\ samples'[i - drained] = grown[i]
    <3> TAKE i \in (dead + 1)..Len(grown)
    <3>1. i - drained \in (head' + 1)..Len(samples') /\ (i - drained) + drained = i
          /\ i - drained \in 1..((n + 1) - drained)
      BY <1>1, <1>3, <1>5, <1>6, <1>7
    <3> QED BY <1>7, <3>1
  <2>4. IsLowest(samples', head', m)
    <3>1. m = Infinity \/ \E i \in (head' + 1)..Len(samples') : samples'[i].delay = m
      BY <2>1, <2>3 DEF IsLowest
    <3> QED BY <2>1, <2>2, <3>1 DEF IsLowest
  <2> QED BY <1>5, <2>4 DEF MinInv, m, IsLowest
<1>13. WeightsInv'
  <2>1. ASSUME weightsFor # Infinity, NEW i \in Live', i < Len(samples')
        PROVE  weights'[i] = <<samples'[i].delay, weightsFor>>
    <3>1. settled
      BY <1>5, <2>1 DEF RegisterInv, WeightsInv, RegisterTypeInv
    <3>2. /\ i + drained \in Live /\ samples'[i] = samples[i + drained]
          /\ weights'[i] = weights[i + drained]
      BY <1>7, <1>9, <2>1
    <3> QED BY <2>1, <3>1, <3>2 DEF RegisterInv, WeightsInv
  <2> QED BY <1>1, <1>5, <2>1 DEF RegisterInv, WeightsInv
<1> QED BY <1>8, <1>10, <1>12, <1>13 DEF RegisterInv

\* The live samples are as many as the code counts.
LEMMA LiveFacts ==
    ASSUME RegisterInv
    PROVE  /\ Cardinality(Live) = Len(samples) - head
           /\ Cardinality(Live) >= 3 <=> pushed >= 3
           /\ \A i \in Live : i \in 1..Len(samples)
<1>1. /\ Len(samples) \in Nat /\ head \in Nat /\ head <= Len(samples) /\ pushed \in Nat
      /\ RegisterCapacity \in Nat /\ RegisterCapacity >= 3
      /\ Len(samples) - head = Lower(pushed, RegisterCapacity)
  BY RegisterAssumption DEF RegisterInv, RegisterTypeInv, WindowInv
<1>2. Cardinality((head + 1)..Len(samples)) = Len(samples) - head
  <2> DEFINE a == head + 1
             b == Len(samples)
  <2>1. a \in Int /\ b \in Int /\ a <= b + 1 /\ b - a + 1 = Len(samples) - head
    BY <1>1
  <2> HIDE DEF a, b
  <2>2. Cardinality(a..b) = IF a > b THEN 0 ELSE b - a + 1
    BY <2>1, FS_Interval
  <2>3. Cardinality(a..b) = Len(samples) - head
    BY <2>1, <2>2
  <2> QED BY <2>3 DEF a, b
<1>3. Cardinality(Live) = Len(samples) - head
  BY <1>2 DEF Live
<1>4. Cardinality(Live) >= 3 <=> pushed >= 3
  BY <1>1, <1>3 DEF Lower
<1>5. \A i \in Live : i \in 1..Len(samples)
  BY <1>1 DEF Live
<1> QED BY <1>3, <1>4, <1>5

LEMMA RegressKeeps ==
    ASSUME RegisterInv, Regress
    PROVE  RegisterInv'
<1> DEFINE n == Len(samples)
<1>1. /\ samples \in Seq(Samples) /\ weights \in Seq(Weights) /\ Len(weights) = n /\ n \in Nat
      /\ head \in Nat /\ pushed \in Nat
      /\ minDelay \in Int /\ weightsFor \in Int
  BY DEF RegisterInv, RegisterTypeInv, MinInv, IsLowest, WeightsInv
<1>2. /\ samples' = samples /\ head' = head /\ minDelay' = minDelay /\ pushed' = pushed
      /\ clock' = clock /\ settled' = TRUE /\ settled = FALSE
      /\ caller' = IF caller = "query" THEN "done" ELSE caller
  BY DEF Regress, RegisterInv, RegisterTypeInv
<1>3. Live' = Live /\ WindowInv' /\ MinInv'
  BY <1>2 DEF RegisterInv, WindowInv, MinInv, Live, IsLowest
<1>4. caller # "done"
  BY <1>2 DEF RegisterInv, WeightsInv
<1>5. CASE pushed < 3
  <2>1. UNCHANGED <<weights, weightsFor>>
    BY <1>1, <1>5, LiveFacts DEF Regress
  <2>2. RegisterTypeInv'
    BY <1>1, <1>2, <2>1 DEF RegisterInv, RegisterTypeInv
  <2>3. weightsFor = Infinity
    BY <1>1, <1>5 DEF RegisterInv, WeightsInv
  <2>4. WeightsInv'
    <3>1. Infinity' = Infinity
      BY DEF Infinity
    <3> QED BY <1>1, <1>2, <1>5, <2>1, <2>3, <3>1 DEF WeightsInv
  <2> QED BY <1>3, <2>2, <2>4 DEF RegisterInv
<1>6. CASE pushed >= 3
  <2>1. SyncWeights
    BY <1>1, <1>6, LiveFacts DEF Regress
  <2>2. /\ weightsFor' = minDelay
        /\ \A i \in 1..n : weights'[i] = IF i >= SyncedFrom THEN <<samples[i].delay, minDelay>>
                                         ELSE weights[i]
        /\ DOMAIN weights' = 1..n
    BY <1>1, <2>1 DEF SyncWeights
  <2>3. weights' \in Seq(Weights) /\ Len(weights') = n
    <3>1. \A i \in 1..n : samples[i].delay \in Int /\ weights[i] \in Weights
      <4>1. \A i \in 1..n : samples[i] \in Samples
        BY <1>1
      <4> QED BY <1>1, <4>1, DelayFacts DEF Samples
    <3>2. \A i \in 1..n : <<samples[i].delay, minDelay>> \in Weights
      BY <1>1, <3>1 DEF Weights
    <3>3. \A i \in 1..n : weights'[i] \in Weights
      BY <2>2, <3>1, <3>2
    <3>4. weights' = [i \in 1..n |-> weights'[i]]
      BY <1>1, <2>1 DEF SyncWeights
    <3> QED BY <1>1, <3>3, <3>4
  <2>4. RegisterTypeInv'
    BY <1>1, <1>2, <2>3 DEF RegisterInv, RegisterTypeInv
  <2>5. minDelay # Infinity
    <3>1. PICK i \in Live : TRUE
      <4>1. Cardinality(Live) >= 3
        BY <1>6, LiveFacts
      <4> QED BY <4>1, FS_EmptySet
    <3>2. i \in (head + 1)..Len(samples) /\ samples[i].delay \in Delays
      <4>1. samples[i] \in Samples
        BY <1>1, LiveFacts
      <4> QED BY <4>1, <3>1 DEF Samples, Live
    <3>3. minDelay <= samples[i].delay /\ samples[i].delay < Infinity
      BY <3>2, DelayFacts DEF RegisterInv, MinInv, IsLowest
    <3> QED BY <1>1, <3>2, <3>3, DelayFacts
  <2>6. ASSUME NEW i \in Live PROVE weights'[i] = <<samples[i].delay, minDelay>>
    <3>1. i \in 1..n /\ i \in (head + 1)..n
      BY LiveFacts DEF Live
    <3>2. CASE weightsFor # minDelay
      <4>1. i >= SyncedFrom
        BY <1>1, <3>1, <3>2 DEF SyncedFrom
      <4> QED BY <2>2, <3>1, <4>1
    <3>3. CASE weightsFor = minDelay
      <4>1. SyncedFrom = n
        BY <3>3 DEF SyncedFrom
      <4>2. i < n => weights[i] = <<samples[i].delay, minDelay>>
        BY <2>5, <2>6, <3>3 DEF RegisterInv, WeightsInv
      <4> QED BY <1>1, <2>2, <3>1, <4>1, <4>2
    <3> QED BY <3>2, <3>3
  <2>7. WeightsInv'
    <3>1. Infinity' = Infinity
      BY DEF Infinity
    <3> QED BY <1>1, <1>2, <1>3, <1>4, <1>6, <2>2, <2>6, <3>1
        DEF WeightsInv, RegisterInv, RegisterTypeInv
  <2> QED BY <1>3, <2>4, <2>7 DEF RegisterInv
<1> QED BY <1>1, <1>5, <1>6

\* A walk over the window restates each sample for the clock as it is corrected.
LEMMA RestatedFacts ==
    ASSUME NEW s \in Samples, NEW dfreq \in Int, NEW doffset \in Int, NEW p \in Int
    PROVE  /\ Restated(s, dfreq, doffset, p) \in Samples
           /\ Restated(s, dfreq, doffset, p).t = s.t
           /\ Restated(s, dfreq, doffset, p).delay = s.delay
           /\ Restated(s, dfreq, doffset, p).y = s.y - (doffset + dfreq * (s.t - p))
<1>1. s.t \in Int /\ s.y \in Int /\ s.delay \in Delays /\ s = [t |-> s.t, y |-> s.y, delay |-> s.delay]
  BY DEF Samples
<1>2. dfreq * (s.t - p) \in Int /\ (dfreq = 0 => dfreq * (s.t - p) = 0)
  BY <1>1
<1> QED BY <1>1, <1>2 DEF Restated, Samples

LEMMA SlewKeeps ==
    ASSUME RegisterInv, NEW dfreq \in Int, NEW doffset \in Int, SlewSamples(dfreq, doffset)
    PROVE  RegisterInv'
<1> DEFINE n == Len(samples)
<1>1. /\ samples \in Seq(Samples) /\ n \in Nat /\ head \in Nat /\ pushed \in Nat
      /\ \A i \in 1..n : samples[i] \in Samples
      /\ clock \in [offset : Int, freq : Int]
  BY DEF RegisterInv, RegisterTypeInv
<1>2. /\ samples' = [i \in 1..n |-> IF i \in Live THEN Restated(samples[i], dfreq, doffset, pushed)
                                    ELSE samples[i]]
      /\ clock' = [offset |-> clock.offset - doffset + dfreq * pushed, freq |-> clock.freq - dfreq]
      /\ UNCHANGED <<weights, weightsFor, head, minDelay, settled, caller, pushed>>
  BY <1>1 DEF SlewSamples
<1>3. samples' \in Seq(Samples) /\ Len(samples') = n
  <2>1. \A i \in 1..n : Restated(samples[i], dfreq, doffset, pushed) \in Samples
    BY <1>1, RestatedFacts
  <2> QED BY <1>1, <1>2, <2>1
<1>4. /\ Live' = Live /\ \A i \in Live : i \in 1..n
  BY <1>2, <1>3, LiveFacts DEF Live
<1>5. clock' \in [offset : Int, freq : Int]
  <2>1. dfreq * pushed \in Int
    BY <1>1
  <2> QED BY <1>1, <1>2, <2>1
<1>6. RegisterTypeInv'
  BY <1>1, <1>2, <1>3, <1>5 DEF RegisterInv, RegisterTypeInv
<1>7. \A i \in 1..n : samples'[i].delay = samples[i].delay /\ samples'[i].t = samples[i].t
  <2> TAKE i \in 1..n
  <2>1. /\ Restated(samples[i], dfreq, doffset, pushed).t = samples[i].t
        /\ Restated(samples[i], dfreq, doffset, pushed).delay = samples[i].delay
    BY <1>1, RestatedFacts
  <2> QED BY <1>2, <2>1
<1>8. WindowInv'
  <2>1. ASSUME NEW i \in Live
        PROVE  samples'[i].y = Off(clock', samples[i].t)
    <3> DEFINE t == samples[i].t
    <3>1. i \in 1..n /\ samples[i] \in Samples /\ t \in Int
      BY <1>1, <1>4 DEF Samples
    <3>2. samples[i].y = Off(clock, t)
      BY DEF RegisterInv, WindowInv
    <3>3. /\ clock'.offset = clock.offset - doffset + dfreq * pushed
          /\ clock'.freq = clock.freq - dfreq
      BY <1>2
    <3> HIDE DEF t
    <3>4. Off(clock, t) - (doffset + dfreq * (t - pushed)) = Off(clock', t)
      <4> DEFINE a == clock.offset
                 b == clock.freq
      <4>1. a \in Int /\ b \in Int
        BY <1>1
      <4> HIDE DEF a, b
      <4>2. b * t \in Int /\ dfreq * t \in Int /\ dfreq * pushed \in Int
            /\ (b - dfreq) * t = b * t - dfreq * t
            /\ dfreq * (t - pushed) = dfreq * t - dfreq * pushed
        BY <1>1, <3>1, <4>1
      <4>3. (a + b * t) - (doffset + dfreq * (t - pushed))
            = (a - doffset + dfreq * pushed) + (b - dfreq) * t
        BY <4>1, <4>2
      <4> QED BY <3>3, <4>3 DEF Off, a, b
    <3>5. samples'[i].y = samples[i].y - (doffset + dfreq * (t - pushed))
      BY <1>1, <1>2, <3>1, RestatedFacts DEF t
    <3> QED BY <3>2, <3>4, <3>5 DEF t
  <2>2. Len(samples') - head' = Lower(pushed', RegisterCapacity)
    BY <1>2, <1>3 DEF RegisterInv, WindowInv
  <2>3. ASSUME NEW i \in Live' 
        PROVE  /\ samples'[i].t = pushed' - (Len(samples') - i)
               /\ samples'[i].y = Off(clock', samples'[i].t)
    <3>1. i \in Live /\ i \in 1..n
      BY <1>4
    <3>2. samples[i].t = pushed - (n - i)
      BY <3>1 DEF RegisterInv, WindowInv
    <3> QED BY <1>2, <1>3, <1>7, <2>1, <3>1, <3>2
  <2> QED BY <2>2, <2>3 DEF WindowInv
<1>9. MinInv'
  <2>1. \A i \in (head + 1)..n : samples'[i].delay = samples[i].delay
    BY <1>4, <1>7 DEF Live
  <2>2. Infinity' = Infinity
    BY DEF Infinity
  <2> QED BY <1>2, <1>3, <2>1, <2>2 DEF RegisterInv, MinInv, IsLowest
<1>10. WeightsInv'
  <2>1. Infinity' = Infinity
    BY DEF Infinity
  <2> QED BY <1>2, <1>3, <1>4, <1>7, <2>1 DEF RegisterInv, WeightsInv
<1> QED BY <1>6, <1>8, <1>9, <1>10 DEF RegisterInv

LEMMA RegisterIsKept == EstimationSpec => []RegisterInv
<1>1. EstimationInit => RegisterInv
  <2> SUFFICES ASSUME RegisterInit PROVE RegisterInv
    BY DEF EstimationInit
  <2>1. /\ samples = <<>> /\ weights = <<>> /\ weightsFor = Infinity /\ head = 0
        /\ minDelay = Infinity /\ settled = TRUE /\ pushed = 0
        /\ caller \in {"loop", "query"} /\ clock = [offset |-> 0, freq |-> 0]
    BY DEF RegisterInit
  <2>2. Live = {}
    BY <2>1 DEF Live
  <2>3. RegisterTypeInv
    BY <2>1, RegisterAssumption DEF RegisterTypeInv
  <2>4. WindowInv
    BY <2>1, <2>2, RegisterAssumption DEF WindowInv, Lower
  <2>5. MinInv
    BY <2>1, DelayFacts DEF MinInv, IsLowest
  <2>6. WeightsInv
    BY <2>1, DelayFacts DEF WeightsInv
  <2> QED BY <2>3, <2>4, <2>5, <2>6 DEF RegisterInv
<1>2. RegisterInv /\ [EstimationNext]_<<part, reports, window, shape, registerVars>> => RegisterInv'
  <2> SUFFICES ASSUME RegisterInv,
                      [EstimationNext]_<<part, reports, window, shape, registerVars>>
               PROVE  RegisterInv'
    OBVIOUS
  <2>1. ASSUME UNCHANGED registerVars PROVE RegisterInv'
    <3>1. /\ UNCHANGED <<samples, weights, weightsFor, head, minDelay, settled, caller, pushed, clock>>
          /\ Infinity' = Infinity
      BY <2>1 DEF registerVars, Infinity
    <3> QED BY <3>1 DEF RegisterInv, RegisterTypeInv, WindowInv, MinInv, IsLowest, WeightsInv, Live
  <2>2. ASSUME RegisterNext PROVE RegisterInv'
    BY <2>2, PushKeeps, RegressKeeps, SlewKeeps, RegisterAssumption DEF RegisterNext
  <2> QED BY <2>1, <2>2 DEF EstimationNext, Report, Lengthen, UseRegister
<1> QED BY <1>1, <1>2, PTL DEF EstimationSpec

\* What is cached beside a register is what would be computed from it, whatever was
\* pushed, evicted and reclaimed (filter.rs, push, sync_weights, regress).
THEOREM RegisterCachesAreFresh == EstimationSpec => []CachesAreFresh
<1>1. RegisterInv => CachesAreFresh
  <2> SUFFICES ASSUME RegisterInv PROVE CachesAreFresh
    OBVIOUS
  <2>1. minDelay = LowestOf(After(samples, head))
    BY LowestFacts DEF RegisterInv, RegisterTypeInv, MinInv
  <2>2. ASSUME settled, Cardinality(Live) >= 3, NEW i \in Live
        PROVE  weights[i] = <<samples[i].delay, minDelay>>
    <3>1. pushed >= 3 /\ weightsFor = minDelay
      BY <2>2, LiveFacts DEF RegisterInv, WeightsInv
    <3>2. minDelay # Infinity
      <4>1. i \in (head + 1)..Len(samples) /\ samples[i].delay \in Delays
        <5>1. samples[i] \in Samples
          BY <2>2, LiveFacts DEF RegisterInv, RegisterTypeInv
        <5> QED BY <5>1 DEF Samples, Live
      <4>2. minDelay \in Int /\ minDelay <= samples[i].delay
        BY <4>1 DEF RegisterInv, MinInv, IsLowest
      <4> QED BY <4>1, <4>2, DelayFacts
    <3> QED BY <2>2, <3>1, <3>2 DEF RegisterInv, WeightsInv
  <2> QED BY <2>1, <2>2 DEF CachesAreFresh
<1> QED BY RegisterIsKept, <1>1, PTL

\* The window is the newest samples, in order, each restated for every correction of the
\* clock since it was taken (filter.rs, push, slew_samples).
THEOREM RegisterIsRestated == EstimationSpec => []WindowIsRestated
<1>1. RegisterInv => WindowIsRestated
  <2> SUFFICES ASSUME RegisterInv PROVE WindowIsRestated
    OBVIOUS
  <2>1. Cardinality(Live) = Lower(pushed, RegisterCapacity)
    BY LiveFacts DEF RegisterInv, WindowInv
  <2>2. Len(samples) < 2 * RegisterCapacity
    BY RegisterAssumption DEF RegisterInv, RegisterTypeInv, WindowInv, Lower
  <2> QED BY <2>1, <2>2 DEF WindowIsRestated, RegisterInv, WindowInv
<1> QED BY RegisterIsKept, <1>1, PTL

-----------------------------------------------------------------------------
(* The spike test.                                                         *)

LEMMA MagnitudeFacts == \A x \in Int : Magnitude(x) \in Nat
BY DEF Magnitude

\* The selection puts an element at every position.
LEMMA SelectedFacts ==
    ASSUME NEW r, NEW n \in Nat, DOMAIN r = 1..n, \A i \in 1..n : r[i] \in Int,
           NEW k \in Nat, k < n
    PROVE  /\ Selected(r, k) \in Nat
           /\ Cardinality({i \in 1..n : Magnitude(r[i]) < Selected(r, k)}) <= k
           /\ k < Cardinality({i \in 1..n : Magnitude(r[i]) <= Selected(r, k)})
<1> DEFINE I == 1..n
           M == {Magnitude(r[i]) : i \in I}
           AtMostAs(m) == {i \in I : Magnitude(r[i]) <= m}
           Less(m) == {i \in I : Magnitude(r[i]) < m}
           Enough == {m \in M : k < Cardinality(AtMostAs(m))}
<1>1. IsFiniteSet(I) /\ Cardinality(I) = n
  <2>1. Cardinality(1..n) = IF 1 > n THEN 0 ELSE n - 1 + 1
    BY FS_Interval
  <2>2. IsFiniteSet(1..n)
    BY FS_Interval
  <2> QED BY <2>1, <2>2
<1>2. \A i \in I : Magnitude(r[i]) \in Nat
  BY MagnitudeFacts
<1>3. IsFiniteSet(M) /\ M \in SUBSET Int /\ M # {} /\ \A m \in M : m \in Nat
  <2>1. [i \in I |-> Magnitude(r[i])] \in Surjection(I, M)
    BY DEF Surjection
  <2>2. IsFiniteSet(M)
    <3> HIDE DEF I, M
    <3> QED BY <1>1, <2>1, FS_Surjection
  <2>3. I # {}
    OBVIOUS
  <2> HIDE DEF I
  <2> QED BY <1>2, <2>2, <2>3
<1>4. \A m : /\ IsFiniteSet(AtMostAs(m)) /\ Cardinality(AtMostAs(m)) \in Nat
             /\ IsFiniteSet(Less(m)) /\ Cardinality(Less(m)) \in Nat
  <2> HIDE DEF I
  <2> QED BY <1>1, FS_Subset, FS_CardinalityType
<1> HIDE DEF I
<1>5. Enough # {}
  <2>1. Max(M) \in M /\ \A m \in M : m <= Max(M)
    <3> HIDE DEF M
    <3> QED BY <1>3, MaxOf
  <2>2. AtMostAs(Max(M)) = I
    BY <2>1
  <2> QED BY <1>1, <2>1, <2>2
<1>6. Min(Enough) \in Enough /\ \A m \in Enough : Min(Enough) <= m
  <2>1. Enough \in SUBSET Int /\ IsFiniteSet(Enough)
    BY <1>3, FS_Subset
  <2> HIDE DEF Enough
  <2> QED BY <1>5, <2>1, MinOf
<1> DEFINE m0 == Min(Enough)
           Under == {m \in M : m < m0}
<1>7. Cardinality(Less(m0)) <= k
  <2>1. CASE Under = {}
    <3>1. Less(m0) = {}
      BY <2>1
    <3>2. Cardinality({}) = 0
      BY FS_EmptySet
    <3>3. k >= 0
      OBVIOUS
    <3> QED BY <3>1, <3>2, <3>3
  <2>2. CASE Under # {}
    <3>1. Max(Under) \in Under /\ \A m \in Under : m <= Max(Under)
      <4>1. Under \in SUBSET Int /\ IsFiniteSet(Under)
        BY <1>3, FS_Subset
      <4> HIDE DEF Under
      <4> QED BY <2>2, <4>1, MaxOf
    <3> DEFINE m1 == Max(Under)
    <3>2. m1 \in M /\ m1 < m0 /\ m1 \in Int /\ m0 \in Int
      BY <1>3, <1>6, <3>1
    <3> HIDE DEF m1
    <3>3. \A i \in I : Magnitude(r[i]) < m0 => Magnitude(r[i]) <= m1
      BY <3>1 DEF m1
    <3> HIDE DEF m0
    <3>4. Less(m0) \subseteq AtMostAs(m1)
      BY <3>3
    <3>5. Cardinality(Less(m0)) <= Cardinality(AtMostAs(m1))
      BY <1>4, <3>4, FS_Subset
    <3>6. ~ (k < Cardinality(AtMostAs(m1)))
      <4>1. m1 \in Enough => m0 <= m1
        <5> HIDE DEF Enough
        <5> QED BY <1>6 DEF m0
      <4> HIDE DEF AtMostAs
      <4> QED BY <3>2, <4>1
    <3> HIDE DEF Less, AtMostAs
    <3> QED BY <1>4, <3>5, <3>6
  <2> QED BY <2>1, <2>2
<1>8. m0 \in M /\ k < Cardinality(AtMostAs(m0))
  BY <1>6
<1> HIDE DEF m0
<1>9. Selected(r, k) = CHOOSE m \in M : Cardinality(Less(m)) <= k /\ k < Cardinality(AtMostAs(m))
  BY DEF Selected, I
<1> HIDE DEF M, Less, AtMostAs
<1>10. /\ Selected(r, k) \in M /\ Cardinality(Less(Selected(r, k))) <= k
       /\ k < Cardinality(AtMostAs(Selected(r, k)))
  BY <1>7, <1>8, <1>9
<1> QED BY <1>3, <1>10 DEF Less, AtMostAs, I

\* The worst of the rows that may be dropped.
LEMMA WorstFacts ==
    ASSUME NEW r \in Seq(Int), Len(r) > 4
    PROVE  /\ Worst(r) \in Int
           /\ \A i \in 1..(Len(r) - 3) : Magnitude(r[i]) <= Worst(r)
<1> DEFINE n == Len(r)
           I == 1..(n - 3)
           M == {Magnitude(r[i]) : i \in I}
<1>1. n \in Nat /\ \A i \in 1..n : Magnitude(r[i]) \in Nat
  <2>1. n \in Nat /\ \A i \in 1..n : r[i] \in Int
    OBVIOUS
  <2> QED BY <2>1, MagnitudeFacts
<1>2. [i \in I |-> Magnitude(r[i])] \in Surjection(I, M)
  BY DEF Surjection
<1>3. IsFiniteSet(I) /\ I \subseteq 1..n
  <2> HIDE DEF n
  <2>1. n - 3 \in Int /\ 1..(n - 3) \subseteq 1..n
    BY <1>1
  <2>2. IsFiniteSet(1..(n - 3))
    BY <2>1, FS_Interval
  <2> QED BY <2>1, <2>2
<1> HIDE DEF I
<1>4. M \subseteq Int
  BY <1>1, <1>3
<1>5. \A i \in I : Magnitude(r[i]) \in M \cup {0}
  OBVIOUS
<1> HIDE DEF M
<1>6. IsFiniteSet(M)
  BY <1>2, <1>3, FS_Surjection
<1>7. IsFiniteSet(M \cup {0}) /\ M \cup {0} \in SUBSET Int /\ M \cup {0} # {}
  <2>1. IsFiniteSet(M \cup {0})
    BY <1>6, FS_AddElement
  <2>2. M \cup {0} \in SUBSET Int /\ M \cup {0} # {}
    BY <1>4
  <2> QED BY <2>1, <2>2
<1>8. Max(M \cup {0}) \in Int /\ \A x \in M \cup {0} : x <= Max(M \cup {0})
  BY <1>7, MaxOf
<1>9. Worst(r) = Max(M \cup {0})
  BY DEF Worst, I, M
<1> QED BY <1>5, <1>8, <1>9 DEF I

\* Of integers that are more than four, that the worst which may be dropped exceeds the
\* threshold made of the median can be told by counting.
LEMMA CountingIsTheMedianTest ==
    ASSUME NEW r \in Seq(Int), Len(r) > 4
    PROVE  HasSpike(r) <=> Worst(r) > 0 /\ 9 * Worst(r) > 40 * Mad(r)
<1> DEFINE n == Len(r)
           k == n \div 2
           B == {i \in 1..n : 40 * Magnitude(r[i]) < 9 * Worst(r)}
           L == {i \in 1..n : Magnitude(r[i]) < Mad(r)}
           A == {i \in 1..n : Magnitude(r[i]) <= Mad(r)}
<1>1. n \in Nat /\ DOMAIN r = 1..n /\ (\A i \in 1..n : r[i] \in Int) /\ k \in Nat /\ k < n
  OBVIOUS
<1>2. Mad(r) \in Nat /\ Cardinality(L) <= k /\ k < Cardinality(A)
  <2> HIDE DEF n, k
  <2> QED BY <1>1, SelectedFacts DEF Mad, n, k
<1>3. \A i \in 1..n : Magnitude(r[i]) \in Nat
  BY <1>1, MagnitudeFacts
<1>4. Worst(r) \in Int
  BY WorstFacts
<1>5. HasSpike(r) <=> Worst(r) > 0 /\ Cardinality(B) >= k + 1
  BY <1>1 DEF HasSpike
<1>6. IsFiniteSet(1..n)
  BY <1>1, FS_Interval
<1> HIDE DEF n, k
<1>7. /\ IsFiniteSet(A) /\ IsFiniteSet(B) /\ IsFiniteSet(L)
      /\ Cardinality(A) \in Nat /\ Cardinality(B) \in Nat /\ Cardinality(L) \in Nat
  BY <1>6, FS_Subset, FS_CardinalityType
<1>8. ASSUME 9 * Worst(r) > 40 * Mad(r) PROVE Cardinality(B) >= k + 1
  <2>1. A \subseteq B
    BY <1>2, <1>3, <1>4, <1>8
  <2>2. Cardinality(A) <= Cardinality(B)
    <3> HIDE DEF A, B
    <3> QED BY <1>7, <2>1, FS_Subset
  <2> QED BY <1>1, <1>2, <1>7, <2>2
<1>9. ASSUME ~ (9 * Worst(r) > 40 * Mad(r)) PROVE ~ (Cardinality(B) >= k + 1)
  <2>1. B \subseteq L
    BY <1>2, <1>3, <1>4, <1>9
  <2>2. Cardinality(B) <= Cardinality(L)
    <3> HIDE DEF L, B
    <3> QED BY <1>7, <2>1, FS_Subset
  <2> QED BY <1>1, <1>2, <1>7, <2>2
<1> QED BY <1>5, <1>8, <1>9

-----------------------------------------------------------------------------
(* What the trims leave.                                                   *)

\* Two sequences with the same last three elements.
SameEnd(a, b) == Len(a) >= 3 /\ Len(b) >= 3 /\ \A i \in 0..2 : a[Len(a) - i] = b[Len(b) - i]

LEMMA SameEndFacts ==
    ASSUME NEW S, NEW a \in Seq(S), NEW b \in Seq(S), SameEnd(a, b)
    PROVE  Newest(a, 3) = Newest(b, 3)
<1>1. Len(a) \in Nat /\ Len(b) \in Nat /\ Len(a) >= 3 /\ Len(b) >= 3
  BY DEF SameEnd
<1>2. \A i \in 1..3 : a[Len(a) - 3 + i] = b[Len(b) - 3 + i]
  <2> TAKE i \in 1..3
  <2>1. 3 - i \in 0..2 /\ Len(a) - (3 - i) = Len(a) - 3 + i /\ Len(b) - (3 - i) = Len(b) - 3 + i
    BY <1>1
  <2>2. a[Len(a) - (3 - i)] = b[Len(b) - (3 - i)]
    BY <2>1 DEF SameEnd
  <2> QED BY <2>1, <2>2
<1>3. ASSUME NEW s \in Seq(S), Len(s) >= 3
      PROVE  Newest(s, 3) = [i \in 1..3 |-> s[Len(s) - 3 + i]]
  <2>1. Newest(s, 3) = SubSeq(s, Len(s) - 2, Len(s)) /\ Len(s) \in Nat
    BY DEF Newest
  <2> DEFINE q == SubSeq(s, Len(s) - 2, Len(s))
  <2>2. /\ q \in Seq(S) /\ Len(q) = 3
        /\ \A i \in 1..3 : q[i] = s[Len(s) - 3 + i]
    BY <1>3, <2>1
  <2> HIDE DEF q
  <2>3. q = [i \in 1..3 |-> q[i]]
    BY <2>2
  <2>4. q = [i \in 1..3 |-> s[Len(s) - 3 + i]]
    BY <2>2, <2>3
  <2> QED BY <2>1, <2>4 DEF q
<1>4. Newest(a, 3) = [i \in 1..3 |-> a[Len(a) - 3 + i]]
  BY <1>1, <1>3
<1>5. Newest(b, 3) = [i \in 1..3 |-> b[Len(b) - 3 + i]]
  BY <1>1, <1>3
<1> QED BY <1>2, <1>4, <1>5

LEMMA SuffixFacts ==
    ASSUME NEW S, NEW s \in Seq(S), NEW n \in Nat, Len(s) - n >= 3
    PROVE  /\ SubSeq(s, n + 1, Len(s)) \in Seq(S)
           /\ Len(SubSeq(s, n + 1, Len(s))) = Len(s) - n
           /\ SameEnd(SubSeq(s, n + 1, Len(s)), s)
<1> DEFINE t == SubSeq(s, n + 1, Len(s))
<1>1. /\ t \in Seq(S) /\ Len(t) = Len(s) - n /\ Len(s) \in Nat
      /\ \A i \in 1..(Len(s) - n) : t[i] = s[i + n]
  OBVIOUS
<1> HIDE DEF t
<1>2. ASSUME NEW i \in 0..2 PROVE t[Len(t) - i] = s[Len(s) - i]
  <2>1. Len(t) - i \in 1..(Len(s) - n) /\ (Len(t) - i) + n = Len(s) - i
    BY <1>1
  <2> QED BY <1>1, <2>1
<1>3. SameEnd(t, s)
  BY <1>1, <1>2 DEF SameEnd
<1> QED BY <1>1, <1>3 DEF t

LEMMA DropQuarterKeepsEnd ==
    ASSUME NEW S, NEW rows \in Seq(S), Len(rows) >= 3
    PROVE  DropQuarter(rows) \in Seq(S) /\ SameEnd(DropQuarter(rows), rows)
<1>1. Len(rows) \in Nat
  OBVIOUS
<1>2. CASE DropQuarter(rows) = rows
  BY <1>1, <1>2 DEF SameEnd
<1>3. CASE /\ Len(rows) >= 8
           /\ DropQuarter(rows) = SubSeq(rows, Most(Len(rows) \div 4, 2) + 1, Len(rows))
  <2>1. Most(Len(rows) \div 4, 2) \in Nat /\ Len(rows) - Most(Len(rows) \div 4, 2) >= 3
    BY <1>1, <1>3 DEF Most
  <2> QED BY <1>3, <2>1, SuffixFacts
<1> QED BY <1>2, <1>3 DEF DropQuarter

LEMMA SameEndIsTransitive ==
    ASSUME NEW a, NEW b, NEW c, SameEnd(a, b), SameEnd(b, c)
    PROVE  SameEnd(a, c)
BY DEF SameEnd

LEMMA DropStaleKeepsEnd ==
    ASSUME NEW S, NEW rows \in Seq(S), Len(rows) >= 3
    PROVE  DropStale(rows) \in Seq(S) /\ SameEnd(DropStale(rows), rows)
<1> DEFINE one   == DropQuarter(rows)
           two   == DropQuarter(one)
           three == DropQuarter(two)
           four  == DropQuarter(three)
<1>1. one \in Seq(S) /\ SameEnd(one, rows) /\ Len(one) >= 3
  BY DropQuarterKeepsEnd DEF SameEnd
<1> HIDE DEF one
<1>2. two \in Seq(S) /\ SameEnd(two, one) /\ Len(two) >= 3
  BY <1>1, DropQuarterKeepsEnd DEF SameEnd
<1> HIDE DEF two
<1>3. three \in Seq(S) /\ SameEnd(three, two) /\ Len(three) >= 3
  BY <1>2, DropQuarterKeepsEnd DEF SameEnd
<1> HIDE DEF three
<1>4. four \in Seq(S) /\ SameEnd(four, three)
  BY <1>3, DropQuarterKeepsEnd
<1>5. DropStale(rows) = four
  BY DEF DropStale, one, two, three
<1> HIDE DEF four
<1>6. SameEnd(four, rows)
  BY <1>1, <1>2, <1>3, <1>4, SameEndIsTransitive
<1> QED BY <1>4, <1>5, <1>6

\* The elements of a set below one of them, and the element with k - 1 of them below it.
LowerThan(kept, i) == {j \in kept : j < i}
Ranked(kept, k) == CHOOSE i \in kept : Cardinality(LowerThan(kept, i)) = k - 1

\* Every rank is taken, by one element.
LEMMA RankFacts ==
    ASSUME NEW n \in Nat, NEW kept, kept \subseteq 1..n
    PROVE  /\ Cardinality(kept) \in Nat
           /\ \A i \in kept, k \in Int :
                 Cardinality(LowerThan(kept, i)) = k - 1 => Ranked(kept, k) = i
           /\ \A k \in 1..Cardinality(kept) : Ranked(kept, k) \in kept
<1> DEFINE c == Cardinality(kept)
           Before(i) == {j \in kept : j < i}
           Ith(k) == CHOOSE i \in kept : Cardinality(Before(i)) = k - 1
<1>1. n \in Nat
  OBVIOUS
<1>3. kept \subseteq 1..n
  OBVIOUS
<1>4. IsFiniteSet(kept) /\ c \in Nat
  <2>1. IsFiniteSet(1..n)
    BY <1>1, FS_Interval
  <2> QED BY <1>3, <2>1, FS_Subset, FS_CardinalityType
\* An element of a rank of its own.
<1>5. ASSUME NEW i \in kept, NEW j \in kept, i < j
      PROVE  /\ Cardinality(Before(i)) \in Nat /\ Cardinality(Before(j)) \in Nat
             /\ Cardinality(Before(i)) < Cardinality(Before(j))
  <2>1. IsFiniteSet(Before(j)) /\ IsFiniteSet(Before(i)) /\ IsFiniteSet(Before(j) \ {i})
    BY <1>4, FS_Subset
  <2>2. Before(i) \subseteq Before(j) \ {i} /\ i \in Before(j)
    <3>1. i \in Int /\ j \in Int /\ \A x \in kept : x \in Int
      BY <1>1, <1>3
    <3>2. \A x \in Int : x < i => x < j /\ x # i
      BY <1>5, <3>1
    <3>3. Before(i) \subseteq Before(j) \ {i}
      BY <3>1, <3>2
    <3>4. i \in Before(j)
      BY <1>5
    <3> QED BY <3>3, <3>4
  <2>3. Cardinality(Before(i)) <= Cardinality(Before(j) \ {i})
    BY <2>1, <2>2, FS_Subset
  <2>4. Cardinality(Before(j) \ {i}) = Cardinality(Before(j)) - 1
    BY <2>1, <2>2, FS_RemoveElement
  <2>5. /\ Cardinality(Before(i)) \in Nat /\ Cardinality(Before(j)) \in Nat
        /\ Cardinality(Before(j) \ {i}) \in Nat
    BY <2>1, FS_CardinalityType
  <2> QED BY <2>3, <2>4, <2>5
<1>6. ASSUME NEW i \in kept, NEW k, Cardinality(Before(i)) = k - 1
      PROVE  Ith(k) = i
  <2>1. \A j \in kept : Cardinality(Before(j)) = k - 1 => j = i
    <3> TAKE j \in kept
    <3>1. i < j \/ j < i \/ i = j
      BY <1>1, <1>3
    <3> HIDE DEF Before
    <3> QED BY <1>5, <1>6, <3>1
  <2> HIDE DEF Before
  <2> QED BY <1>6, <2>1
\* Every rank is taken.
<1>10. ASSUME NEW k \in 1..c PROVE Ith(k) \in kept
  <2> DEFINE rank == [i \in kept |-> Cardinality(Before(i))]
  <2>1. \A i \in kept : Cardinality(Before(i)) \in 0..(c - 1)
    <3> TAKE i \in kept
    <3>1. Before(i) \subseteq kept \ {i}
      BY <1>1, <1>3
    <3>2. IsFiniteSet(kept \ {i}) /\ Cardinality(kept \ {i}) = c - 1
      BY <1>4, FS_RemoveElement
    <3>3. IsFiniteSet(Before(i)) /\ Cardinality(Before(i)) <= c - 1
      BY <3>1, <3>2, FS_Subset
    <3>4. Cardinality(Before(i)) \in Nat
      BY <3>3, FS_CardinalityType
    <3> QED BY <1>4, <3>3, <3>4
  <2>2. \A i, j \in kept : rank[i] = rank[j] => i = j
    <3> TAKE i, j \in kept
    <3>1. i < j \/ j < i \/ i = j
      BY <1>1, <1>3
    <3> HIDE DEF Before
    <3> QED BY <1>5, <3>1
  <2>3. rank \in Injection(kept, 0..(c - 1))
    <3> HIDE DEF Before
    <3> QED BY <2>1, <2>2 DEF Injection, IsInjective
  <2>4. IsFiniteSet(0..(c - 1)) /\ Cardinality(0..(c - 1)) = c
    <3> HIDE DEF c
    <3>1. Cardinality(0..(c - 1)) = IF 0 > c - 1 THEN 0 ELSE (c - 1) - 0 + 1
      BY <1>4, FS_Interval
    <3>2. IsFiniteSet(0..(c - 1))
      BY <1>4, FS_Interval
    <3> QED BY <1>4, <3>1, <3>2
  <2>5. rank \in Surjection(kept, 0..(c - 1))
    <3> HIDE DEF rank
    <3> QED BY <1>4, <2>3, <2>4, FS_Injection
  <2>6. PICK i \in kept : rank[i] = k - 1
    <3>1. k - 1 \in 0..(c - 1)
      BY <1>4
    <3> HIDE DEF rank
    <3> QED BY <2>5, <3>1 DEF Surjection
  <2>7. Ith(k) = i
    <3> HIDE DEF Before, Ith
    <3> QED BY <1>6, <2>6
  <2> QED BY <2>7
<1>11. /\ \A k : Ranked(kept, k) = Ith(k)
       /\ \A i : LowerThan(kept, i) = Before(i)
  BY DEF Ranked, LowerThan
<1> HIDE DEF Ith, Before
<1> QED BY <1>4, <1>6, <1>10, <1>11

\* The rows that a trim keeps, in order: the last three are the last three, and where
\* anything is trimmed each of them is a row that is to be kept.
LEMMA TrimSpikesKeepsEnd ==
    ASSUME NEW S, NEW rows \in Seq(S), Len(rows) >= 3
    PROVE  /\ TrimSpikes(rows) \in Seq(S) /\ SameEnd(TrimSpikes(rows), rows)
           /\ Len(rows) > 4 /\ HasSpike(Residuals(rows)) =>
                 TrimSpikes(rows) \in Seq({rows[i] : i \in Kept(Residuals(rows))})
<1> DEFINE n == Len(rows)
           r == Residuals(rows)
           kept == Kept(r)
           c == Cardinality(kept)
           Before(i) == {j \in kept : j < i}
           Ith(k) == Ranked(kept, k)
           trimmed == [k \in 1..c |-> rows[Ith(k)]]
<1>1. n \in Nat /\ DOMAIN rows = 1..n
  OBVIOUS
<1>2. DOMAIN r = 1..n /\ Len(r) = n
  <2>1. DOMAIN r = 1..n
    BY <1>1 DEF Residuals
  <2>2. Len(r) = n
    <3>1. r = [i \in 1..n |-> r[i]]
      BY <1>1 DEF Residuals
    <3> HIDE DEF r
    <3>2. r \in Seq({r[i] : i \in 1..n})
      BY <1>1, <3>1
    <3> QED BY <1>1, <2>1, <3>2
  <2> QED BY <2>1, <2>2
<1>3. kept \subseteq 1..n /\ {n - 2, n - 1, n} \subseteq kept
  <2> HIDE DEF r
  <2> QED BY <1>1, <1>2 DEF Kept
<1>4. IsFiniteSet(kept) /\ c \in Nat
  <2>1. IsFiniteSet(1..n)
    BY <1>1, FS_Interval
  <2> HIDE DEF kept
  <2> QED BY <1>3, <2>1, FS_Subset, FS_CardinalityType
<1> HIDE DEF r, kept, n
<1>6. ASSUME NEW i \in kept, NEW k \in Int, Cardinality(Before(i)) = k - 1
      PROVE  Ith(k) = i
  <2>1. n \in Nat /\ kept \subseteq 1..n
    BY <1>1, <1>3
  <2>2. Cardinality(LowerThan(kept, i)) = k - 1
    BY <1>6 DEF LowerThan
  <2> HIDE DEF Before
  <2> QED BY <2>1, <2>2, RankFacts
<1> DEFINE K1 == kept \ {n}
           K2 == K1 \ {n - 1}
           K3 == K2 \ {n - 2}
<1>7. Before(n) = K1 /\ Before(n - 1) = K2 /\ Before(n - 2) = K3
  <2>1. \A x \in kept : x \in Int /\ x <= n
    BY <1>1, <1>3
  <2>2. \A x \in kept : /\ x < n <=> x # n
                        /\ x < n - 1 <=> x # n /\ x # n - 1
                        /\ x < n - 2 <=> x # n /\ x # n - 1 /\ x # n - 2
    BY <1>1, <2>1
  <2> QED BY <2>2
<1>8. /\ Cardinality(Before(n)) = c - 1
      /\ Cardinality(Before(n - 1)) = c - 2
      /\ Cardinality(Before(n - 2)) = c - 3
      /\ c >= 3
  <2>1. n \in kept /\ n - 1 \in K1 /\ n - 2 \in K2
    BY <1>1, <1>3
  <2>2. IsFiniteSet(K1) /\ Cardinality(K1) = c - 1
    BY <1>4, <2>1, FS_RemoveElement
  <2> HIDE DEF K1
  <2>3. IsFiniteSet(K2) /\ Cardinality(K2) = Cardinality(K1) - 1
    BY <2>1, <2>2, FS_RemoveElement
  <2> HIDE DEF K2
  <2>4. IsFiniteSet(K3) /\ Cardinality(K3) = Cardinality(K2) - 1
    BY <2>1, <2>3, FS_RemoveElement
  <2> HIDE DEF K3
  <2>5. Cardinality(K3) \in Nat
    BY <2>4, FS_CardinalityType
  <2> HIDE DEF c, Before
  <2> QED BY <1>4, <1>7, <2>2, <2>3, <2>4, <2>5
<1>9. Ith(c) = n /\ Ith(c - 1) = n - 1 /\ Ith(c - 2) = n - 2
  <2>1. n \in kept /\ n - 1 \in kept /\ n - 2 \in kept
    BY <1>3
  <2>2. Cardinality(Before(n - 1)) = (c - 1) - 1 /\ Cardinality(Before(n - 2)) = (c - 2) - 1
    BY <1>4, <1>8
  <2>3. c \in Int /\ c - 1 \in Int /\ c - 2 \in Int
    BY <1>4
  <2> HIDE DEF c, Before, Ith
  <2> QED BY <1>6, <1>8, <2>1, <2>2, <2>3
<1>10. ASSUME NEW k \in 1..c PROVE Ith(k) \in kept
  BY <1>1, <1>3, RankFacts
<1>11. trimmed \in Seq(S) /\ Len(trimmed) = c
  <2>1. \A k \in 1..c : rows[Ith(k)] \in S
    <3> TAKE k \in 1..c
    <3>1. Ith(k) \in 1..n
      <4> HIDE DEF Ith
      <4> QED BY <1>3, <1>10
    <3> HIDE DEF Ith
    <3> QED BY <1>1, <3>1
  <2> HIDE DEF Ith, c
  <2> QED BY <1>4, <2>1
<1>12. SameEnd(trimmed, rows)
  <2>1. /\ c - 0 \in 1..c /\ c - 1 \in 1..c /\ c - 2 \in 1..c
    BY <1>4, <1>8
  <2>2. trimmed[c] = rows[n] /\ trimmed[c - 1] = rows[n - 1] /\ trimmed[c - 2] = rows[n - 2]
    <3> HIDE DEF Ith, c
    <3> QED BY <1>4, <1>9, <2>1
  <2> HIDE DEF trimmed, c
  <2>3. ASSUME NEW i \in 0..2 PROVE trimmed[Len(trimmed) - i] = rows[Len(rows) - i]
    <3>1. i = 0 \/ i = 1 \/ i = 2
      OBVIOUS
    <3> QED BY <1>1, <1>4, <1>11, <2>2, <3>1 DEF n
  <2> QED BY <1>1, <1>8, <1>11, <2>3 DEF SameEnd, n, c
<1>13. /\ TrimSpikes(rows) = trimmed \/ TrimSpikes(rows) = rows
       /\ Len(rows) > 4 /\ HasSpike(Residuals(rows)) => TrimSpikes(rows) = trimmed
  BY <1>8 DEF TrimSpikes, Ranked, LowerThan, kept, r
<1>14. trimmed \in Seq({rows[i] : i \in kept})
  <2>1. \A k \in 1..c : rows[Ith(k)] \in {rows[i] : i \in kept}
    <3> HIDE DEF Ith, c
    <3> QED BY <1>10
  <2> HIDE DEF Ith, c
  <2> QED BY <1>4, <2>1
<1> HIDE DEF trimmed
<1>15. SameEnd(rows, rows)
  BY DEF SameEnd
<1> QED BY <1>11, <1>12, <1>13, <1>15, <1>14 DEF kept, r

\* Of any list of rows, whichever length the window is cut to.
LEMMA UsedKeepsEnd ==
    ASSUME NEW S, NEW rows \in Seq(S), Len(rows) > 4, NEW len \in Lengths(Len(rows))
    PROVE  /\ Newest(Used(rows, len), 3) = Newest(rows, 3)
           /\ Used(rows, len) \in Seq(S)
<1> DEFINE cut == Newest(rows, len)
           fresh == DropStale(cut)
<1>1. len \in Nat /\ len >= 3 /\ len <= Len(rows) /\ Len(rows) \in Nat
  BY RegressionAssumption DEF Lengths
<1>2. cut \in Seq(S) /\ SameEnd(cut, rows) /\ Len(cut) >= 3
  <2>1. Len(rows) - len \in Nat /\ Len(rows) - (Len(rows) - len) >= 3
    BY <1>1
  <2>2. cut = SubSeq(rows, (Len(rows) - len) + 1, Len(rows))
    BY DEF Newest
  <2> HIDE DEF cut
  <2> QED BY <2>1, <2>2, SuffixFacts DEF SameEnd
<1> HIDE DEF cut
<1>3. fresh \in Seq(S) /\ SameEnd(fresh, cut) /\ Len(fresh) >= 3
  BY <1>2, DropStaleKeepsEnd DEF SameEnd
<1> HIDE DEF fresh
<1>4. TrimSpikes(fresh) \in Seq(S) /\ SameEnd(TrimSpikes(fresh), fresh)
  BY <1>3, TrimSpikesKeepsEnd
<1>5. SameEnd(TrimSpikes(fresh), rows)
  BY <1>2, <1>3, <1>4, SameEndIsTransitive
<1>6. Used(rows, len) = TrimSpikes(fresh)
  BY DEF Used, fresh, cut
<1> QED BY <1>4, <1>5, <1>6, SameEndFacts

-----------------------------------------------------------------------------
(* Sums.                                                                   *)

\* The element that a sum takes first.
AnyOf(T) == CHOOSE x \in T : TRUE
\* A g that is a sum over every subset of S, and the sum that the library defines.
SumsOver(g, f, S) ==
    g = [T \in SUBSET S |-> IF T = {} THEN 0 ELSE f[AnyOf(T)] + g[T \ {AnyOf(T)}]]

LEMMA SumsExist ==
    ASSUME NEW S, IsFiniteSet(S), NEW f, \A i \in S : f[i] \in Int
    PROVE  \E g : SumsOver(g, f, S)
<1> DEFINE Rhs(g, T) == IF T = {} THEN 0 ELSE f[AnyOf(T)] + g[T \ {AnyOf(T)}]
           UpTo(n) == \E g \in [SUBSET S -> Int] :
                         \A T \in SUBSET S : Cardinality(T) <= n => g[T] = Rhs(g, T)
           Bad == {n \in 0..Cardinality(S) : ~ UpTo(n)}
<1>1. Cardinality(S) \in Nat /\ IsFiniteSet(0..Cardinality(S))
  BY FS_CardinalityType, FS_Interval
<1>2. \A T \in SUBSET S : /\ IsFiniteSet(T) /\ Cardinality(T) \in Nat
                          /\ Cardinality(T) <= Cardinality(S)
  BY FS_Subset, FS_CardinalityType
<1>3. \A T \in SUBSET S : T # {} =>
         /\ AnyOf(T) \in T /\ T \ {AnyOf(T)} \in SUBSET S
         /\ Cardinality(T \ {AnyOf(T)}) = Cardinality(T) - 1
  <2> SUFFICES ASSUME NEW T \in SUBSET S, T # {}
               PROVE  /\ AnyOf(T) \in T /\ T \ {AnyOf(T)} \in SUBSET S
                      /\ Cardinality(T \ {AnyOf(T)}) = Cardinality(T) - 1
    OBVIOUS
  <2>1. AnyOf(T) \in T
    BY DEF AnyOf
  <2> QED BY <1>2, <2>1, FS_RemoveElement
<1>4. UpTo(0)
  <2> DEFINE g == [T \in SUBSET S |-> 0]
  <2>1. ASSUME NEW T \in SUBSET S, Cardinality(T) <= 0 PROVE g[T] = Rhs(g, T)
    <3>1. T = {}
      BY <1>2, <2>1, FS_EmptySet
    <3> QED BY <3>1
  <2>2. g \in [SUBSET S -> Int]
    OBVIOUS
  <2> HIDE DEF g, Rhs
  <2> QED BY <2>1, <2>2
<1>5. ASSUME NEW n \in Nat, UpTo(n) PROVE UpTo(n + 1)
  <2>1. PICK g \in [SUBSET S -> Int] :
            \A T \in SUBSET S : Cardinality(T) <= n => g[T] = Rhs(g, T)
    BY <1>5
  <2> DEFINE h == [T \in SUBSET S |-> Rhs(g, T)]
  <2>2. h \in [SUBSET S -> Int]
    <3>1. ASSUME NEW T \in SUBSET S PROVE Rhs(g, T) \in Int
      <4>1. CASE T = {}
        BY <4>1
      <4>2. CASE T # {}
        <5>1. f[AnyOf(T)] \in Int /\ g[T \ {AnyOf(T)}] \in Int
          BY <1>3, <4>2
        <5> QED BY <4>2, <5>1
      <4> QED BY <4>1, <4>2
    <3> HIDE DEF Rhs
    <3> QED BY <3>1
  <2>3. ASSUME NEW T \in SUBSET S, Cardinality(T) <= n + 1 PROVE h[T] = Rhs(h, T)
    <3>1. CASE T = {}
      BY <3>1
    <3>2. CASE T # {}
      <4> DEFINE U == T \ {AnyOf(T)}
      <4>1. U \in SUBSET S /\ Cardinality(U) <= n
        BY <1>2, <1>3, <2>3, <3>2
      <4>2. g[U] = Rhs(g, U)
        BY <2>1, <4>1
      <4>3. h[U] = Rhs(g, U)
        BY <4>1
      <4>4. h[T] = f[AnyOf(T)] + g[U]
        BY <3>2
      <4>5. Rhs(h, T) = f[AnyOf(T)] + h[U]
        BY <3>2
      <4> QED BY <4>2, <4>3, <4>4, <4>5
    <3> QED BY <3>1, <3>2
  <2> HIDE DEF h, Rhs
  <2> QED BY <2>2, <2>3
<1>6. Bad = {}
  <2> SUFFICES ASSUME Bad # {} PROVE FALSE
    OBVIOUS
  <2>1. Bad \in SUBSET Int /\ IsFiniteSet(Bad)
    BY <1>1, FS_Subset
  <2>2. PICK n \in Bad : \A k \in Bad : n <= k
    <3> HIDE DEF Bad
    <3> QED BY <2>1, MinOf
  <2> HIDE DEF UpTo
  <2>3. n \in Int /\ 0 <= n /\ n <= Cardinality(S) /\ ~ UpTo(n)
    BY <1>1
  <2>4. n # 0
    BY <1>4, <2>3
  <2>5. n - 1 \in 0..Cardinality(S) /\ n - 1 \in Nat /\ n = (n - 1) + 1
    BY <1>1, <2>3, <2>4
  <2>6. UpTo(n - 1)
    BY <2>2, <2>3, <2>5
  <2> QED BY <1>5, <2>3, <2>5, <2>6
<1>7. UpTo(Cardinality(S))
  <2> HIDE DEF UpTo
  <2> QED BY <1>1, <1>6
<1>8. PICK g \in [SUBSET S -> Int] : \A T \in SUBSET S : g[T] = Rhs(g, T)
  BY <1>2, <1>7
<1>9. g = [T \in SUBSET S |-> Rhs(g, T)]
  <2> HIDE DEF Rhs
  <2> QED BY <1>8
<1> QED BY <1>9 DEF SumsOver

\* Two sums over subsets agree where both are defined.
LEMMA SumsAgree ==
    ASSUME NEW S, IsFiniteSet(S), NEW f, \A i \in S : f[i] \in Int,
           NEW g, SumsOver(g, f, S), NEW U \in SUBSET S, NEW h, SumsOver(h, f, U)
    PROVE  \A T \in SUBSET U : g[T] = h[T] /\ g[T] \in Int
<1> DEFINE Good(T) == g[T] = h[T] /\ g[T] \in Int
           Bad == {T \in SUBSET U : ~ Good(T)}
           R == StrictSubsetOrdering(U)
<1>1. IsFiniteSet(U) /\ SUBSET U \subseteq SUBSET S
  BY FS_Subset
<1>2. \A T \in SUBSET U : /\ g[T] = IF T = {} THEN 0 ELSE f[AnyOf(T)] + g[T \ {AnyOf(T)}]
                          /\ h[T] = IF T = {} THEN 0 ELSE f[AnyOf(T)] + h[T \ {AnyOf(T)}]
  BY <1>1 DEF SumsOver
<1>3. Bad = {}
  <2> SUFFICES ASSUME Bad # {} PROVE FALSE
    OBVIOUS
  <2>1. Bad \subseteq FiniteSubsetsOf(U)
    BY <1>1, FS_Subset DEF FiniteSubsetsOf
  <2>2. PICK T \in Bad : \A V \in Bad : ~ (<<V, T>> \in R)
    <3> HIDE DEF Bad, R
    <3> QED BY <1>1, <2>1, FS_StrictSubsetOrderingWellFounded, WFMin DEF R
  <2>3. T \in SUBSET U /\ ~ Good(T)
    OBVIOUS
  <2>4. T # {}
    <3>1. CASE T = {}
      <4>1. {} \in SUBSET U
        OBVIOUS
      <4>2. g[{}] = 0 /\ h[{}] = 0
        BY <1>2, <4>1
      <4> QED BY <2>3, <3>1, <4>2
    <3> QED BY <3>1
  <2>5. AnyOf(T) \in T
    BY <2>4 DEF AnyOf
  <2> DEFINE V == T \ {AnyOf(T)}
  <2>6. V \in SUBSET U /\ <<V, T>> \in R
    BY <2>3, <2>5 DEF StrictSubsetOrdering
  <2>7. Good(V)
    BY <2>2, <2>6
  <2>8. f[AnyOf(T)] \in Int
    BY <1>1, <2>3, <2>5
  <2>9. g[T] = f[AnyOf(T)] + g[V] /\ h[T] = f[AnyOf(T)] + h[V]
    BY <1>2, <2>3, <2>4
  <2> QED BY <2>3, <2>7, <2>8, <2>9
<1> QED BY <1>3

LEMMA SumIsOne ==
    ASSUME NEW S, IsFiniteSet(S), NEW f, \A i \in S : f[i] \in Int
    PROVE  \E g : SumsOver(g, f, S) /\ SumFunctionOnSet(f, S) = g[S]
<1> DEFINE sums == CHOOSE g : SumsOver(g, f, S)
<1>1. SumsOver(sums, f, S)
  BY SumsExist
<1>2. SumFunctionOnSet(f, S) = sums[S]
  BY DEF SumFunctionOnSet, FoldFunctionOnSet, MapThenFoldSet, SumsOver, AnyOf
<1> QED BY <1>1, <1>2

\* What a sum is made of, one index after the other.
LEMMA SumSteps ==
    ASSUME NEW S, IsFiniteSet(S), NEW f, \A i \in S : f[i] \in Int
    PROVE  /\ SumFunctionOnSet(f, S) \in Int
           /\ S = {} => SumFunctionOnSet(f, S) = 0
           /\ S # {} => SumFunctionOnSet(f, S) =
                            f[AnyOf(S)] + SumFunctionOnSet(f, S \ {AnyOf(S)})
<1>1. PICK g : SumsOver(g, f, S) /\ SumFunctionOnSet(f, S) = g[S]
  BY SumIsOne
<1>2. g[S] = IF S = {} THEN 0 ELSE f[AnyOf(S)] + g[S \ {AnyOf(S)}]
  BY <1>1 DEF SumsOver
<1>3. ASSUME NEW U \in SUBSET S PROVE g[U] = SumFunctionOnSet(f, U) /\ g[U] \in Int
  <2>1. IsFiniteSet(U) /\ \A i \in U : f[i] \in Int
    BY FS_Subset
  <2>2. PICK h : SumsOver(h, f, U) /\ SumFunctionOnSet(f, U) = h[U]
    BY <2>1, SumIsOne
  <2>3. g[U] = h[U] /\ g[U] \in Int
    BY <1>1, <2>2, SumsAgree
  <2> QED BY <2>2, <2>3
<1>4. S \in SUBSET S /\ S \ {AnyOf(S)} \in SUBSET S
  OBVIOUS
<1> QED BY <1>1, <1>2, <1>3, <1>4

LEMMA SumWithout ==
    ASSUME NEW S, IsFiniteSet(S), NEW f, \A i \in S : f[i] \in Int, NEW x \in S
    PROVE  SumFunctionOnSet(f, S) = f[x] + SumFunctionOnSet(f, S \ {x})
<1> DEFINE Sum(T) == SumFunctionOnSet(f, T)
           Split(T) == \A y \in T : Sum(T) = f[y] + Sum(T \ {y})
           Bad == {T \in SUBSET S : ~ Split(T)}
           R == StrictSubsetOrdering(S)
<1>1. ASSUME NEW T \in SUBSET S
      PROVE  /\ IsFiniteSet(T) /\ Sum(T) \in Int
             /\ T # {} => AnyOf(T) \in T /\ Sum(T) = f[AnyOf(T)] + Sum(T \ {AnyOf(T)})
  <2>1. IsFiniteSet(T) /\ \A i \in T : f[i] \in Int
    BY FS_Subset
  <2>2. T # {} => AnyOf(T) \in T
    BY DEF AnyOf
  <2> QED BY <2>1, <2>2, SumSteps
<1> HIDE DEF Sum
<1>2. Bad = {}
  <2> SUFFICES ASSUME Bad # {} PROVE FALSE
    OBVIOUS
  <2> HIDE DEF Split
  <2>1. Bad \subseteq FiniteSubsetsOf(S)
    BY FS_Subset DEF FiniteSubsetsOf
  <2>2. PICK T \in Bad : \A V \in Bad : ~ (<<V, T>> \in R)
    <3> HIDE DEF Bad, R
    <3> QED BY <2>1, FS_StrictSubsetOrderingWellFounded, WFMin DEF R
  <2>3. T \in SUBSET S /\ ~ Split(T)
    OBVIOUS
  <2>4. ASSUME NEW y \in T PROVE Split(T \ {y}) /\ T \ {y} \in SUBSET S
    <3>1. T \ {y} \in SUBSET S /\ <<T \ {y}, T>> \in R
      BY <2>3, <2>4 DEF StrictSubsetOrdering
    <3> QED BY <2>2, <3>1
  <2>5. PICK y \in T : Sum(T) # f[y] + Sum(T \ {y})
    BY <2>3 DEF Split
  <2> DEFINE c == AnyOf(T)
  <2>6. c \in T /\ Sum(T) = f[c] + Sum(T \ {c})
    BY <1>1, <2>3, <2>5
  <2> HIDE DEF c, Bad
  <2>7. c # y
    BY <2>5, <2>6
  <2>8. Sum(T \ {c}) = f[y] + Sum((T \ {c}) \ {y})
    BY <2>4, <2>6, <2>7 DEF Split
  <2>9. Sum(T \ {y}) = f[c] + Sum((T \ {y}) \ {c})
    BY <2>4, <2>6, <2>7 DEF Split
  <2>10. (T \ {c}) \ {y} = (T \ {y}) \ {c} /\ (T \ {y}) \ {c} \in SUBSET S
    BY <2>3
  <2>11. /\ f[c] \in Int /\ f[y] \in Int /\ Sum((T \ {y}) \ {c}) \in Int
    BY <1>1, <2>3, <2>6, <2>10
  <2>12. Sum(T) = f[c] + (f[y] + Sum((T \ {y}) \ {c}))
    BY <2>6, <2>8, <2>10
  <2> QED BY <2>5, <2>9, <2>11, <2>12
<1>3. Split(S)
  BY <1>2
<1> QED BY <1>3 DEF Sum

\* A sum of multiples is the multiple of the sum.
LEMMA SumScaled ==
    ASSUME NEW S, IsFiniteSet(S), NEW f, \A i \in S : f[i] \in Int, NEW q \in Int,
           NEW h, \A i \in S : h[i] = q * f[i]
    PROVE  SumFunctionOnSet(h, S) = q * SumFunctionOnSet(f, S)
<1> DEFINE F(T) == SumFunctionOnSet(f, T)
           H(T) == SumFunctionOnSet(h, T)
           Bad == {T \in SUBSET S : H(T) # q * F(T)}
           R == StrictSubsetOrdering(S)
<1>1. ASSUME NEW T \in SUBSET S
      PROVE  /\ F(T) \in Int /\ H(T) \in Int
             /\ T = {} => F(T) = 0 /\ H(T) = 0
             /\ T # {} => /\ AnyOf(T) \in T /\ F(T) = f[AnyOf(T)] + F(T \ {AnyOf(T)})
                          /\ H(T) = h[AnyOf(T)] + H(T \ {AnyOf(T)})
  <2>1. IsFiniteSet(T) /\ (\A i \in T : f[i] \in Int) /\ (\A i \in T : h[i] \in Int)
    BY FS_Subset
  <2>2. T # {} => AnyOf(T) \in T
    BY DEF AnyOf
  <2> QED BY <2>1, <2>2, SumSteps
<1> HIDE DEF F, H
<1>2. Bad = {}
  <2> SUFFICES ASSUME Bad # {} PROVE FALSE
    OBVIOUS
  <2>1. Bad \subseteq FiniteSubsetsOf(S)
    BY FS_Subset DEF FiniteSubsetsOf
  <2>2. PICK T \in Bad : \A V \in Bad : ~ (<<V, T>> \in R)
    <3> HIDE DEF Bad, R
    <3> QED BY <2>1, FS_StrictSubsetOrderingWellFounded, WFMin DEF R
  <2>3. T \in SUBSET S /\ H(T) # q * F(T)
    OBVIOUS
  <2>4. T # {}
    <3>1. T = {} => H(T) = 0 /\ F(T) = 0
      BY <1>1, <2>3
    <3>2. q * 0 = 0
      OBVIOUS
    <3> QED BY <2>3, <3>1, <3>2
  <2> DEFINE c == AnyOf(T)
             V == T \ {c}
  <2>5. /\ c \in T /\ F(T) = f[c] + F(V) /\ H(T) = h[c] + H(V) /\ V \in SUBSET S
    BY <1>1, <2>3, <2>4
  <2>6. <<V, T>> \in R
    BY <2>3, <2>5 DEF StrictSubsetOrdering
  <2> HIDE DEF c, R
  <2>7. H(V) = q * F(V)
    BY <2>2, <2>5, <2>6
  <2> HIDE DEF V, Bad
  <2>8. f[c] \in Int /\ h[c] = q * f[c] /\ F(V) \in Int
    BY <1>1, <2>3, <2>5
  <2>9. q * (f[c] + F(V)) = q * f[c] + q * F(V)
    BY <2>8
  <2> QED BY <2>3, <2>5, <2>7, <2>8, <2>9
<1>3. S \in SUBSET S /\ S \notin Bad
  BY <1>2
<1> QED BY <1>3 DEF F, H

\* A sum of sums is the sum of the sums.
LEMMA SumAdded ==
    ASSUME NEW S, IsFiniteSet(S), NEW f, \A i \in S : f[i] \in Int, NEW g, \A i \in S : g[i] \in Int,
           NEW h, \A i \in S : h[i] = f[i] + g[i]
    PROVE  SumFunctionOnSet(h, S) = SumFunctionOnSet(f, S) + SumFunctionOnSet(g, S)
<1> DEFINE F(T) == SumFunctionOnSet(f, T)
           G(T) == SumFunctionOnSet(g, T)
           H(T) == SumFunctionOnSet(h, T)
           Bad == {T \in SUBSET S : H(T) # F(T) + G(T)}
           R == StrictSubsetOrdering(S)
<1>1. ASSUME NEW T \in SUBSET S
      PROVE  /\ F(T) \in Int /\ G(T) \in Int /\ H(T) \in Int
             /\ T = {} => F(T) = 0 /\ G(T) = 0 /\ H(T) = 0
             /\ T # {} => /\ AnyOf(T) \in T /\ F(T) = f[AnyOf(T)] + F(T \ {AnyOf(T)})
                          /\ G(T) = g[AnyOf(T)] + G(T \ {AnyOf(T)})
                          /\ H(T) = h[AnyOf(T)] + H(T \ {AnyOf(T)})
  <2>1. /\ IsFiniteSet(T) /\ (\A i \in T : f[i] \in Int) /\ (\A i \in T : g[i] \in Int)
        /\ (\A i \in T : h[i] \in Int)
    BY FS_Subset
  <2>2. T # {} => AnyOf(T) \in T
    BY DEF AnyOf
  <2> QED BY <2>1, <2>2, SumSteps
<1> HIDE DEF F, G, H
<1>2. Bad = {}
  <2> SUFFICES ASSUME Bad # {} PROVE FALSE
    OBVIOUS
  <2>1. Bad \subseteq FiniteSubsetsOf(S)
    BY FS_Subset DEF FiniteSubsetsOf
  <2>2. PICK T \in Bad : \A V \in Bad : ~ (<<V, T>> \in R)
    <3> HIDE DEF Bad, R
    <3> QED BY <2>1, FS_StrictSubsetOrderingWellFounded, WFMin DEF R
  <2>3. T \in SUBSET S /\ H(T) # F(T) + G(T)
    OBVIOUS
  <2>4. T # {}
    <3>1. T = {} => H(T) = 0 /\ F(T) = 0 /\ G(T) = 0
      BY <1>1, <2>3
    <3> QED BY <2>3, <3>1
  <2> DEFINE c == AnyOf(T)
             V == T \ {c}
  <2>5. /\ c \in T /\ F(T) = f[c] + F(V) /\ G(T) = g[c] + G(V) /\ H(T) = h[c] + H(V)
        /\ V \in SUBSET S
    BY <1>1, <2>3, <2>4
  <2>6. <<V, T>> \in R
    BY <2>3, <2>5 DEF StrictSubsetOrdering
  <2> HIDE DEF c, R
  <2>7. H(V) = F(V) + G(V)
    BY <2>2, <2>5, <2>6
  <2> HIDE DEF V, Bad
  <2>8. f[c] \in Int /\ g[c] \in Int /\ h[c] = f[c] + g[c] /\ F(V) \in Int /\ G(V) \in Int
    BY <1>1, <2>3, <2>5
  <2> QED BY <2>3, <2>5, <2>7, <2>8
<1>3. S \in SUBSET S /\ S \notin Bad
  BY <1>2
<1> QED BY <1>3 DEF F, G, H

IntsOn(f, I) == DOMAIN f = I /\ \A i \in I : f[i] \in Int
SumOn(m, f, g, h, b, q, I) == DOMAIN m = I /\ \A i \in I : m[i] = f[i] + b * g[i] + q * h[i]

\* A function on a finite set to which multiples of two others are added.
LEMMA SumMoved ==
    ASSUME NEW I, IsFiniteSet(I), NEW b \in Int, NEW q \in Int,
           NEW f, IntsOn(f, I), NEW g, IntsOn(g, I), NEW h, IntsOn(h, I),
           NEW m, SumOn(m, f, g, h, b, q, I)
    PROVE  /\ SumFunction(f) \in Int /\ SumFunction(g) \in Int /\ SumFunction(h) \in Int
           /\ SumFunction(m) = SumFunction(f) + b * SumFunction(g) + q * SumFunction(h)
<1> DEFINE bg == [i \in I |-> b * g[i]]
           qh == [i \in I |-> q * h[i]]
           fb == [i \in I |-> f[i] + bg[i]]
           Sum(x) == SumFunctionOnSet(x, I)
<1> USE DEF IntsOn, SumOn
<1>1. \A i \in I : /\ bg[i] \in Int /\ bg[i] = b * g[i] /\ qh[i] \in Int /\ qh[i] = q * h[i]
                   /\ fb[i] \in Int /\ fb[i] = f[i] + bg[i]
  OBVIOUS
<1>2. \A i \in I : m[i] = fb[i] + qh[i]
  OBVIOUS
<1> HIDE DEF bg, qh, fb
<1>3. Sum(m) = Sum(fb) + Sum(qh)
  BY <1>1, <1>2, SumAdded
<1>4. Sum(fb) = Sum(f) + Sum(bg)
  BY <1>1, SumAdded
<1>5. Sum(bg) = b * Sum(g) /\ Sum(qh) = q * Sum(h)
  BY <1>1, SumScaled
<1>6. Sum(f) \in Int /\ Sum(g) \in Int /\ Sum(h) \in Int
  BY SumSteps
<1>7. /\ SumFunction(f) = Sum(f) /\ SumFunction(g) = Sum(g)
      /\ SumFunction(h) = Sum(h) /\ SumFunction(m) = Sum(m)
  BY DEF SumFunction
<1> HIDE DEF Sum
<1> QED BY <1>3, <1>4, <1>5, <1>6, <1>7

\* The last of n numbers apart.
LEMMA SumWithoutLast ==
    ASSUME NEW n \in Nat \ {0}, NEW f, \A i \in 1..n : f[i] \in Int
    PROVE  SumFunctionOnSet(f, 1..n) = f[n] + SumFunctionOnSet(f, 1..(n - 1))
<1>1. n \in Int /\ n - 1 \in Int /\ 1 \in Int /\ n \in 1..n
  OBVIOUS
<1>2. IsFiniteSet(1..n)
  BY <1>1, FS_Interval
<1>3. (1..n) \ {n} = 1..(n - 1)
  <2>1. \A x : x \in (1..n) \ {n} <=> x \in 1..(n - 1)
    BY <1>1
  <2> QED BY <2>1
<1> QED BY <1>1, <1>2, <1>3, SumWithout

\* Sums over eight and nine numbers, one by one.
LEMMA SumOfEight ==
    ASSUME NEW f, \A i \in 1..8 : f[i] \in Int
    PROVE  SumFunctionOnSet(f, 1..8) = f[1] + f[2] + f[3] + f[4] + f[5] + f[6] + f[7] + f[8]
<1> DEFINE s(n) == SumFunctionOnSet(f, 1..n)
<1>1. \A n \in 1..8 : s(n) = f[n] + s(n - 1)
  <2> TAKE n \in 1..8
  <2>1. n \in Nat \ {0} /\ \A i \in 1..n : f[i] \in Int
    OBVIOUS
  <2> QED BY <2>1, SumWithoutLast
<1>2. s(0) = 0
  <2>1. 1..0 = {} /\ IsFiniteSet(1..0) /\ \A i \in 1..0 : f[i] \in Int
    BY FS_EmptySet
  <2> QED BY <2>1, SumSteps
<1> HIDE DEF s
<1>3. /\ s(1) = f[1] + s(0) /\ s(2) = f[2] + s(1) /\ s(3) = f[3] + s(2) /\ s(4) = f[4] + s(3)
      /\ s(5) = f[5] + s(4) /\ s(6) = f[6] + s(5) /\ s(7) = f[7] + s(6) /\ s(8) = f[8] + s(7)
  <2>1. 1 - 1 = 0 /\ 2 - 1 = 1 /\ 3 - 1 = 2 /\ 4 - 1 = 3 /\ 5 - 1 = 4 /\ 6 - 1 = 5 /\ 7 - 1 = 6
        /\ 8 - 1 = 7
    OBVIOUS
  <2>2. 1 \in 1..8 /\ 2 \in 1..8 /\ 3 \in 1..8 /\ 4 \in 1..8 /\ 5 \in 1..8 /\ 6 \in 1..8
        /\ 7 \in 1..8 /\ 8 \in 1..8
    OBVIOUS
  <2> QED BY <1>1, <2>1, <2>2
<1>4. /\ f[1] \in Int /\ f[2] \in Int /\ f[3] \in Int /\ f[4] \in Int /\ f[5] \in Int
      /\ f[6] \in Int /\ f[7] \in Int /\ f[8] \in Int
  OBVIOUS
<1>5. s(8) = f[1] + f[2] + f[3] + f[4] + f[5] + f[6] + f[7] + f[8]
  BY <1>2, <1>3, <1>4
<1> QED BY <1>5 DEF s

LEMMA SumOfNine ==
    ASSUME NEW f, \A i \in 1..9 : f[i] \in Int
    PROVE  SumFunctionOnSet(f, 1..9) =
               f[1] + f[2] + f[3] + f[4] + f[5] + f[6] + f[7] + f[8] + f[9]
<1>1. SumFunctionOnSet(f, 1..9) = f[9] + SumFunctionOnSet(f, 1..8)
  <2>1. 9 \in Nat \ {0} /\ 9 - 1 = 8
    OBVIOUS
  <2> QED BY <2>1, SumWithoutLast
<1>2. SumFunctionOnSet(f, 1..8) = f[1] + f[2] + f[3] + f[4] + f[5] + f[6] + f[7] + f[8]
  <2>1. \A i \in 1..8 : f[i] \in Int
    OBVIOUS
  <2> QED BY <2>1, SumOfEight
<1>3. /\ f[1] \in Int /\ f[2] \in Int /\ f[3] \in Int /\ f[4] \in Int /\ f[5] \in Int
      /\ f[6] \in Int /\ f[7] \in Int /\ f[8] \in Int /\ f[9] \in Int
  OBVIOUS
<1> QED BY <1>1, <1>2, <1>3

-----------------------------------------------------------------------------
(* A line with errors: what the fit leaves of them.                        *)

\* Rows of equal weight, one after the other, on a line with errors e.
OnLine(rows, n, e) ==
    /\ DOMAIN rows = 1..n
    /\ \E a, b, q \in Int : \A i \in 1..n :
          rows[i].w = 1 /\ rows[i].t = a + i /\ rows[i].y = b + q * i + e[i]

SumOfEightErrors(e) == e[1] + e[2] + e[3] + e[4] + e[5] + e[6] + e[7] + e[8]
MomentOfEight(e) ==
    28 * e[8] + 20 * e[7] + 12 * e[6] + 4 * e[5] - 4 * e[4] - 12 * e[3] - 20 * e[2] - 28 * e[1]

EightResiduals(r, e, d, m) ==
    /\ r[1] = 2688 * e[1] - 336 * d + 28 * m /\ r[2] = 2688 * e[2] - 336 * d + 20 * m
    /\ r[3] = 2688 * e[3] - 336 * d + 12 * m /\ r[4] = 2688 * e[4] - 336 * d + 4 * m
    /\ r[5] = 2688 * e[5] - 336 * d - 4 * m /\ r[6] = 2688 * e[6] - 336 * d - 12 * m
    /\ r[7] = 2688 * e[7] - 336 * d - 20 * m /\ r[8] = 2688 * e[8] - 336 * d - 28 * m

LEMMA ResidualsOfEight ==
    ASSUME NEW rows, NEW e, \A i \in 1..8 : e[i] \in Int, OnLine(rows, 8, e)
    PROVE  EightResiduals(Residuals(rows), e, SumOfEightErrors(e), MomentOfEight(e))
<1> DEFINE sum == SumOfEightErrors(e)
           moment == MomentOfEight(e)
<1>0. /\ sum = e[1] + e[2] + e[3] + e[4] + e[5] + e[6] + e[7] + e[8]
      /\ moment = 28 * e[8] + 20 * e[7] + 12 * e[6] + 4 * e[5]
                  - 4 * e[4] - 12 * e[3] - 20 * e[2] - 28 * e[1]
      /\ sum \in Int /\ moment \in Int
  BY DEF SumOfEightErrors, MomentOfEight
<1> HIDE DEF sum, moment
<1>1. PICK a, b, q \in Int : \A i \in 1..8 :
          rows[i].w = 1 /\ rows[i].t = a + i /\ rows[i].y = b + q * i + e[i]
  BY DEF OnLine
<1>2. DOMAIN rows = 1..8
  BY DEF OnLine
<1> DEFINE W  == [i \in DOMAIN rows |-> rows[i].w]
           WT == [i \in DOMAIN rows |-> rows[i].w * rows[i].t]
           WY == [i \in DOMAIN rows |-> rows[i].w * rows[i].y]
           sw  == SumFunction(W)
           swt == SumFunction(WT)
           XX == [i \in DOMAIN rows |-> WT[i] * (sw * rows[i].t - swt)]
           XY == [i \in DOMAIN rows |-> WY[i] * (sw * rows[i].t - swt)]
           y(i) == b + q * i + e[i]
<1>3. \A i \in 1..8 : /\ W[i] = 1 /\ WT[i] = a + i /\ WY[i] = y(i) /\ y(i) \in Int
                      /\ rows[i].t = a + i /\ rows[i].y = y(i)
  <2> TAKE i \in 1..8
  <2>1. rows[i].w = 1 /\ rows[i].t = a + i /\ rows[i].y = y(i)
    BY <1>1
  <2>2. y(i) \in Int /\ a + i \in Int
    OBVIOUS
  <2> HIDE DEF y
  <2>3. 1 * (a + i) = a + i /\ 1 * y(i) = y(i)
    BY <2>2
  <2> QED BY <1>2, <2>1, <2>2, <2>3
<1> HIDE DEF y
<1>4. sw = 8
  <2>1. sw = SumFunctionOnSet(W, 1..8)
    BY <1>2 DEF SumFunction
  <2>2. \A i \in 1..8 : W[i] \in Int
    BY <1>3
  <2>3. SumFunctionOnSet(W, 1..8) = W[1] + W[2] + W[3] + W[4] + W[5] + W[6] + W[7] + W[8]
    BY <2>2, SumOfEight
  <2> HIDE DEF W, sw
  <2> QED BY <1>3, <2>1, <2>3
<1>5. swt = 8 * a + 36
  <2>1. swt = SumFunctionOnSet(WT, 1..8)
    BY <1>2 DEF SumFunction
  <2>2. \A i \in 1..8 : WT[i] \in Int
    BY <1>3
  <2>3. SumFunctionOnSet(WT, 1..8) =
            WT[1] + WT[2] + WT[3] + WT[4] + WT[5] + WT[6] + WT[7] + WT[8]
    BY <2>2, SumOfEight
  <2> HIDE DEF WT, swt
  <2> QED BY <1>3, <2>1, <2>3
<1> HIDE DEF sw, swt, WT, WY
<1>6. \A i \in 1..8 : /\ sw * rows[i].t - swt = 8 * i - 36
                      /\ XX[i] = (a + i) * (8 * i - 36) /\ XX[i] \in Int
                      /\ XY[i] = y(i) * (8 * i - 36) /\ XY[i] \in Int
  <2> TAKE i \in 1..8
  <2>1. sw * rows[i].t - swt = 8 * i - 36
    BY <1>3, <1>4, <1>5
  <2> QED BY <1>2, <1>3, <2>1
<1>7. SumFunction(XX) = 336
  <2>1. SumFunction(XX) = SumFunctionOnSet(XX, 1..8)
    BY <1>2 DEF SumFunction
  <2> HIDE DEF XX
  <2>2. SumFunctionOnSet(XX, 1..8) =
            XX[1] + XX[2] + XX[3] + XX[4] + XX[5] + XX[6] + XX[7] + XX[8]
    BY <1>6, SumOfEight
  <2> QED BY <1>6, <2>1, <2>2
<1>8. SumFunction(XY) = 336 * q + moment
  <2>1. SumFunction(XY) = SumFunctionOnSet(XY, 1..8)
    BY <1>2 DEF SumFunction
  <2> HIDE DEF XY
  <2>2. SumFunctionOnSet(XY, 1..8) =
            XY[1] + XY[2] + XY[3] + XY[4] + XY[5] + XY[6] + XY[7] + XY[8]
    BY <1>6, SumOfEight
  <2>3. /\ XY[1] = (b + q + e[1]) * (-28) /\ XY[2] = (b + 2 * q + e[2]) * (-20)
        /\ XY[3] = (b + 3 * q + e[3]) * (-12) /\ XY[4] = (b + 4 * q + e[4]) * (-4)
        /\ XY[5] = (b + 5 * q + e[5]) * 4 /\ XY[6] = (b + 6 * q + e[6]) * 12
        /\ XY[7] = (b + 7 * q + e[7]) * 20 /\ XY[8] = (b + 8 * q + e[8]) * 28
    BY <1>6 DEF y
  <2> QED BY <1>0, <2>1, <2>2, <2>3
<1>9. SumFunction(WY) = 8 * b + 36 * q + sum
  <2>1. SumFunction(WY) = SumFunctionOnSet(WY, 1..8)
    BY <1>2 DEF SumFunction, WY
  <2>2. \A i \in 1..8 : WY[i] \in Int
    BY <1>3
  <2>3. SumFunctionOnSet(WY, 1..8) =
            WY[1] + WY[2] + WY[3] + WY[4] + WY[5] + WY[6] + WY[7] + WY[8]
    BY <2>2, SumOfEight
  <2> QED BY <1>0, <1>3, <2>1, <2>3 DEF y
<1> HIDE DEF XX, XY
<1>10. Fit(rows) = [sw |-> sw, swt |-> swt, sy |-> SumFunction(WY),
                    sxx |-> SumFunction(XX), sxy |-> SumFunction(XY)]
  BY DEF Fit, XX, XY, sw, swt, WT, WY
<1> DEFINE r == Residuals(rows)
<1>11. \A i \in 1..8 : r[i] = 2688 * e[i] - 336 * sum - moment * (8 * i - 36)
  <2> TAKE i \in 1..8
  <2>1. Residuals(rows)[i] = 8 * 336 * rows[i].y - 336 * (8 * b + 36 * q + sum)
                                  - (336 * q + moment) * (8 * rows[i].t - (8 * a + 36))
    BY <1>2, <1>4, <1>5, <1>7, <1>8, <1>9, <1>10 DEF Residuals
  <2>2. 8 * rows[i].t - (8 * a + 36) = 8 * i - 36
    BY <1>3
  <2>3. (336 * q + moment) * (8 * i - 36) = 2688 * (q * i) - 12096 * q + moment * (8 * i - 36)
    BY <1>0
  <2>4. moment * (8 * i - 36) \in Int
    BY <1>0
  <2>5. rows[i].y = y(i)
    BY <1>3
  <2>6. y(i) = b + q * i + e[i] /\ q * i \in Int
    BY DEF y
  <2> QED BY <1>0, <2>1, <2>2, <2>3, <2>4, <2>5, <2>6
<1> HIDE DEF r
<1>12. EightResiduals(r, e, sum, moment)
  <2>1. \A i \in 1..8 : e[i] \in Int
    OBVIOUS
  <2> QED BY <1>0, <1>11, <2>1 DEF EightResiduals
<1> QED BY <1>12 DEF r, sum, moment

SumOfNineErrors(e) == e[1] + e[2] + e[3] + e[4] + e[5] + e[6] + e[7] + e[8] + e[9]
MomentOfNine(e) ==
    36 * e[9] + 27 * e[8] + 18 * e[7] + 9 * e[6] - 9 * e[4] - 18 * e[3] - 27 * e[2] - 36 * e[1]

NineResiduals(r, e, d, m) ==
    /\ r[1] = 4860 * e[1] - 540 * d + 36 * m /\ r[2] = 4860 * e[2] - 540 * d + 27 * m
    /\ r[3] = 4860 * e[3] - 540 * d + 18 * m /\ r[4] = 4860 * e[4] - 540 * d + 9 * m
    /\ r[5] = 4860 * e[5] - 540 * d /\ r[6] = 4860 * e[6] - 540 * d - 9 * m
    /\ r[7] = 4860 * e[7] - 540 * d - 18 * m /\ r[8] = 4860 * e[8] - 540 * d - 27 * m
    /\ r[9] = 4860 * e[9] - 540 * d - 36 * m

LEMMA ResidualsOfNine ==
    ASSUME NEW rows, NEW e, \A i \in 1..9 : e[i] \in Int, OnLine(rows, 9, e)
    PROVE  NineResiduals(Residuals(rows), e, SumOfNineErrors(e), MomentOfNine(e))
<1> DEFINE sum == SumOfNineErrors(e)
           moment == MomentOfNine(e)
<1>0. /\ sum = e[1] + e[2] + e[3] + e[4] + e[5] + e[6] + e[7] + e[8] + e[9]
      /\ moment = 36 * e[9] + 27 * e[8] + 18 * e[7] + 9 * e[6]
                  - 9 * e[4] - 18 * e[3] - 27 * e[2] - 36 * e[1]
      /\ sum \in Int /\ moment \in Int
  BY DEF SumOfNineErrors, MomentOfNine
<1> HIDE DEF sum, moment
<1>1. PICK a, b, q \in Int : \A i \in 1..9 :
          rows[i].w = 1 /\ rows[i].t = a + i /\ rows[i].y = b + q * i + e[i]
  BY DEF OnLine
<1>2. DOMAIN rows = 1..9
  BY DEF OnLine
<1> DEFINE W  == [i \in DOMAIN rows |-> rows[i].w]
           WT == [i \in DOMAIN rows |-> rows[i].w * rows[i].t]
           WY == [i \in DOMAIN rows |-> rows[i].w * rows[i].y]
           sw  == SumFunction(W)
           swt == SumFunction(WT)
           XX == [i \in DOMAIN rows |-> WT[i] * (sw * rows[i].t - swt)]
           XY == [i \in DOMAIN rows |-> WY[i] * (sw * rows[i].t - swt)]
           y(i) == b + q * i + e[i]
<1>3. \A i \in 1..9 : /\ W[i] = 1 /\ WT[i] = a + i /\ WY[i] = y(i) /\ y(i) \in Int
                      /\ rows[i].t = a + i /\ rows[i].y = y(i)
  <2> TAKE i \in 1..9
  <2>1. rows[i].w = 1 /\ rows[i].t = a + i /\ rows[i].y = y(i)
    BY <1>1
  <2>2. y(i) \in Int /\ a + i \in Int
    OBVIOUS
  <2> HIDE DEF y
  <2>3. 1 * (a + i) = a + i /\ 1 * y(i) = y(i)
    BY <2>2
  <2> QED BY <1>2, <2>1, <2>2, <2>3
<1> HIDE DEF y
<1>4. sw = 9
  <2>1. sw = SumFunctionOnSet(W, 1..9)
    BY <1>2 DEF SumFunction
  <2>2. \A i \in 1..9 : W[i] \in Int
    BY <1>3
  <2>3. SumFunctionOnSet(W, 1..9) = W[1] + W[2] + W[3] + W[4] + W[5] + W[6] + W[7] + W[8] + W[9]
    BY <2>2, SumOfNine
  <2> HIDE DEF W, sw
  <2> QED BY <1>3, <2>1, <2>3
<1>5. swt = 9 * a + 45
  <2>1. swt = SumFunctionOnSet(WT, 1..9)
    BY <1>2 DEF SumFunction
  <2>2. \A i \in 1..9 : WT[i] \in Int
    BY <1>3
  <2>3. SumFunctionOnSet(WT, 1..9) =
            WT[1] + WT[2] + WT[3] + WT[4] + WT[5] + WT[6] + WT[7] + WT[8] + WT[9]
    BY <2>2, SumOfNine
  <2> HIDE DEF WT, swt
  <2> QED BY <1>3, <2>1, <2>3
<1> HIDE DEF sw, swt, WT, WY
<1>6. \A i \in 1..9 : /\ sw * rows[i].t - swt = 9 * i - 45
                      /\ XX[i] = (a + i) * (9 * i - 45) /\ XX[i] \in Int
                      /\ XY[i] = y(i) * (9 * i - 45) /\ XY[i] \in Int
  <2> TAKE i \in 1..9
  <2>1. sw * rows[i].t - swt = 9 * i - 45
    BY <1>3, <1>4, <1>5
  <2> QED BY <1>2, <1>3, <2>1
<1>7. SumFunction(XX) = 540
  <2>1. SumFunction(XX) = SumFunctionOnSet(XX, 1..9)
    BY <1>2 DEF SumFunction
  <2> HIDE DEF XX
  <2>2. SumFunctionOnSet(XX, 1..9) =
            XX[1] + XX[2] + XX[3] + XX[4] + XX[5] + XX[6] + XX[7] + XX[8] + XX[9]
    BY <1>6, SumOfNine
  <2> QED BY <1>6, <2>1, <2>2
<1>8. SumFunction(XY) = 540 * q + moment
  <2>1. SumFunction(XY) = SumFunctionOnSet(XY, 1..9)
    BY <1>2 DEF SumFunction
  <2> HIDE DEF XY
  <2>2. SumFunctionOnSet(XY, 1..9) =
            XY[1] + XY[2] + XY[3] + XY[4] + XY[5] + XY[6] + XY[7] + XY[8] + XY[9]
    BY <1>6, SumOfNine
  <2>3. /\ XY[1] = (b + q + e[1]) * (-36) /\ XY[2] = (b + 2 * q + e[2]) * (-27)
        /\ XY[3] = (b + 3 * q + e[3]) * (-18) /\ XY[4] = (b + 4 * q + e[4]) * (-9)
        /\ XY[5] = 0 /\ XY[6] = (b + 6 * q + e[6]) * 9
        /\ XY[7] = (b + 7 * q + e[7]) * 18 /\ XY[8] = (b + 8 * q + e[8]) * 27
        /\ XY[9] = (b + 9 * q + e[9]) * 36
    BY <1>6 DEF y
  <2> QED BY <1>0, <2>1, <2>2, <2>3
<1>9. SumFunction(WY) = 9 * b + 45 * q + sum
  <2>1. SumFunction(WY) = SumFunctionOnSet(WY, 1..9)
    BY <1>2 DEF SumFunction, WY
  <2>2. \A i \in 1..9 : WY[i] \in Int
    BY <1>3
  <2>3. SumFunctionOnSet(WY, 1..9) =
            WY[1] + WY[2] + WY[3] + WY[4] + WY[5] + WY[6] + WY[7] + WY[8] + WY[9]
    BY <2>2, SumOfNine
  <2> QED BY <1>0, <1>3, <2>1, <2>3 DEF y
<1> HIDE DEF XX, XY
<1>10. Fit(rows) = [sw |-> sw, swt |-> swt, sy |-> SumFunction(WY),
                    sxx |-> SumFunction(XX), sxy |-> SumFunction(XY)]
  BY DEF Fit, XX, XY, sw, swt, WT, WY
<1> DEFINE r == Residuals(rows)
<1>11. \A i \in 1..9 : r[i] = 4860 * e[i] - 540 * sum - moment * (9 * i - 45)
  <2> TAKE i \in 1..9
  <2>1. Residuals(rows)[i] = 9 * 540 * rows[i].y - 540 * (9 * b + 45 * q + sum)
                                  - (540 * q + moment) * (9 * rows[i].t - (9 * a + 45))
    BY <1>2, <1>4, <1>5, <1>7, <1>8, <1>9, <1>10 DEF Residuals
  <2>2. 9 * rows[i].t - (9 * a + 45) = 9 * i - 45
    BY <1>3
  <2>3. (540 * q + moment) * (9 * i - 45) = 4860 * (q * i) - 24300 * q + moment * (9 * i - 45)
    BY <1>0
  <2>4. moment * (9 * i - 45) \in Int
    BY <1>0
  <2>5. rows[i].y = y(i)
    BY <1>3
  <2>6. y(i) = b + q * i + e[i] /\ q * i \in Int
    BY DEF y
  <2> QED BY <1>0, <2>1, <2>2, <2>3, <2>4, <2>5, <2>6
<1> HIDE DEF r
<1>12. NineResiduals(r, e, sum, moment)
  <2>1. \A i \in 1..9 : e[i] \in Int
    OBVIOUS
  <2> QED BY <1>0, <1>11, <2>1 DEF NineResiduals
<1> QED BY <1>12 DEF r, sum, moment

\* One error alone.
Lone(n, k, s) == [i \in 1..n |-> IF i = k THEN s ELSE 0]

\* Its residual is more than 40 / 9 times that of five other rows, and
\* of the sign that its neighbours have not.
LEMMA SpikeStandsOut ==
    ASSUME NEW n \in {8, 9}, NEW k \in 3..(n - 3), NEW s \in Int, s # 0, NEW rows,
           OnLine(rows, n, Lone(n, k, s))
    PROVE  LET r == Residuals(rows)
               first == IF k = 3 THEN 3 ELSE 1
           IN  /\ \A i \in 1..n : r[i] \in Int
               /\ Sign(r[k]) # Sign(r[k - 1]) /\ Sign(r[k]) # Sign(r[k + 1])
               /\ Magnitude(r[k]) > 0
               /\ \A i \in (first..(first + 5)) \ {k} :
                     40 * Magnitude(r[i]) < 9 * Magnitude(r[k])
<1> DEFINE e == Lone(n, k, s)
           r == Residuals(rows)
           Apart(c, f) == /\ \A i \in 1..n : r[i] \in Int
                          /\ Sign(r[c]) # Sign(r[c - 1]) /\ Sign(r[c]) # Sign(r[c + 1])
                          /\ Magnitude(r[c]) > 0
                          /\ \A i \in (f..(f + 5)) \ {c} :
                                40 * Magnitude(r[i]) < 9 * Magnitude(r[c])
<1>1. \A i \in 1..n : e[i] = (IF i = k THEN s ELSE 0) /\ e[i] \in Int
  BY DEF Lone
<1>2. OnLine(rows, n, e)
  OBVIOUS
<1> SUFFICES Apart(k, IF k = 3 THEN 3 ELSE 1)
  OBVIOUS
<1> HIDE DEF e, r
<1>3. CASE n = 8
  <2>1. CASE k = 3
    <3>1. /\ e[1] = 0 /\ e[2] = 0 /\ e[3] = s /\ e[4] = 0 /\ e[5] = 0
          /\ e[6] = 0 /\ e[7] = 0 /\ e[8] = 0
      BY <1>1, <1>3, <2>1
    <3>2. s = SumOfEightErrors(e)
      BY <3>1 DEF SumOfEightErrors
    <3>3. MomentOfEight(e) = (-12) * s
      BY <3>1 DEF MomentOfEight
    <3>4. EightResiduals(r, e, SumOfEightErrors(e), MomentOfEight(e))
      <4>1. OnLine(rows, 8, e) /\ \A i \in 1..8 : e[i] \in Int
        BY <1>1, <1>2, <1>3
      <4> QED BY <4>1, ResidualsOfEight DEF r
    <3>5. EightResiduals(r, e, s, (-12) * s)
      BY <3>2, <3>3, <3>4
    <3>6. /\ r[1] = (-672) * s /\ r[2] = (-576) * s /\ r[3] = 2208 * s /\ r[4] = (-384) * s
          /\ r[5] = (-288) * s /\ r[6] = (-192) * s /\ r[7] = (-96) * s /\ r[8] = 0
      BY <3>1, <3>5 DEF EightResiduals
    <3>7. Apart(3, 3)
      BY <1>3, <3>6 DEF Sign, Magnitude
    <3> HIDE DEF Apart
    <3> QED BY <2>1, <3>7
  <2>2. CASE k = 4
    <3>1. /\ e[1] = 0 /\ e[2] = 0 /\ e[3] = 0 /\ e[4] = s /\ e[5] = 0
          /\ e[6] = 0 /\ e[7] = 0 /\ e[8] = 0
      BY <1>1, <1>3, <2>2
    <3>2. s = SumOfEightErrors(e)
      BY <3>1 DEF SumOfEightErrors
    <3>3. MomentOfEight(e) = (-4) * s
      BY <3>1 DEF MomentOfEight
    <3>4. EightResiduals(r, e, SumOfEightErrors(e), MomentOfEight(e))
      <4>1. OnLine(rows, 8, e) /\ \A i \in 1..8 : e[i] \in Int
        BY <1>1, <1>2, <1>3
      <4> QED BY <4>1, ResidualsOfEight DEF r
    <3>5. EightResiduals(r, e, s, (-4) * s)
      BY <3>2, <3>3, <3>4
    <3>6. /\ r[1] = (-448) * s /\ r[2] = (-416) * s /\ r[3] = (-384) * s /\ r[4] = 2336 * s
          /\ r[5] = (-320) * s /\ r[6] = (-288) * s /\ r[7] = (-256) * s /\ r[8] = (-224) * s
      BY <3>1, <3>5 DEF EightResiduals
    <3>7. Apart(4, 1)
      BY <1>3, <3>6 DEF Sign, Magnitude
    <3> HIDE DEF Apart
    <3> QED BY <2>2, <3>7
  <2>3. CASE k = 5
    <3>1. /\ e[1] = 0 /\ e[2] = 0 /\ e[3] = 0 /\ e[4] = 0 /\ e[5] = s
          /\ e[6] = 0 /\ e[7] = 0 /\ e[8] = 0
      BY <1>1, <1>3, <2>3
    <3>2. s = SumOfEightErrors(e)
      BY <3>1 DEF SumOfEightErrors
    <3>3. MomentOfEight(e) = 4 * s
      BY <3>1 DEF MomentOfEight
    <3>4. EightResiduals(r, e, SumOfEightErrors(e), MomentOfEight(e))
      <4>1. OnLine(rows, 8, e) /\ \A i \in 1..8 : e[i] \in Int
        BY <1>1, <1>2, <1>3
      <4> QED BY <4>1, ResidualsOfEight DEF r
    <3>5. EightResiduals(r, e, s, 4 * s)
      BY <3>2, <3>3, <3>4
    <3>6. /\ r[1] = (-224) * s /\ r[2] = (-256) * s /\ r[3] = (-288) * s /\ r[4] = (-320) * s
          /\ r[5] = 2336 * s /\ r[6] = (-384) * s /\ r[7] = (-416) * s /\ r[8] = (-448) * s
      BY <3>1, <3>5 DEF EightResiduals
    <3>7. Apart(5, 1)
      BY <1>3, <3>6 DEF Sign, Magnitude
    <3> HIDE DEF Apart
    <3> QED BY <2>3, <3>7
  <2> QED BY <1>3, <2>1, <2>2, <2>3
<1>4. CASE n = 9
  <2>1. CASE k = 3
    <3>1. /\ e[1] = 0 /\ e[2] = 0 /\ e[3] = s /\ e[4] = 0 /\ e[5] = 0
          /\ e[6] = 0 /\ e[7] = 0 /\ e[8] = 0 /\ e[9] = 0
      BY <1>1, <1>4, <2>1
    <3>2. s = SumOfNineErrors(e)
      BY <3>1 DEF SumOfNineErrors
    <3>3. MomentOfNine(e) = (-18) * s
      BY <3>1 DEF MomentOfNine
    <3>4. NineResiduals(r, e, SumOfNineErrors(e), MomentOfNine(e))
      <4>1. OnLine(rows, 9, e) /\ \A i \in 1..9 : e[i] \in Int
        BY <1>1, <1>2, <1>4
      <4> QED BY <4>1, ResidualsOfNine DEF r
    <3>5. NineResiduals(r, e, s, (-18) * s)
      BY <3>2, <3>3, <3>4
    <3>6. /\ r[1] = (-1188) * s /\ r[2] = (-1026) * s /\ r[3] = 3996 * s /\ r[4] = (-702) * s
          /\ r[5] = (-540) * s /\ r[6] = (-378) * s /\ r[7] = (-216) * s /\ r[8] = (-54) * s
          /\ r[9] = 108 * s
      BY <3>1, <3>5 DEF NineResiduals
    <3>7. Apart(3, 3)
      BY <1>4, <3>6 DEF Sign, Magnitude
    <3> HIDE DEF Apart
    <3> QED BY <2>1, <3>7
  <2>2. CASE k = 4
    <3>1. /\ e[1] = 0 /\ e[2] = 0 /\ e[3] = 0 /\ e[4] = s /\ e[5] = 0
          /\ e[6] = 0 /\ e[7] = 0 /\ e[8] = 0 /\ e[9] = 0
      BY <1>1, <1>4, <2>2
    <3>2. s = SumOfNineErrors(e)
      BY <3>1 DEF SumOfNineErrors
    <3>3. MomentOfNine(e) = (-9) * s
      BY <3>1 DEF MomentOfNine
    <3>4. NineResiduals(r, e, SumOfNineErrors(e), MomentOfNine(e))
      <4>1. OnLine(rows, 9, e) /\ \A i \in 1..9 : e[i] \in Int
        BY <1>1, <1>2, <1>4
      <4> QED BY <4>1, ResidualsOfNine DEF r
    <3>5. NineResiduals(r, e, s, (-9) * s)
      BY <3>2, <3>3, <3>4
    <3>6. /\ r[1] = (-864) * s /\ r[2] = (-783) * s /\ r[3] = (-702) * s /\ r[4] = 4239 * s
          /\ r[5] = (-540) * s /\ r[6] = (-459) * s /\ r[7] = (-378) * s /\ r[8] = (-297) * s
          /\ r[9] = (-216) * s
      BY <3>1, <3>5 DEF NineResiduals
    <3>7. Apart(4, 1)
      BY <1>4, <3>6 DEF Sign, Magnitude
    <3> HIDE DEF Apart
    <3> QED BY <2>2, <3>7
  <2>3. CASE k = 5
    <3>1. /\ e[1] = 0 /\ e[2] = 0 /\ e[3] = 0 /\ e[4] = 0 /\ e[5] = s
          /\ e[6] = 0 /\ e[7] = 0 /\ e[8] = 0 /\ e[9] = 0
      BY <1>1, <1>4, <2>3
    <3>2. s = SumOfNineErrors(e)
      BY <3>1 DEF SumOfNineErrors
    <3>3. MomentOfNine(e) = 0
      BY <3>1 DEF MomentOfNine
    <3>4. NineResiduals(r, e, SumOfNineErrors(e), MomentOfNine(e))
      <4>1. OnLine(rows, 9, e) /\ \A i \in 1..9 : e[i] \in Int
        BY <1>1, <1>2, <1>4
      <4> QED BY <4>1, ResidualsOfNine DEF r
    <3>5. NineResiduals(r, e, s, 0 * s)
      BY <3>2, <3>3, <3>4
    <3>6. /\ r[1] = (-540) * s /\ r[2] = (-540) * s /\ r[3] = (-540) * s /\ r[4] = (-540) * s
          /\ r[5] = 4320 * s /\ r[6] = (-540) * s /\ r[7] = (-540) * s /\ r[8] = (-540) * s
          /\ r[9] = (-540) * s
      BY <3>1, <3>5 DEF NineResiduals
    <3>7. Apart(5, 1)
      BY <1>4, <3>6 DEF Sign, Magnitude
    <3> HIDE DEF Apart
    <3> QED BY <2>3, <3>7
  <2>4. CASE k = 6
    <3>1. /\ e[1] = 0 /\ e[2] = 0 /\ e[3] = 0 /\ e[4] = 0 /\ e[5] = 0
          /\ e[6] = s /\ e[7] = 0 /\ e[8] = 0 /\ e[9] = 0
      BY <1>1, <1>4, <2>4
    <3>2. s = SumOfNineErrors(e)
      BY <3>1 DEF SumOfNineErrors
    <3>3. MomentOfNine(e) = 9 * s
      BY <3>1 DEF MomentOfNine
    <3>4. NineResiduals(r, e, SumOfNineErrors(e), MomentOfNine(e))
      <4>1. OnLine(rows, 9, e) /\ \A i \in 1..9 : e[i] \in Int
        BY <1>1, <1>2, <1>4
      <4> QED BY <4>1, ResidualsOfNine DEF r
    <3>5. NineResiduals(r, e, s, 9 * s)
      BY <3>2, <3>3, <3>4
    <3>6. /\ r[1] = (-216) * s /\ r[2] = (-297) * s /\ r[3] = (-378) * s /\ r[4] = (-459) * s
          /\ r[5] = (-540) * s /\ r[6] = 4239 * s /\ r[7] = (-702) * s /\ r[8] = (-783) * s
          /\ r[9] = (-864) * s
      BY <3>1, <3>5 DEF NineResiduals
    <3>7. Apart(6, 1)
      BY <1>4, <3>6 DEF Sign, Magnitude
    <3> HIDE DEF Apart
    <3> QED BY <2>4, <3>7
  <2> QED BY <1>4, <2>1, <2>2, <2>3, <2>4
<1> QED BY <1>3, <1>4

\* Such a residual is not taken for a trend, is found, and is not kept.
LEMMA SpikeIsFound ==
    ASSUME NEW n \in {8, 9}, NEW k \in 3..(n - 3), NEW r \in Seq(Int), Len(r) = n,
           Sign(r[k]) # Sign(r[k - 1]), Sign(r[k]) # Sign(r[k + 1]),
           Magnitude(r[k]) > 0,
           NEW first \in 1..3, k \in first..(first + 5),
           \A i \in (first..(first + 5)) \ {k} : 40 * Magnitude(r[i]) < 9 * Magnitude(r[k])
    PROVE  WellMixed(r) /\ HasSpike(r) /\ k \notin Kept(r)
<1> DEFINE m == Magnitude(r[k])
           five == (first..(first + 5)) \ {k}
           Below(x) == {i \in 1..n : 40 * Magnitude(r[i]) < 9 * x}
<1>1. /\ DOMAIN r = 1..n /\ n \in Nat /\ n \div 2 = 4 /\ IsFiniteSet(1..n)
      /\ \A i \in 1..n : r[i] \in Int /\ Magnitude(r[i]) \in Nat
  <2>1. DOMAIN r = 1..n /\ n \in Int /\ n \in Nat /\ n \div 2 = 4
    OBVIOUS
  <2>2. IsFiniteSet(1..n)
    BY <2>1, FS_Interval
  <2>3. \A i \in 1..n : r[i] \in Int
    OBVIOUS
  <2> QED BY <2>1, <2>2, <2>3, MagnitudeFacts
<1>2. Cardinality(five) = 5 /\ five \subseteq Below(m)
  <2>1. first \in Int /\ first + 5 \in Int /\ first <= first + 5
    OBVIOUS
  <2>2. IsFiniteSet(first..(first + 5)) /\ Cardinality(first..(first + 5)) = 6
    <3>1. /\ IsFiniteSet(first..(first + 5))
          /\ Cardinality(first..(first + 5)) =
                IF first > first + 5 THEN 0 ELSE (first + 5) - first + 1
      BY <2>1, FS_Interval
    <3>2. ~ (first > first + 5) /\ (first + 5) - first + 1 = 6
      BY <2>1
    <3> QED BY <3>1, <3>2
  <2>3. Cardinality(five) = 6 - 1
    BY <2>2, FS_RemoveElement
  <2>4. first..(first + 5) \subseteq 1..n
    OBVIOUS
  <2> QED BY <2>3, <2>4
<1>3. m \in Nat /\ k \in 1..n /\ k \in 1..(n - 3)
  <2>1. k \in 1..n /\ k \in 1..(n - 3)
    OBVIOUS
  <2> QED BY <1>1, <2>1
<1> HIDE DEF five
<1>4. ASSUME NEW x \in Int, m <= x PROVE Cardinality(Below(x)) >= 5
  <2>1. \A i \in 1..n : 40 * Magnitude(r[i]) < 9 * m => 40 * Magnitude(r[i]) < 9 * x
    BY <1>1, <1>3, <1>4
  <2>2. five \subseteq Below(x)
    BY <1>2, <2>1
  <2>3. IsFiniteSet(Below(x))
    BY <1>1, FS_Subset
  <2> HIDE DEF LowerThan
  <2>4. Cardinality(five) <= Cardinality(Below(x))
    BY <2>2, <2>3, FS_Subset
  <2>5. Cardinality(Below(x)) \in Nat
    BY <2>3, FS_CardinalityType
  <2> QED BY <1>2, <2>4, <2>5
<1>5. WellMixed(r)
  <2> DEFINE turns == {i \in 2..Len(r) : Sign(r[i]) # Sign(r[i - 1])}
  <2>1. k \in turns /\ k + 1 \in turns /\ k + 1 # k /\ (k + 1) - 1 = k
    OBVIOUS
  <2>2. IsFiniteSet(turns)
    <3>1. IsFiniteSet(2..Len(r))
      BY FS_Interval
    <3> QED BY <3>1, FS_Subset
  <2> HIDE DEF turns
  <2>3. IsFiniteSet(turns \ {k}) /\ Cardinality(turns \ {k}) = Cardinality(turns) - 1
    BY <2>1, <2>2, FS_RemoveElement
  <2>4. Cardinality((turns \ {k}) \ {k + 1}) = Cardinality(turns \ {k}) - 1
    BY <2>1, <2>3, FS_RemoveElement
  <2>5. IsFiniteSet((turns \ {k}) \ {k + 1})
    BY <2>3, FS_RemoveElement
  <2>6. /\ Cardinality(turns) \in Nat /\ Cardinality((turns \ {k}) \ {k + 1}) \in Nat
    BY <2>2, <2>5, FS_CardinalityType
  <2>7. Cardinality(turns) >= 2
    BY <2>3, <2>4, <2>6
  <2>8. 3 * (1 + Cardinality(turns)) >= Len(r)
    <3>1. Len(r) \in Nat /\ Len(r) <= 9
      OBVIOUS
    <3>2. 3 * (1 + Cardinality(turns)) >= 9
      BY <2>6, <2>7
    <3> QED BY <2>6, <3>1, <3>2
  <2> QED BY <2>8 DEF WellMixed, turns
<1>6. HasSpike(r)
  <2>1. Worst(r) \in Int /\ m <= Worst(r)
    <3>1. Len(r) > 4
      OBVIOUS
    <3> QED BY <1>3, <3>1, WorstFacts
  <2>2. Cardinality(Below(Worst(r))) >= 5
    BY <1>4, <2>1
  <2>3. Worst(r) > 0
    BY <1>3, <2>1
  <2>4. Cardinality(Below(Worst(r))) >= Len(r) \div 2 + 1
    <3>1. Len(r) \div 2 + 1 = 5
      BY <1>1
    <3> HIDE DEF LowerThan
    <3> QED BY <2>2, <3>1
  <2> QED BY <1>1, <2>3, <2>4 DEF HasSpike
<1>7. k \notin Kept(r)
  <2> DEFINE Less == {i \in 1..n : Magnitude(r[i]) < Mad(r)}
  <2>1. Mad(r) \in Nat /\ Cardinality(Less) <= 4
    <3>1. 4 \in Nat /\ 4 < n
      OBVIOUS
    <3> QED BY <1>1, <3>1, SelectedFacts DEF Mad
  <2>2. ASSUME 9 * m <= 40 * Mad(r) PROVE FALSE
    <3>1. Below(m) \subseteq Less
      <4>1. \A i \in 1..n : 40 * Magnitude(r[i]) < 9 * m => Magnitude(r[i]) < Mad(r)
        <5> HIDE DEF m
        <5> QED BY <1>1, <1>3, <2>1, <2>2
      <4> QED BY <4>1
    <3>2. IsFiniteSet(Less)
      BY <1>1, FS_Subset
    <3> HIDE DEF Below, Less
    <3>3. Cardinality(Below(m)) <= Cardinality(Less) /\ IsFiniteSet(Below(m))
      BY <3>1, <3>2, FS_Subset
    <3>4. Cardinality(Below(m)) >= 5
      BY <1>3, <1>4
    <3>5. Cardinality(Below(m)) \in Nat /\ Cardinality(Less) \in Nat
      BY <3>2, <3>3, FS_CardinalityType
    <3> QED BY <2>1, <3>3, <3>4, <3>5
  <2>3. ~ (k > Len(r) - 3)
    BY <1>1, <1>3
  <2> QED BY <2>2, <2>3 DEF Kept
<1> QED BY <1>5, <1>6, <1>7

LEMMA ListIsSeq ==
    ASSUME NEW S, NEW n \in Nat, NEW f \in [1..n -> S]
    PROVE  f \in Seq(S) /\ Len(f) = n
OBVIOUS

LEMMA SeqOfLarger ==
    ASSUME NEW A, NEW B, A \subseteq B, NEW s \in Seq(A)
    PROVE  s \in Seq(B)
<1>1. Len(s) \in Nat /\ s = [i \in 1..Len(s) |-> s[i]] /\ \A i \in 1..Len(s) : s[i] \in A
  OBVIOUS
<1>2. \A i \in 1..Len(s) : s[i] \in B
  BY <1>1
<1> QED BY <1>1, <1>2

\* A window with one error loses that row and no other but for the sake of the trim.
LEMMA SpikeIsDropped ==
    ASSUME NEW S, NEW rows \in Seq(S), NEW n \in {8, 9}, Len(rows) = n,
           NEW k \in 3..(n - 3), NEW s \in Int, s # 0,
           OnLine(rows, n, Lone(n, k, s))
    PROVE  TrimSpikes(DropStale(rows)) \in Seq({rows[i] : i \in (1..n) \ {k}})
<1> DEFINE r == Residuals(rows)
           first == IF k = 3 THEN 3 ELSE 1
<1>1. /\ \A i \in 1..n : r[i] \in Int
      /\ Sign(r[k]) # Sign(r[k - 1]) /\ Sign(r[k]) # Sign(r[k + 1])
      /\ Magnitude(r[k]) > 0
      /\ \A i \in (first..(first + 5)) \ {k} : 40 * Magnitude(r[i]) < 9 * Magnitude(r[k])
  <2>1. n \in {8, 9} /\ k \in 3..(n - 3) /\ s \in Int /\ s # 0
    OBVIOUS
  <2> QED BY <2>1, SpikeStandsOut
<1>2. r \in Seq(Int) /\ Len(r) = n
  <2>1. DOMAIN rows = 1..n /\ n \in Nat
    OBVIOUS
  <2>2. r = [i \in 1..n |-> r[i]]
    BY <2>1 DEF Residuals
  <2>3. \A i \in 1..n : r[i] \in Int
    BY <1>1
  <2> HIDE DEF r
  <2>4. r \in [1..n -> Int]
    BY <2>2, <2>3
  <2> QED BY <2>1, <2>4, ListIsSeq
<1>3. first \in 1..3 /\ k \in first..(first + 5)
  OBVIOUS
<1> HIDE DEF first, r
<1>4. WellMixed(r) /\ HasSpike(r) /\ k \notin Kept(r)
  BY <1>1, <1>2, <1>3, SpikeIsFound
<1>5. DropStale(rows) = rows
  <2>1. DropQuarter(rows) = rows
    BY <1>4 DEF DropQuarter, r
  <2> QED BY <2>1 DEF DropStale
<1>6. TrimSpikes(rows) \in Seq({rows[i] : i \in Kept(r)})
  <2>1. Len(rows) >= 3 /\ Len(rows) > 4
    OBVIOUS
  <2> QED BY <1>4, <2>1, TrimSpikesKeepsEnd DEF r
<1>7. {rows[i] : i \in Kept(r)} \subseteq {rows[i] : i \in (1..n) \ {k}}
  <2>1. Kept(r) \subseteq 1..n
    BY <1>2 DEF Kept
  <2> QED BY <1>4, <2>1
<1> HIDE DEF r
<1>8. TrimSpikes(rows) \in Seq({rows[i] : i \in (1..n) \ {k}})
  BY <1>6, <1>7, SeqOfLarger
<1> QED BY <1>5, <1>8

\* Rows without an error on a line through the origin.
Straight(q) == {row \in [t : Int, y : Int, w : Int, v : Int] : row.y = q * row.t}

\* The fit of such rows has the slope of the line, and their offset at any time is on it.
LEMMA FitOfStraight ==
    ASSUME NEW q \in Int, NEW rows \in Seq(Straight(q)), NEW now \in Int
    PROVE  /\ Fit(rows).sxy = q * Fit(rows).sxx
           /\ OffsetAt(rows, now).num = q * now * OffsetAt(rows, now).den
<1> DEFINE I == DOMAIN rows
           sharp == \E j \in DOMAIN rows : rows[j].v > 0
           W  == [i \in DOMAIN rows |-> rows[i].w]
           WT == [i \in DOMAIN rows |-> rows[i].w * rows[i].t]
           WY == [i \in DOMAIN rows |-> rows[i].w * rows[i].y]
           sw  == SumFunction(W)
           swt == SumFunction(WT)
           XX == [i \in DOMAIN rows |-> WT[i] * (sw * rows[i].t - swt)]
           XY == [i \in DOMAIN rows |-> WY[i] * (sw * rows[i].t - swt)]
           V  == [i \in DOMAIN rows |->
                     IF \E j \in DOMAIN rows : rows[j].v > 0 THEN rows[i].v ELSE 1]
           VT == [i \in DOMAIN rows |-> V[i] * rows[i].t]
           VY == [i \in DOMAIN rows |-> V[i] * rows[i].y]
           sv == SumFunction(V)
<1>1. IsFiniteSet(I)
  <2>1. I = 1..Len(rows) /\ Len(rows) \in Int
    OBVIOUS
  <2> QED BY <2>1, FS_Interval
<1>2. \A i \in I : /\ rows[i].t \in Int /\ rows[i].w \in Int /\ rows[i].v \in Int
                   /\ rows[i].y = q * rows[i].t /\ rows[i].y \in Int
  BY DEF Straight
<1>3. ASSUME NEW f, DOMAIN f = I, \A i \in I : f[i] \in Int
      PROVE  SumFunction(f) = SumFunctionOnSet(f, I) /\ SumFunction(f) \in Int
  <2>1. SumFunctionOnSet(f, I) \in Int
    BY <1>1, <1>3, SumSteps
  <2> QED BY <1>3, <2>1 DEF SumFunction
<1>4. ASSUME NEW f, DOMAIN f = I, \A i \in I : f[i] \in Int,
             NEW h, DOMAIN h = I, \A i \in I : h[i] = q * f[i]
      PROVE  SumFunction(h) = q * SumFunction(f)
  <2>1. SumFunctionOnSet(h, I) = q * SumFunctionOnSet(f, I)
    BY <1>1, <1>4, SumScaled
  <2> QED BY <1>4, <2>1 DEF SumFunction
<1>5. \A i \in I : W[i] \in Int /\ WT[i] \in Int /\ V[i] \in Int
  BY <1>2
<1>6. sw \in Int /\ swt \in Int /\ sv \in Int
  <2>1. DOMAIN W = I /\ DOMAIN WT = I /\ DOMAIN V = I
    OBVIOUS
  <2> HIDE DEF W, WT, V, I
  <2> QED BY <1>3, <1>5, <2>1
<1>7. SumFunction(XY) = q * SumFunction(XX) /\ SumFunction(XX) \in Int
  <2>1. \A i \in I : XX[i] \in Int /\ XY[i] = q * XX[i]
    <3> TAKE i \in I
    <3> DEFINE c == sw * rows[i].t - swt
               w == rows[i].w
               t == rows[i].t
    <3>1. w \in Int /\ t \in Int /\ rows[i].y = q * t
      BY <1>2
    <3>2. c \in Int
      BY <1>6, <3>1
    <3>3. XX[i] = (w * t) * c /\ XY[i] = (w * rows[i].y) * c
      OBVIOUS
    <3> HIDE DEF c, w, t, XX, XY
    <3>4. (w * (q * t)) * c = q * ((w * t) * c) /\ (w * t) * c \in Int
      BY <3>1, <3>2
    <3> QED BY <3>1, <3>3, <3>4
  <2>2. DOMAIN XX = I /\ DOMAIN XY = I
    OBVIOUS
  <2> HIDE DEF XX, XY, I
  <2> QED BY <1>3, <1>4, <2>1, <2>2
<1>8. SumFunction(VY) = q * SumFunction(VT) /\ SumFunction(VT) \in Int
  <2>1. \A i \in I : VT[i] \in Int /\ VY[i] = q * VT[i]
    <3> TAKE i \in I
    <3> DEFINE u == V[i]
               t == rows[i].t
    <3>1. u \in Int /\ t \in Int /\ rows[i].y = q * t
      BY <1>2, <1>5
    <3>2. VT[i] = u * t /\ VY[i] = u * rows[i].y
      OBVIOUS
    <3> HIDE DEF u, t, VT, VY
    <3>3. u * (q * t) = q * (u * t) /\ u * t \in Int
      BY <3>1
    <3> QED BY <3>1, <3>2, <3>3
  <2>2. DOMAIN VT = I /\ DOMAIN VY = I
    OBVIOUS
  <2> HIDE DEF VT, VY, I
  <2> QED BY <1>3, <1>4, <2>1, <2>2
<1>9. Fit(rows).sxx = SumFunction(XX) /\ Fit(rows).sxy = SumFunction(XY)
  BY DEF Fit
<1>10. OffsetAt(rows, now) =
          [num |-> Fit(rows).sxx * SumFunction(VY)
                   + Fit(rows).sxy * (now * sv - SumFunction(VT)),
           den |-> sv * Fit(rows).sxx]
  BY DEF OffsetAt
<1> DEFINE x == SumFunction(XX)
           z == SumFunction(VT)
<1>11. OffsetAt(rows, now).num = x * (q * z) + (q * x) * (now * sv - z)
  BY <1>7, <1>8, <1>9, <1>10
<1>12. OffsetAt(rows, now).den = sv * x
  BY <1>9, <1>10
<1>13. x \in Int /\ z \in Int
  BY <1>7, <1>8
<1> HIDE DEF x, z, sv, XX, XY, VT, VY
<1>14. x * (q * z) + (q * x) * (now * sv - z) = (q * now) * (sv * x)
  BY <1>6, <1>13
<1> QED BY <1>7, <1>9, <1>11, <1>12, <1>14 DEF x

-----------------------------------------------------------------------------
(* A line added to the rows of a window, which is what slew_samples does:    *)
(* the code's comment says that it "transforms the fitted line exactly as    *)
(* the clock was transformed".                                              *)

\* Rows with any weights, and the rows with the line b + q * t added to their offsets.
Rows == [t : Int, y : Int, w : Int, v : Int]
Moved(rows, b, q) == [i \in DOMAIN rows |-> [rows[i] EXCEPT !.y = @ + b + q * rows[i].t]]

LEMMA MovedFacts ==
    ASSUME NEW rows \in Seq(Rows), NEW b \in Int, NEW q \in Int
    PROVE  /\ Moved(rows, b, q) \in Seq(Rows) /\ Len(Moved(rows, b, q)) = Len(rows)
           /\ DOMAIN Moved(rows, b, q) = DOMAIN rows /\ IsFiniteSet(DOMAIN rows)
           /\ \A i \in DOMAIN rows :
                 /\ rows[i].t \in Int /\ rows[i].y \in Int /\ rows[i].w \in Int /\ rows[i].v \in Int
                 /\ Moved(rows, b, q)[i].t = rows[i].t /\ Moved(rows, b, q)[i].w = rows[i].w
                 /\ Moved(rows, b, q)[i].v = rows[i].v
                 /\ Moved(rows, b, q)[i].y = rows[i].y + b + q * rows[i].t
<1>1. DOMAIN rows = 1..Len(rows) /\ Len(rows) \in Nat /\ \A i \in DOMAIN rows : rows[i] \in Rows
  OBVIOUS
<1>2. IsFiniteSet(DOMAIN rows)
  BY <1>1, FS_Interval
<1>3. \A i \in DOMAIN rows :
         /\ rows[i].t \in Int /\ rows[i].y \in Int /\ rows[i].w \in Int /\ rows[i].v \in Int
         /\ Moved(rows, b, q)[i] = [rows[i] EXCEPT !.y = rows[i].y + b + q * rows[i].t]
  BY <1>1 DEF Rows, Moved
<1>4. \A i \in DOMAIN rows : rows[i].y + b + q * rows[i].t \in Int
  <2> TAKE i \in DOMAIN rows
  <2>1. rows[i].t \in Int /\ rows[i].y \in Int
    BY <1>3
  <2> QED BY <2>1
<1>5. \A row \in Rows, y \in Int : /\ [row EXCEPT !.y = y] \in Rows
                                   /\ [row EXCEPT !.y = y].y = y
                                   /\ [row EXCEPT !.y = y].t = row.t
                                   /\ [row EXCEPT !.y = y].w = row.w
                                   /\ [row EXCEPT !.y = y].v = row.v
  BY DEF Rows
<1>6. Moved(rows, b, q) \in [1..Len(rows) -> Rows]
  <2>1. DOMAIN Moved(rows, b, q) = 1..Len(rows)
    BY <1>1 DEF Moved
  <2>2. \A i \in DOMAIN rows : Moved(rows, b, q)[i] \in Rows
    <3> TAKE i \in DOMAIN rows
    <3>1. /\ rows[i] \in Rows /\ rows[i].y + b + q * rows[i].t \in Int
          /\ Moved(rows, b, q)[i] = [rows[i] EXCEPT !.y = rows[i].y + b + q * rows[i].t]
      BY <1>1, <1>3, <1>4
    <3> QED BY <1>5, <3>1
  <2>3. Moved(rows, b, q) = [i \in DOMAIN rows |-> Moved(rows, b, q)[i]]
    BY DEF Moved
  <2> QED BY <1>1, <2>1, <2>2, <2>3
<1>7. Moved(rows, b, q) \in Seq(Rows) /\ Len(Moved(rows, b, q)) = Len(rows)
  BY <1>1, <1>6, ListIsSeq
<1>8. DOMAIN Moved(rows, b, q) = DOMAIN rows
  BY DEF Moved
<1>9. ASSUME NEW i \in DOMAIN rows
      PROVE  /\ Moved(rows, b, q)[i].t = rows[i].t /\ Moved(rows, b, q)[i].w = rows[i].w
             /\ Moved(rows, b, q)[i].v = rows[i].v
             /\ Moved(rows, b, q)[i].y = rows[i].y + b + q * rows[i].t
  <2>1. /\ rows[i] \in Rows /\ rows[i].y + b + q * rows[i].t \in Int
        /\ Moved(rows, b, q)[i] = [rows[i] EXCEPT !.y = rows[i].y + b + q * rows[i].t]
    BY <1>1, <1>3, <1>4
  <2> QED BY <1>5, <2>1
<1> QED BY <1>2, <1>3, <1>7, <1>8, <1>9

\* The fit of the rows is moved by the line, and what is left of the rows stays.
LEMMA FitMoves ==
    ASSUME NEW rows \in Seq(Rows), NEW b \in Int, NEW q \in Int
    PROVE  LET f == Fit(rows)
               g == Fit(Moved(rows, b, q))
           IN  /\ f.sw \in Int /\ f.swt \in Int /\ f.sy \in Int /\ f.sxx \in Int /\ f.sxy \in Int
               /\ g.sw = f.sw /\ g.swt = f.swt /\ g.sxx = f.sxx
               /\ g.sy = f.sy + b * f.sw + q * f.swt
               /\ g.sxy = f.sxy + q * f.sxx
<1> DEFINE I == DOMAIN rows
           M == Moved(rows, b, q)
           W  == [i \in I |-> rows[i].w]
           WT == [i \in I |-> rows[i].w * rows[i].t]
           WY == [i \in I |-> rows[i].w * rows[i].y]
           WZ == [i \in I |-> M[i].w * M[i].y]
           sw  == SumFunction(W)
           swt == SumFunction(WT)
           C  == [i \in I |-> rows[i].w * (sw * rows[i].t - swt)]
           XX == [i \in I |-> WT[i] * (sw * rows[i].t - swt)]
           XY == [i \in I |-> WY[i] * (sw * rows[i].t - swt)]
           XZ == [i \in I |-> WZ[i] * (sw * rows[i].t - swt)]
           Zero == [i \in I |-> 0]
<1>1. /\ IsFiniteSet(I) /\ DOMAIN M = I
      /\ \A i \in I : /\ rows[i].t \in Int /\ rows[i].y \in Int /\ rows[i].w \in Int
                      /\ M[i].t = rows[i].t /\ M[i].w = rows[i].w
                      /\ M[i].y = rows[i].y + b + q * rows[i].t
  BY MovedFacts
<1> HIDE DEF M
<1>2. Fit(rows) = [sw |-> sw, swt |-> swt, sy |-> SumFunction(WY),
                   sxx |-> SumFunction(XX), sxy |-> SumFunction(XY)]
  BY DEF Fit
<1>3. Fit(M) = [sw |-> sw, swt |-> swt, sy |-> SumFunction(WZ),
                sxx |-> SumFunction(XX), sxy |-> SumFunction(XZ)]
  <2>1. [i \in DOMAIN M |-> M[i].w] = W
    BY <1>1
  <2>2. [i \in DOMAIN M |-> M[i].w * M[i].t] = WT
    BY <1>1
  <2>3. [i \in DOMAIN M |-> M[i].w * M[i].y] = WZ
    BY <1>1
  <2>4. [i \in DOMAIN M |-> WT[i] * (sw * M[i].t - swt)] = XX
    BY <1>1
  <2>5. [i \in DOMAIN M |-> WZ[i] * (sw * M[i].t - swt)] = XZ
    BY <1>1
  <2> HIDE DEF W, WT, WZ, sw, swt
  <2>6. Fit(M) = [sw |-> sw, swt |-> swt, sy |-> SumFunction(WZ),
                  sxx |-> SumFunction([i \in DOMAIN M |-> WT[i] * (sw * M[i].t - swt)]),
                  sxy |-> SumFunction([i \in DOMAIN M |-> WZ[i] * (sw * M[i].t - swt)])]
    BY <2>1, <2>2, <2>3 DEF Fit, sw, swt
  <2> QED BY <2>4, <2>5, <2>6
<1>4. /\ DOMAIN W = I /\ DOMAIN WT = I /\ DOMAIN WY = I /\ DOMAIN WZ = I /\ DOMAIN C = I
      /\ DOMAIN XX = I /\ DOMAIN XY = I /\ DOMAIN XZ = I
  OBVIOUS
<1>5. \A i \in I : /\ W[i] \in Int /\ WT[i] \in Int /\ WY[i] \in Int
                   /\ WZ[i] = WY[i] + b * W[i] + q * WT[i]
  <2> TAKE i \in I
  <2> DEFINE w == rows[i].w
             t == rows[i].t
             y == rows[i].y
  <2>1. w \in Int /\ t \in Int /\ y \in Int
    BY <1>1
  <2>2. W[i] = w /\ WT[i] = w * t /\ WY[i] = w * y /\ WZ[i] = w * (y + b + q * t)
    BY <1>1
  <2> HIDE DEF w, t, y, W, WT, WY, WZ
  <2>3. w * (y + b + q * t) = w * y + b * w + q * (w * t) /\ w * t \in Int /\ w * y \in Int
    BY <2>1
  <2> QED BY <2>1, <2>2, <2>3
<1>6. /\ sw \in Int /\ swt \in Int /\ SumFunction(WY) \in Int
      /\ SumFunction(WZ) = SumFunction(WY) + b * sw + q * swt
  <2>1. /\ \A i \in I : W[i] \in Int
        /\ \A i \in I : WT[i] \in Int
        /\ \A i \in I : WY[i] \in Int
        /\ \A i \in I : WZ[i] = WY[i] + b * W[i] + q * WT[i]
    BY <1>5
  <2>2. DOMAIN W = I /\ DOMAIN WT = I /\ DOMAIN WY = I /\ DOMAIN WZ = I
    OBVIOUS
  <2> HIDE DEF W, WT, WY, WZ, I
  <2>3. /\ IntsOn(W, I) /\ IntsOn(WT, I) /\ IntsOn(WY, I)
        /\ SumOn(WZ, WY, W, WT, b, q, I)
    BY <2>1, <2>2 DEF IntsOn, SumOn
  <2> QED BY <1>1, <2>3, SumMoved
<1> HIDE DEF sw, swt
<1>7. \A i \in I : /\ C[i] \in Int /\ XX[i] \in Int /\ XY[i] \in Int
                   /\ C[i] = 0 + sw * WT[i] + (-swt) * W[i]
                   /\ XZ[i] = XY[i] + b * C[i] + q * XX[i]
  <2> TAKE i \in I
  <2> DEFINE w == rows[i].w
             t == rows[i].t
             d == sw * rows[i].t - swt
  <2>1. w \in Int /\ t \in Int /\ d \in Int /\ d = sw * t - swt
    BY <1>1, <1>6
  <2>2. /\ W[i] = w /\ WT[i] = w * t /\ C[i] = w * d /\ XX[i] = WT[i] * d /\ XY[i] = WY[i] * d
        /\ XZ[i] = WZ[i] * d
    OBVIOUS
  <2>3. WY[i] \in Int /\ WZ[i] = WY[i] + b * w + q * (w * t)
    BY <1>5, <2>2
  <2> DEFINE wy == WY[i]
  <2>4. wy \in Int
    BY <2>3
  <2> HIDE DEF w, t, d, W, WT, WY, WZ, C, XX, XY, XZ, wy
  <2>5. (wy + b * w + q * (w * t)) * d = wy * d + b * (w * d) + q * ((w * t) * d)
    BY <2>1, <2>4
  <2>6. w * (sw * t - swt) = 0 + sw * (w * t) + (-swt) * w
    BY <1>6, <2>1
  <2>7. w * d \in Int /\ (w * t) * d \in Int /\ wy * d \in Int
    BY <2>1, <2>4
  <2> QED BY <2>1, <2>2, <2>3, <2>5, <2>6, <2>7 DEF wy
<1>8. SumFunction(C) = 0
  <2>1. DOMAIN Zero = I /\ \A i \in I : Zero[i] \in Int /\ Zero[i] = 0
    OBVIOUS
  <2>2. SumFunction(Zero) = 0
    <3>1. \A i \in I : Zero[i] = 0 * Zero[i]
      BY <2>1
    <3> HIDE DEF Zero, I
    <3>2. \A i \in I : Zero[i] \in Int
      BY <2>1
    <3>3. SumFunctionOnSet(Zero, I) \in Int
      BY <1>1, <3>2, SumSteps
    <3>4. 0 \in Int
      OBVIOUS
    <3>5. SumFunctionOnSet(Zero, I) = 0 * SumFunctionOnSet(Zero, I)
      BY <1>1, <3>1, <3>2, <3>4, SumScaled
    <3> QED BY <2>1, <3>3, <3>5 DEF SumFunction
  <2>3. \A i \in I : C[i] = Zero[i] + sw * WT[i] + (-swt) * W[i]
    BY <1>7, <2>1
  <2> HIDE DEF C, W, WT, Zero
  <2>4. SumFunction(C) = SumFunction(Zero) + sw * SumFunction(WT) + (-swt) * SumFunction(W)
    <3>1. -swt \in Int /\ sw \in Int
      BY <1>6
    <3>2. /\ \A i \in I : W[i] \in Int
          /\ \A i \in I : WT[i] \in Int
          /\ \A i \in I : Zero[i] \in Int
      BY <1>5, <2>1
    <3> HIDE DEF I
    <3>3. /\ IntsOn(W, I) /\ IntsOn(WT, I) /\ IntsOn(Zero, I)
          /\ SumOn(C, Zero, WT, W, sw, -swt, I)
      BY <1>4, <2>1, <2>3, <3>2 DEF IntsOn, SumOn
    <3>4. IsFiniteSet(I)
      BY <1>1
    <3> DEFINE neg == -swt
    <3> HIDE DEF neg
    <3>5. neg \in Int /\ SumOn(C, Zero, WT, W, sw, neg, I)
      BY <3>1, <3>3 DEF neg
    <3>6. SumFunction(C) = SumFunction(Zero) + sw * SumFunction(WT) + neg * SumFunction(W)
      BY <3>1, <3>3, <3>4, <3>5, SumMoved
    <3> QED BY <3>6 DEF neg
  <2>5. SumFunction(WT) = swt /\ SumFunction(W) = sw
    BY DEF sw, swt
  <2>6. 0 + sw * swt + (-swt) * sw = 0
    BY <1>6
  <2> QED BY <2>2, <2>4, <2>5, <2>6
<1>9. /\ SumFunction(XX) \in Int /\ SumFunction(XY) \in Int
      /\ SumFunction(XZ) = SumFunction(XY) + b * SumFunction(C) + q * SumFunction(XX)
  <2>1. /\ \A i \in I : C[i] \in Int
        /\ \A i \in I : XX[i] \in Int
        /\ \A i \in I : XY[i] \in Int
        /\ \A i \in I : XZ[i] = XY[i] + b * C[i] + q * XX[i]
    BY <1>7
  <2> HIDE DEF XX, XY, XZ, C, I
  <2>2. /\ IntsOn(C, I) /\ IntsOn(XX, I) /\ IntsOn(XY, I)
        /\ SumOn(XZ, XY, C, XX, b, q, I)
    BY <1>4, <2>1 DEF IntsOn, SumOn
  <2> QED BY <1>1, <2>2, SumMoved
<1> HIDE DEF XX, XY, XZ, C, WY, WZ
<1>10. SumFunction(XZ) = SumFunction(XY) + q * SumFunction(XX)
  BY <1>8, <1>9
<1> QED BY <1>2, <1>3, <1>6, <1>9, <1>10 DEF M

\* The residuals do not see the line, nor anything that is decided by them.
LEMMA ResidualsStay ==
    ASSUME NEW rows \in Seq(Rows), NEW b \in Int, NEW q \in Int
    PROVE  Residuals(Moved(rows, b, q)) = Residuals(rows)
<1> DEFINE M == Moved(rows, b, q)
           f == Fit(rows)
           g == Fit(M)
<1>1. /\ f.sw \in Int /\ f.swt \in Int /\ f.sy \in Int /\ f.sxx \in Int /\ f.sxy \in Int
      /\ g.sw = f.sw /\ g.swt = f.swt /\ g.sxx = f.sxx
      /\ g.sy = f.sy + b * f.sw + q * f.swt
      /\ g.sxy = f.sxy + q * f.sxx
  BY FitMoves
<1>2. /\ DOMAIN M = DOMAIN rows
      /\ \A i \in DOMAIN rows : /\ rows[i].t \in Int /\ rows[i].y \in Int /\ M[i].t = rows[i].t
                                /\ M[i].y = rows[i].y + b + q * rows[i].t
  BY MovedFacts
<1> DEFINE old(i) == f.sw * f.sxx * rows[i].y - f.sxx * f.sy - f.sxy * (f.sw * rows[i].t - f.swt)
           new(i) == g.sw * g.sxx * M[i].y - g.sxx * g.sy - g.sxy * (g.sw * M[i].t - g.swt)
<1>3. /\ Residuals(rows) = [i \in DOMAIN rows |-> old(i)]
      /\ Residuals(M) = [i \in DOMAIN M |-> new(i)]
  BY DEF Residuals
<1>4. ASSUME NEW i \in DOMAIN rows PROVE new(i) = old(i)
  <2> DEFINE sw == f.sw
             swt == f.swt
             sy == f.sy
             sxx == f.sxx
             sxy == f.sxy
             y == rows[i].y
             t == rows[i].t
  <2>1. /\ sw \in Int /\ swt \in Int /\ sy \in Int /\ sxx \in Int /\ sxy \in Int
        /\ y \in Int /\ t \in Int
    BY <1>1, <1>2
  <2>2. new(i) = sw * sxx * (y + b + q * t) - sxx * (sy + b * sw + q * swt)
                     - (sxy + q * sxx) * (sw * t - swt)
    <3> HIDE DEF f, g, M
    <3> QED BY <1>1, <1>2
  <2>3. old(i) = sw * sxx * y - sxx * sy - sxy * (sw * t - swt)
    OBVIOUS
  <2> HIDE DEF sw, swt, sy, sxx, sxy, y, t, old, new
  <2>4. sw * sxx * (y + b + q * t) - sxx * (sy + b * sw + q * swt)
            - (sxy + q * sxx) * (sw * t - swt)
        = sw * sxx * y - sxx * sy - sxy * (sw * t - swt)
    BY <2>1
  <2> QED BY <2>2, <2>3, <2>4
<1> HIDE DEF old, new, M
<1> QED BY <1>2, <1>3, <1>4 DEF M

\* An offset that is another one and d.
MovedBy(old, new, d) ==
    /\ old.num \in Int /\ old.den \in Int
    /\ new.den = old.den /\ new.num = old.num + d * old.den

\* The offset at any time is moved by the line at that time.
LEMMA OffsetMoves ==
    ASSUME NEW rows \in Seq(Rows), NEW b \in Int, NEW q \in Int, NEW now \in Int
    PROVE  MovedBy(OffsetAt(rows, now), OffsetAt(Moved(rows, b, q), now), b + q * now)
<1> DEFINE I == DOMAIN rows
           M == Moved(rows, b, q)
           V  == [i \in I |-> IF \E j \in I : rows[j].v > 0 THEN rows[i].v ELSE 1]
           VT == [i \in I |-> V[i] * rows[i].t]
           VY == [i \in I |-> V[i] * rows[i].y]
           VZ == [i \in I |-> V[i] * M[i].y]
           sv == SumFunction(V)
           f == Fit(rows)
           g == Fit(M)
<1>1. /\ IsFiniteSet(I) /\ DOMAIN M = I
      /\ \A i \in I : /\ rows[i].t \in Int /\ rows[i].y \in Int /\ rows[i].v \in Int
                      /\ M[i].t = rows[i].t /\ M[i].v = rows[i].v
                      /\ M[i].y = rows[i].y + b + q * rows[i].t
  BY MovedFacts
<1>2. /\ f.sxx \in Int /\ f.sxy \in Int /\ g.sxx = f.sxx /\ g.sxy = f.sxy + q * f.sxx
  BY FitMoves
<1> HIDE DEF M, f, g
<1>3. OffsetAt(rows, now) =
          [num |-> f.sxx * SumFunction(VY) + f.sxy * (now * sv - SumFunction(VT)),
           den |-> sv * f.sxx]
  BY DEF OffsetAt, f
<1>4. OffsetAt(M, now) =
          [num |-> g.sxx * SumFunction(VZ) + g.sxy * (now * sv - SumFunction(VT)),
           den |-> sv * g.sxx]
  <2>1. [i \in DOMAIN M |-> IF \E j \in DOMAIN M : M[j].v > 0 THEN M[i].v ELSE 1] = V
    BY <1>1
  <2>2. [i \in DOMAIN M |-> V[i] * M[i].t] = VT
    BY <1>1
  <2>3. [i \in DOMAIN M |-> V[i] * M[i].y] = VZ
    BY <1>1
  <2> HIDE DEF V, I
  <2> QED BY <2>1, <2>2, <2>3 DEF OffsetAt, g
<1>5. \A i \in I : /\ V[i] \in Int /\ VT[i] \in Int /\ VY[i] \in Int
                   /\ VZ[i] = VY[i] + b * V[i] + q * VT[i]
  <2> TAKE i \in I
  <2> DEFINE u == V[i]
             t == rows[i].t
             y == rows[i].y
  <2>1. u \in Int /\ t \in Int /\ y \in Int
    BY <1>1
  <2>2. VT[i] = u * t /\ VY[i] = u * y /\ VZ[i] = u * (y + b + q * t)
    BY <1>1
  <2> HIDE DEF u, t, y, VT, VY, VZ, V
  <2>3. u * (y + b + q * t) = u * y + b * u + q * (u * t) /\ u * t \in Int /\ u * y \in Int
    BY <2>1
  <2> QED BY <2>1, <2>2, <2>3 DEF u
<1>6. /\ sv \in Int /\ SumFunction(VT) \in Int /\ SumFunction(VY) \in Int
      /\ SumFunction(VZ) = SumFunction(VY) + b * sv + q * SumFunction(VT)
  <2>1. DOMAIN V = I /\ DOMAIN VT = I /\ DOMAIN VY = I /\ DOMAIN VZ = I
    OBVIOUS
  <2> HIDE DEF V, VT, VY, VZ, I
  <2>2. /\ IntsOn(V, I) /\ IntsOn(VT, I) /\ IntsOn(VY, I)
        /\ SumOn(VZ, VY, V, VT, b, q, I)
    BY <1>5, <2>1 DEF IntsOn, SumOn
  <2> QED BY <1>1, <2>2, SumMoved
<1> HIDE DEF VT, VY, VZ, V, sv
<1> DEFINE xx == f.sxx
           xy == f.sxy
           vt == SumFunction(VT)
           vy == SumFunction(VY)
<1>7. xx \in Int /\ xy \in Int /\ sv \in Int /\ vt \in Int /\ vy \in Int
  BY <1>2, <1>6
<1>8. /\ OffsetAt(M, now).num = xx * (vy + b * sv + q * vt) + (xy + q * xx) * (now * sv - vt)
      /\ OffsetAt(M, now).den = sv * xx
  BY <1>2, <1>4, <1>6
<1>9. /\ OffsetAt(rows, now).num = xx * vy + xy * (now * sv - vt)
      /\ OffsetAt(rows, now).den = sv * xx
  BY <1>3
<1> HIDE DEF xx, xy, vt, vy
<1>10. xx * (vy + b * sv + q * vt) + (xy + q * xx) * (now * sv - vt)
       = (xx * vy + xy * (now * sv - vt)) + (b + q * now) * (sv * xx)
  BY <1>7
<1>11. xx * vy + xy * (now * sv - vt) \in Int /\ sv * xx \in Int
  BY <1>7
<1> QED BY <1>8, <1>9, <1>10, <1>11 DEF M, MovedBy

-----------------------------------------------------------------------------
(* The choice of the rows does not see the line.                           *)

LEMMA SuffixMoves ==
    ASSUME NEW rows \in Seq(Rows), NEW b \in Int, NEW q \in Int,
           NEW n \in Nat, n <= Len(rows)
    PROVE  /\ SubSeq(rows, n + 1, Len(rows)) \in Seq(Rows)
           /\ SubSeq(Moved(rows, b, q), n + 1, Len(rows))
                  = Moved(SubSeq(rows, n + 1, Len(rows)), b, q)
<1> DEFINE s == SubSeq(rows, n + 1, Len(rows))
           M == Moved(rows, b, q)
           m == SubSeq(M, n + 1, Len(rows))
           l == Len(rows) - n
<1>1. M \in Seq(Rows) /\ Len(M) = Len(rows) /\ Len(rows) \in Nat /\ l \in Nat
  BY MovedFacts
<1>2. s \in Seq(Rows) /\ Len(s) = l /\ \A i \in 1..l : s[i] = rows[i + n]
  BY <1>1
<1> HIDE DEF M
<1>3. m \in Seq(Rows) /\ Len(m) = l /\ \A i \in 1..l : m[i] = M[i + n]
  BY <1>1
<1> HIDE DEF s, m
<1>4. Moved(s, b, q) = [i \in 1..l |-> [s[i] EXCEPT !.y = s[i].y + b + q * s[i].t]]
  <2>1. DOMAIN s = 1..l
    BY <1>1, <1>2
  <2> QED BY <2>1 DEF Moved
<1>5. \A i \in 1..l : m[i] = [s[i] EXCEPT !.y = s[i].y + b + q * s[i].t]
  <2> TAKE i \in 1..l
  <2>1. i + n \in DOMAIN rows
    BY <1>1
  <2>2. M[i + n] = [rows[i + n] EXCEPT !.y = rows[i + n].y + b + q * rows[i + n].t]
    BY <2>1 DEF M, Moved
  <2> QED BY <1>2, <1>3, <2>2
<1>6. m = [i \in 1..l |-> m[i]]
  BY <1>1, <1>3
<1>7. m = Moved(s, b, q)
  <2> HIDE DEF l
  <2> QED BY <1>4, <1>5, <1>6
<1> QED BY <1>2, <1>7 DEF s, m, M

LEMMA DropQuarterMoves ==
    ASSUME NEW rows \in Seq(Rows), NEW b \in Int, NEW q \in Int
    PROVE  /\ DropQuarter(rows) \in Seq(Rows)
           /\ DropQuarter(Moved(rows, b, q)) = Moved(DropQuarter(rows), b, q)
<1> DEFINE M == Moved(rows, b, q)
           n == Most(Len(rows) \div 4, 2)
           stale == /\ Len(rows) >= 8 /\ ~ WellMixed(Residuals(rows))
                    /\ HalvesDisagree(Residuals(rows))
<1>1. Len(M) = Len(rows) /\ Residuals(M) = Residuals(rows) /\ Len(rows) \in Nat
  BY MovedFacts, ResidualsStay
<1> HIDE DEF M
<1>2. /\ DropQuarter(rows) = IF stale THEN SubSeq(rows, n + 1, Len(rows)) ELSE rows
      /\ DropQuarter(M) = IF stale THEN SubSeq(M, n + 1, Len(rows)) ELSE M
  BY <1>1 DEF DropQuarter
<1>3. stale => n \in Nat /\ n <= Len(rows)
  BY <1>1 DEF Most
<1> HIDE DEF n
<1>4. stale => /\ SubSeq(rows, n + 1, Len(rows)) \in Seq(Rows)
               /\ SubSeq(M, n + 1, Len(rows)) = Moved(SubSeq(rows, n + 1, Len(rows)), b, q)
  BY <1>3, SuffixMoves DEF M
<1> HIDE DEF stale
<1> QED BY <1>2, <1>4 DEF M

LEMMA DropStaleMoves ==
    ASSUME NEW rows \in Seq(Rows), NEW b \in Int, NEW q \in Int
    PROVE  /\ DropStale(rows) \in Seq(Rows)
           /\ DropStale(Moved(rows, b, q)) = Moved(DropStale(rows), b, q)
<1> DEFINE one   == DropQuarter(rows)
           two   == DropQuarter(one)
           three == DropQuarter(two)
<1>1. one \in Seq(Rows) /\ DropQuarter(Moved(rows, b, q)) = Moved(one, b, q)
  BY DropQuarterMoves
<1> HIDE DEF one
<1>2. two \in Seq(Rows) /\ DropQuarter(Moved(one, b, q)) = Moved(two, b, q)
  BY <1>1, DropQuarterMoves
<1> HIDE DEF two
<1>3. three \in Seq(Rows) /\ DropQuarter(Moved(two, b, q)) = Moved(three, b, q)
  BY <1>2, DropQuarterMoves
<1> HIDE DEF three
<1>4. /\ DropQuarter(three) \in Seq(Rows)
      /\ DropQuarter(Moved(three, b, q)) = Moved(DropQuarter(three), b, q)
  BY <1>3, DropQuarterMoves
<1> QED BY <1>1, <1>2, <1>3, <1>4 DEF DropStale, one, two, three

LEMMA TrimSpikesMoves ==
    ASSUME NEW rows \in Seq(Rows), NEW b \in Int, NEW q \in Int
    PROVE  /\ TrimSpikes(rows) \in Seq(Rows)
           /\ TrimSpikes(Moved(rows, b, q)) = Moved(TrimSpikes(rows), b, q)
<1> DEFINE M == Moved(rows, b, q)
           r == Residuals(rows)
           kept == Kept(r)
           c == Cardinality(kept)
           trimmed(a) == [k \in 1..c |-> a[Ranked(kept, k)]]
           spiky == Len(rows) > 4 /\ HasSpike(r) /\ c >= 3
<1>1. /\ Len(M) = Len(rows) /\ Residuals(M) = r /\ DOMAIN rows = 1..Len(rows)
      /\ Len(rows) \in Nat
  BY MovedFacts, ResidualsStay
<1>2. kept \subseteq 1..Len(rows)
  <2>1. DOMAIN r = 1..Len(rows)
    BY <1>1 DEF Residuals
  <2> HIDE DEF r
  <2> QED BY <2>1 DEF Kept
<1> HIDE DEF M
<1>3. /\ TrimSpikes(rows) = IF spiky THEN trimmed(rows) ELSE rows
      /\ TrimSpikes(M) = IF spiky THEN trimmed(M) ELSE M
  BY <1>1 DEF TrimSpikes, Ranked, LowerThan
<1> HIDE DEF kept, r, spiky
<1>4. c \in Nat /\ \A k \in 1..c : Ranked(kept, k) \in 1..Len(rows)
  BY <1>1, <1>2, RankFacts
<1> HIDE DEF c
<1>5. trimmed(rows) \in Seq(Rows) /\ DOMAIN trimmed(rows) = 1..c
  <2>1. \A k \in 1..c : rows[Ranked(kept, k)] \in Rows
    BY <1>1, <1>4
  <2>2. trimmed(rows) \in [1..c -> Rows]
    BY <2>1
  <2> QED BY <1>4, <2>2, ListIsSeq
<1>6. trimmed(M) = Moved(trimmed(rows), b, q)
  <2>1. \A k \in 1..c :
           M[Ranked(kept, k)] = [rows[Ranked(kept, k)] EXCEPT
                !.y = rows[Ranked(kept, k)].y + b + q * rows[Ranked(kept, k)].t]
    BY <1>1, <1>4 DEF M, Moved
  <2>2. Moved(trimmed(rows), b, q) =
            [k \in 1..c |-> [rows[Ranked(kept, k)] EXCEPT
                !.y = rows[Ranked(kept, k)].y + b + q * rows[Ranked(kept, k)].t]]
    BY DEF Moved
  <2> QED BY <2>1, <2>2
<1> HIDE DEF trimmed
<1> QED BY <1>3, <1>5, <1>6 DEF M

LEMMA UsedMoves ==
    ASSUME NEW rows \in Seq(Rows), NEW b \in Int, NEW q \in Int, NEW len \in Lengths(Len(rows))
    PROVE  /\ Used(rows, len) \in Seq(Rows)
           /\ Used(Moved(rows, b, q), len) = Moved(Used(rows, len), b, q)
<1> DEFINE cut == Newest(rows, len)
           fresh == DropStale(cut)
<1>1. len \in Nat /\ len <= Len(rows) /\ Len(rows) \in Nat
  BY RegressionAssumption DEF Lengths
<1>2. cut \in Seq(Rows) /\ Newest(Moved(rows, b, q), len) = Moved(cut, b, q)
  <2>1. Len(rows) - len \in Nat /\ Len(rows) - len <= Len(rows)
    BY <1>1
  <2>2. Len(Moved(rows, b, q)) = Len(rows)
    BY MovedFacts
  <2> QED BY <2>1, <2>2, SuffixMoves DEF Newest
<1> HIDE DEF cut
<1>3. fresh \in Seq(Rows) /\ DropStale(Moved(cut, b, q)) = Moved(fresh, b, q)
  BY <1>2, DropStaleMoves
<1> HIDE DEF fresh
<1>4. TrimSpikes(fresh) \in Seq(Rows) /\ TrimSpikes(Moved(fresh, b, q)) = Moved(TrimSpikes(fresh), b, q)
  BY <1>3, TrimSpikesMoves
<1> QED BY <1>2, <1>3, <1>4 DEF Used, fresh, cut

\* A correction of the clock, slew_samples(p, dfreq, doffset), changes the estimate by
\* exactly the correction: regress chooses the same samples, the frequency falls by dfreq
\* and the offset at any time by what the clock was moved at that time.
THEOREM CorrectionMovesTheLine ==
    ASSUME NEW rows \in Seq(Rows), NEW len \in Lengths(Len(rows)), NEW dfreq \in Int,
           NEW doffset \in Int, NEW p \in Int, NEW now \in Int
    PROVE  LET Corrected(a) == [i \in DOMAIN a |-> Restated(a[i], dfreq, doffset, p)]
               used  == Used(rows, len)
               after == Used(Corrected(rows), len)
           IN  /\ after = Corrected(used)
               /\ Fit(after).sxx = Fit(used).sxx
               /\ Fit(after).sxy = Fit(used).sxy - dfreq * Fit(used).sxx
               /\ OffsetAt(after, now).den = OffsetAt(used, now).den
               /\ OffsetAt(after, now).num =
                      OffsetAt(used, now).num
                      - (doffset + dfreq * (now - p)) * OffsetAt(used, now).den
<1> DEFINE b == dfreq * p - doffset
           q == -dfreq
           Corrected(a) == [i \in DOMAIN a |-> Restated(a[i], dfreq, doffset, p)]
           used  == Used(rows, len)
           after == Used(Corrected(rows), len)
<1>1. b \in Int /\ q \in Int
  OBVIOUS
<1>2. ASSUME NEW row \in Rows
      PROVE  Restated(row, dfreq, doffset, p) = [row EXCEPT !.y = row.y + b + q * row.t]
  <2>1. row.y \in Int /\ row.t \in Int
    BY DEF Rows
  <2>2. \A y, t \in Int : /\ y - (doffset + dfreq * (t - p)) = y + b + q * t
                          /\ dfreq = 0 => y - doffset = y + b + q * t
                          /\ doffset = 0 => y - dfreq * (t - p) = y + b + q * t
    OBVIOUS
  <2> HIDE DEF b, q
  <2> QED BY <2>1, <2>2 DEF Restated
<1>3. ASSUME NEW a \in Seq(Rows) PROVE Corrected(a) = Moved(a, b, q)
  <2>1. \A i \in DOMAIN a : a[i] \in Rows
    OBVIOUS
  <2> HIDE DEF b, q
  <2> QED BY <1>2, <2>1 DEF Moved
<1>4. used \in Seq(Rows) /\ after = Moved(used, b, q)
  <2> HIDE DEF b, q
  <2>1. Corrected(rows) = Moved(rows, b, q)
    BY <1>3
  <2> QED BY <1>1, <2>1, UsedMoves
<1>5. after = Corrected(used)
  <2> HIDE DEF after, used, Corrected
  <2> QED BY <1>3, <1>4
<1> HIDE DEF used, after
<1>6. /\ Fit(used).sxx \in Int /\ Fit(used).sxy \in Int
      /\ Fit(after).sxx = Fit(used).sxx
      /\ Fit(after).sxy = Fit(used).sxy + q * Fit(used).sxx
  <2> HIDE DEF b, q
  <2> QED BY <1>1, <1>4, FitMoves
<1>7. /\ OffsetAt(used, now).num \in Int /\ OffsetAt(used, now).den \in Int
      /\ OffsetAt(after, now).den = OffsetAt(used, now).den
      /\ OffsetAt(after, now).num =
             OffsetAt(used, now).num + (b + q * now) * OffsetAt(used, now).den
  <2> HIDE DEF b, q
  <2>1. MovedBy(OffsetAt(used, now), OffsetAt(Moved(used, b, q), now), b + q * now)
    BY <1>1, <1>4, OffsetMoves
  <2> QED BY <1>4, <2>1 DEF MovedBy
<1>8. \A x, d \in Int : /\ x + q * d = x - dfreq * d
                        /\ x + (b + q * now) * d = x - (doffset + dfreq * (now - p)) * d
  OBVIOUS
<1> HIDE DEF b, q
<1> QED BY <1>5, <1>6, <1>7, <1>8 DEF used, after

-----------------------------------------------------------------------------
(* The windows that regress() is given.                                    *)

WindowsInv == window \in Seq(YRange) /\ (shape # NoShape => shape.n \in Nat)

LEMMA WindowsAreKept == EstimationSpec => []WindowsInv
<1>1. EstimationInit => WindowsInv
  <2> SUFFICES ASSUME EstimationInit PROVE WindowsInv
    OBVIOUS
  <2>1. window \in Seq(YRange)
    BY DEF EstimationInit
  <2>2. shape = NoShape \/ shape \in Spikes \/ shape \in Pairs
    BY DEF EstimationInit
  <2>3. shape # NoShape => shape.n \in Nat
    BY <2>2 DEF Spikes, Pairs
  <2> QED BY <2>1, <2>3 DEF WindowsInv
<1>2. WindowsInv /\ [EstimationNext]_<<part, reports, window, shape, registerVars>> => WindowsInv'
  <2> SUFFICES ASSUME WindowsInv,
                      [EstimationNext]_<<part, reports, window, shape, registerVars>>
               PROVE  WindowsInv'
    OBVIOUS
  <2>1. shape' = shape /\ (window' = window \/ \E y \in YRange : window' = Append(window, y))
    BY DEF EstimationNext, Report, Lengthen, UseRegister
  <2> QED BY <2>1 DEF WindowsInv, NoShape
<1> QED BY <1>1, <1>2, PTL DEF EstimationSpec

\* Counting decides what comparing with a threshold made of the median would, for windows
\* of any length and of any integers (filter.rs, spike_threshold_from).
THEOREM SpikeTestNeedsNoMedian == EstimationSpec => []SpikeTestIsTheMedianTest
<1>1. WindowsInv => SpikeTestIsTheMedianTest
  <2> SUFFICES ASSUME WindowsInv, Len(window) > 4
               PROVE  HasSpike(window) <=> Worst(window) > 0 /\ 9 * Worst(window) > 40 * Mad(window)
    BY DEF SpikeTestIsTheMedianTest
  <2>1. window \in Seq(Int)
    <3>1. YRange \subseteq Int
      BY EstimationAssumption
    <3>2. window \in Seq(YRange)
      BY DEF WindowsInv
    <3>3. Len(window) \in Nat /\ \A i \in 1..Len(window) : window[i] \in Int
      <4>1. Len(window) \in Nat /\ \A i \in 1..Len(window) : window[i] \in YRange
        BY <3>2
      <4> QED BY <3>1, <4>1
    <3>4. window = [i \in 1..Len(window) |-> window[i]]
      BY <3>2
    <3> QED BY <3>3, <3>4
  <2> QED BY <2>1, CountingIsTheMedianTest
<1> QED BY WindowsAreKept, <1>1, PTL

\* The newest three samples are in the estimate, whatever the window holds, whatever is
\* dropped from it and whichever length is chosen (filter.rs, regress).
THEOREM PresentIsNeverVotedAway == EstimationSpec => []NewestAreUsed
<1>1. WindowsInv => NewestAreUsed
  <2> SUFFICES ASSUME WindowsInv, NEW rows \in {WindowRows, ShapeRows}, Len(rows) > 4,
                      NEW len \in Lengths(Len(rows))
               PROVE  Newest(Used(rows, len), 3) = Newest(rows, 3)
    BY DEF NewestAreUsed
  <2>1. PICK n \in Nat : rows = [i \in 1..n |-> rows[i]]
    <3>1. CASE rows = WindowRows
      <4>1. DOMAIN window = 1..Len(window) /\ Len(window) \in Nat
        BY DEF WindowsInv
      <4> QED BY <3>1, <4>1 DEF WindowRows
    <3>2. CASE rows = ShapeRows /\ shape # NoShape
      <4>1. shape.n \in Nat
        BY <3>2 DEF WindowsInv
      <4> QED BY <3>2, <4>1 DEF ShapeRows
    <3>3. CASE rows = ShapeRows /\ shape = NoShape
      <4>1. rows = <<>>
        BY <3>3 DEF ShapeRows
      <4> QED BY <4>1
    <3> QED BY <3>1, <3>2, <3>3
  <2>2. rows \in Seq({rows[i] : i \in 1..n})
    BY <2>1
  <2> QED BY <2>2, UsedKeepsEnd
<1> QED BY WindowsAreKept, <1>1, PTL

\* The windows of the given shape are spikes of a line.
ShapeInv == shape.kind = "spike" => shape \in Spikes /\ shape.k <= shape.n - 3

LEMMA ShapesAreKept == EstimationSpec => []ShapeInv
<1>1. EstimationInit => ShapeInv
  <2> SUFFICES ASSUME EstimationInit, shape.kind = "spike"
               PROVE  shape \in Spikes /\ shape.k <= shape.n - 3
    BY DEF ShapeInv
  <2>1. shape # NoShape /\ shape \notin Pairs
    BY DEF NoShape, Pairs
  <2> QED BY <2>1 DEF EstimationInit
<1>2. ShapeInv /\ [EstimationNext]_<<part, reports, window, shape, registerVars>> => ShapeInv'
  <2> SUFFICES ASSUME ShapeInv,
                      [EstimationNext]_<<part, reports, window, shape, registerVars>>
               PROVE  ShapeInv'
    OBVIOUS
  <2>1. shape' = shape
    BY DEF EstimationNext, Report, Lengthen, UseRegister
  <2> QED BY <2>1 DEF ShapeInv, Spikes
<1> QED BY <1>1, <1>2, PTL DEF EstimationSpec

\* A lone spike behind the oldest two and before the newest three samples of a window
\* leaves no trace in the estimate, whatever its size, the slope of the line and the
\* sample that has lost its sharp weight are, and whichever length is chosen
\* (filter.rs, regress).  The windows are at least MIN_ADAPTIVE = 8 samples long: in
\* shorter ones it need not stand out.
THEOREM LoneSpikesAreIgnored ==
    ASSUME MinAdaptive >= 8
    PROVE  EstimationSpec => []LoneSpikeIsIgnored
<1>1. ShapeInv => LoneSpikeIsIgnored
  <2> SUFFICES ASSUME ShapeInv, shape.kind = "spike",
                      NEW len \in Lengths(shape.n), Behind(len)
               PROVE  LET used == Used(ShapeRows, len)
                          off == OffsetAt(used, shape.n + 1)
                      IN  /\ Fit(used).sxy = shape.q * Fit(used).sxx
                          /\ off.num = shape.q * (shape.n + 1) * off.den
    BY DEF LoneSpikeIsIgnored
  <2> DEFINE n == shape.n
             q == shape.q
             s == shape.size
             k == shape.k - (n - len)
             cut == Newest(ShapeRows, len)
             e == Lone(len, k, s)
  <2>1. /\ shape.n \in 8..9 /\ shape.k \in 3..6 /\ shape.k <= shape.n - 3
        /\ shape.size \in Int /\ shape.q \in Int
    BY EstimationAssumption DEF ShapeInv, Spikes
  <2>2. len \in {8, 9} /\ len <= n /\ n - len \in Nat
    BY <2>1, RegressionAssumption DEF Lengths
  <2>3. k \in 3..(len - 3) /\ shape.k = k + (n - len)
    BY <2>1, <2>2 DEF Behind
  <2>4. ShapeRows = [i \in 1..n |-> Row(i, q * i + (IF i = shape.k THEN s ELSE 0),
                                         IF i = shape.j THEN 0 ELSE 1)]
    <3>1. shape # NoShape /\ Late = {shape.k}
      BY DEF NoShape, Late
    <3> QED BY <3>1 DEF ShapeRows
  <2>5. \A i \in 1..n : ShapeRows[i] = Row(i, q * i + (IF i = shape.k THEN s ELSE 0),
                                            IF i = shape.j THEN 0 ELSE 1)
    BY <2>4
  <2> DEFINE Any == {ShapeRows[i] : i \in 1..n}
  <2>6. ShapeRows \in Seq(Any) /\ Len(ShapeRows) = n
    <3>1. ShapeRows \in [1..n -> Any] /\ n \in Nat
      BY <2>1, <2>4
    <3> HIDE DEF n, Any
    <3> QED BY <3>1, ListIsSeq
  <2>7. \A i \in 1..n : i # shape.k \/ s = 0 => ShapeRows[i] \in Straight(q)
    <3> TAKE i \in 1..n
    <3> SUFFICES ASSUME i # shape.k \/ s = 0 PROVE ShapeRows[i] \in Straight(q)
      OBVIOUS
    <3>1. ShapeRows[i] = Row(i, q * i, IF i = shape.j THEN 0 ELSE 1)
      <4>1. q * i + 0 = q * i
        BY <2>1
      <4> QED BY <2>5, <4>1
    <3>2. i \in Int /\ q * i \in Int
      BY <2>1
    <3> HIDE DEF q
    <3> QED BY <3>1, <3>2 DEF Row, Straight
  <2>8. Used(ShapeRows, len) \in Seq(Straight(q))
    <3>1. CASE s = 0
      <4>1. Any \subseteq Straight(q)
        BY <2>7, <3>1
      <4> HIDE DEF Any
      <4>2. Len(ShapeRows) > 4 /\ len \in Lengths(Len(ShapeRows))
        BY <2>1, <2>6
      <4>3. Used(ShapeRows, len) \in Seq(Any)
        BY <2>6, <4>2, UsedKeepsEnd
      <4> QED BY <4>1, <4>3, SeqOfLarger
    <3>2. CASE s # 0
      <4>1. /\ cut \in Seq(Any) /\ Len(cut) = len
            /\ \A i \in 1..len : cut[i] = ShapeRows[i + (n - len)]
        <5>1. cut = SubSeq(ShapeRows, (n - len) + 1, n)
          BY <2>6 DEF Newest
        <5>2. n \in Nat /\ len \in Nat
          BY <2>1, <2>2
        <5> HIDE DEF n, cut, Any
        <5> QED BY <2>2, <2>6, <5>1, <5>2
      <4> HIDE DEF cut, Any
      <4>2. \A i \in 1..len : cut[i].w = 1 /\ cut[i].t = (n - len) + i
                              /\ cut[i].y = q * (n - len) + q * i + e[i]
        <5> TAKE i \in 1..len
        <5>1. i + (n - len) \in 1..n /\ i \in Int
          BY <2>1, <2>2
        <5>2. cut[i] = Row(i + (n - len),
                           q * (i + (n - len)) + (IF i + (n - len) = shape.k THEN s ELSE 0),
                           IF i + (n - len) = shape.j THEN 0 ELSE 1)
          BY <2>5, <4>1, <5>1
        <5>3. q * (i + (n - len)) = q * (n - len) + q * i
          BY <2>1, <2>2, <5>1
        <5>4. (IF i + (n - len) = shape.k THEN s ELSE 0) = e[i]
          BY <2>1, <2>2, <2>3, <5>1 DEF Lone
        <5>5. (n - len) + i = i + (n - len)
          BY <2>1, <2>2, <5>1
        <5> HIDE DEF n, q, e, s
        <5> QED BY <5>2, <5>3, <5>4, <5>5 DEF Row
      <4>3. OnLine(cut, len, e)
        <5>1. DOMAIN cut = 1..len
          BY <4>1
        <5>2. n - len \in Int /\ q * (n - len) \in Int /\ q \in Int
          BY <2>1, <2>2
        <5> HIDE DEF n, q, e
        <5> QED BY <4>2, <5>1, <5>2 DEF OnLine
      <4>4. TrimSpikes(DropStale(cut)) \in Seq({cut[i] : i \in (1..len) \ {k}})
        <5>1. s \in Int
          BY <2>1
        <5>2. k \in 3..(len - 3) /\ cut \in Seq(Any) /\ Len(cut) = len
          BY <2>3, <4>1
        <5> HIDE DEF n, k, s
        <5> QED BY <2>2, <3>2, <4>3, <5>1, <5>2, SpikeIsDropped
      <4>5. {cut[i] : i \in (1..len) \ {k}} \subseteq Straight(q)
        <5>1. ASSUME NEW i \in (1..len) \ {k} PROVE cut[i] \in Straight(q)
          <6>1. i + (n - len) \in 1..n /\ i + (n - len) # shape.k
            BY <2>1, <2>2, <2>3
          <6> QED BY <2>7, <4>1, <6>1
        <5> QED BY <5>1
      <4>6. TrimSpikes(DropStale(cut)) \in Seq(Straight(q))
        BY <4>4, <4>5, SeqOfLarger
      <4> QED BY <4>6 DEF Used, cut
    <3> QED BY <3>1, <3>2
  <2>9. q \in Int /\ shape.n + 1 \in Int
    BY <2>1
  <2> HIDE DEF q
  <2>10. /\ Fit(Used(ShapeRows, len)).sxy = q * Fit(Used(ShapeRows, len)).sxx
         /\ OffsetAt(Used(ShapeRows, len), shape.n + 1).num =
               q * (shape.n + 1) * OffsetAt(Used(ShapeRows, len), shape.n + 1).den
    BY <2>8, <2>9, FitOfStraight
  <2> QED BY <2>10 DEF q
<1> QED BY ShapesAreKept, <1>1, PTL
=============================================================================
