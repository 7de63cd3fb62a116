--------------------------- MODULE TokenSumProofs ---------------------------
(***************************************************************************)
(* Facts about sums of token counts: what a change of one entry, or a      *)
(* lowering of any of them, does to the total.                             *)
(***************************************************************************)
EXTENDS TokenSum, FiniteSetTheorems, TLAPS

(* The tokens of finitely many bounded entries are finitely many.          *)
LEMMA TokensFinite ==
    ASSUME NEW S, IsFiniteSet(S), NEW max \in Nat, NEW f \in [S -> 0 .. max]
    PROVE  IsFiniteSet(Tokens(f, max)) /\ Total(f, max) \in Nat
<1>1. IsFiniteSet(1 .. max)
  BY FS_Interval
<1>2. IsFiniteSet(S \X (1 .. max))
  BY <1>1, FS_Product
<1>3. DOMAIN f = S
  OBVIOUS
<1>4. Tokens(f, max) \in SUBSET (S \X (1 .. max))
  BY <1>3 DEF Tokens
<1>5. IsFiniteSet(Tokens(f, max))
  BY <1>2, <1>4, FS_Subset
<1> QED BY <1>5, FS_CardinalityType DEF Total

(* A total of zeros is zero.                                               *)
LEMMA TotalZero ==
    ASSUME NEW S, NEW max \in Nat, NEW f \in [S -> 0 .. max],
           \A x \in S : f[x] = 0
    PROVE  Total(f, max) = 0
<1>1. Tokens(f, max) = {}
  BY DEF Tokens
<1> QED BY <1>1, FS_EmptySet DEF Total

(* Lowering entries does not raise the total.                              *)
LEMMA TotalMonotone ==
    ASSUME NEW S, IsFiniteSet(S), NEW max \in Nat,
           NEW f \in [S -> 0 .. max], NEW g \in [S -> 0 .. max],
           \A x \in S : f[x] <= g[x]
    PROVE  Total(f, max) <= Total(g, max)
<1>1. DOMAIN f = S /\ DOMAIN g = S
  OBVIOUS
<1>2. Tokens(f, max) \in SUBSET Tokens(g, max)
  BY <1>1 DEF Tokens
<1>3. IsFiniteSet(Tokens(g, max))
  BY TokensFinite
<1> QED BY <1>2, <1>3, FS_Subset DEF Total

(* Changing one entry changes the total by the difference.                 *)
LEMMA TotalChange ==
    ASSUME NEW S, IsFiniteSet(S), NEW max \in Nat, NEW k \in S,
           NEW f \in [S -> 0 .. max], NEW g \in [S -> 0 .. max],
           \A x \in S \ {k} : f[x] = g[x]
    PROVE  Total(g, max) + f[k] = Total(f, max) + g[k]
<1> DEFINE Rest == {token \in (S \ {k}) \X (1 .. max) : token[2] <= f[token[1]]}
           Column(n) == {k} \X (1 .. n)
<1>1. DOMAIN f = S /\ DOMAIN g = S
  OBVIOUS
<1>2. ASSUME NEW h \in [S -> 0 .. max], \A x \in S \ {k} : f[x] = h[x]
      PROVE  Tokens(h, max) = Rest \cup Column(h[k])
  BY <1>2 DEF Tokens
<1>3. ASSUME NEW n \in Nat
      PROVE  IsFiniteSet(Column(n)) /\ Cardinality(Column(n)) = n
  <2>0. n \in Int /\ 1 \in Int
    OBVIOUS
  <2>1. /\ IsFiniteSet(1 .. n)
        /\ Cardinality(1 .. n) = IF 1 > n THEN 0 ELSE n - 1 + 1
    BY <2>0, FS_Interval
  <2>2. IsFiniteSet({k}) /\ Cardinality({k}) = 1
    BY FS_Singleton
  <2>3. /\ IsFiniteSet({k} \X (1 .. n))
        /\ Cardinality({k} \X (1 .. n)) = Cardinality({k}) * Cardinality(1 .. n)
    BY <2>1, <2>2, FS_Product
  <2> QED BY <2>1, <2>2, <2>3
<1>4. IsFiniteSet(Rest)
  <2>1. Rest \in SUBSET Tokens(f, max)
    BY <1>1 DEF Tokens
  <2> QED BY <2>1, TokensFinite, FS_Subset
<1>5. Cardinality(Rest) \in Nat
  BY <1>4, FS_CardinalityType
<1>6. ASSUME NEW h \in [S -> 0 .. max], \A x \in S \ {k} : f[x] = h[x]
      PROVE  Total(h, max) = Cardinality(Rest) + h[k]
  <2>0. Tokens(h, max) = Rest \cup Column(h[k])
    BY <1>2, <1>6
  <2>1. h[k] \in Nat
    OBVIOUS
  <2>2. Rest \cap Column(h[k]) = {}
    OBVIOUS
  <2>3. Cardinality(Rest \cap Column(h[k])) = 0
    BY <2>2, FS_EmptySet
  <2>4. IsFiniteSet(Column(h[k])) /\ Cardinality(Column(h[k])) = h[k]
    BY <1>3, <2>1
  <2>5. Cardinality(Rest \cup Column(h[k])) =
            Cardinality(Rest) + Cardinality(Column(h[k]))
                - Cardinality(Rest \cap Column(h[k]))
    BY <1>4, <2>4, FS_Union
  <2> HIDE DEF Rest, Column
  <2> QED BY <2>0, <1>5, <2>1, <2>3, <2>4, <2>5 DEF Total
<1>7. Total(f, max) = Cardinality(Rest) + f[k]
  BY <1>6
<1>8. Total(g, max) = Cardinality(Rest) + g[k]
  BY <1>6
<1>9. f[k] \in Nat /\ g[k] \in Nat
  OBVIOUS
<1> HIDE DEF Rest, Column
<1> QED BY <1>5, <1>7, <1>8, <1>9

(* An account that admits only into what is left, returns grants whole and *)
(* books a charge against its grant stays within its limit, until a charge *)
(* exceeds the grant.                                                      *)
LEMMA LimitOfAccount ==
    ASSUME NEW S, IsFiniteSet(S), NEW max \in Nat,
           NEW limit \in Nat, NEW spent \in Nat, NEW spent2 \in Nat,
           NEW held \in [S -> 0 .. max],
           NEW held2 \in [S -> 0 .. max],
           NEW over \in BOOLEAN, NEW over2 \in BOOLEAN,
           over \/ spent + Total(held, max) <= limit,
           \/ over2 = over /\ spent2 + Total(held2, max) <= limit
           \/ /\ over2 = over /\ (spent2 = spent \/ spent2 = 0)
              /\ \A x \in S : held2[x] \in {0, held[x]}
           \/ \E g \in S, n \in 0 .. max :
                 /\ spent2 = spent + n
                 /\ held2 = [held EXCEPT ![g] = 0]
                 /\ over2 = (over \/ n > held[g])
    PROVE  over2 \/ spent2 + Total(held2, max) <= limit
  <1>a. Total(held, max) \in Nat /\ Total(held2, max) \in Nat
    BY TokensFinite
  <1>1. CASE over2 = over /\ spent2 + Total(held2, max) <= limit
    BY <1>1
  <1>2. CASE /\ over2 = over /\ (spent2 = spent \/ spent2 = 0)
             /\ \A x \in S : held2[x] \in {0, held[x]}
    <2>1. \A x \in S : held2[x] <= held[x]
      BY <1>2
    <2>2. Total(held2, max) <= Total(held, max)
      BY <1>a, <2>1, TotalMonotone
    <2> QED
      BY <1>a, <1>2, <2>2
  <1>3. ASSUME NEW g \in S, NEW n \in 0 .. max,
               spent2 = spent + n, held2 = [held EXCEPT ![g] = 0],
               over2 = (over \/ n > held[g])
        PROVE  over2 \/ spent2 + Total(held2, max) <= limit
    <2>1. held2[g] = 0 /\ \A x \in S \ {g} : held[x] = held2[x]
      BY <1>3
    <2>2. Total(held2, max) + held[g] = Total(held, max) + held2[g]
      BY <1>a, <2>1, TotalChange
    <2>3. n \in Nat /\ held[g] \in Nat
      OBVIOUS
    <2> SUFFICES ASSUME ~over2
                 PROVE  spent2 + Total(held2, max) <= limit
      OBVIOUS
    <2>4. ~over /\ ~(n > held[g])
      BY <1>3
    <2>5. spent + Total(held, max) <= limit
      BY <2>4
    <2>6. n <= held[g]
      BY <2>3, <2>4
    <2>7. Total(held2, max) + held[g] = Total(held, max)
      BY <1>a, <2>1, <2>2
    <2> QED
      BY <1>a, <1>3, <2>3, <2>5, <2>6, <2>7
  <1> QED
    BY <1>1, <1>2, <1>3
=============================================================================
