------------------------------- MODULE FiniteSums -------------------------------
(***************************************************************************)
(* Facts about SumFunctionOnSet, the sum of a function's values over a     *)
(* finite set, which the ledgers and the pipeline add up rows with.        *)
(*                                                                         *)
(* The sum is a recursive function on the subsets of the set, which takes  *)
(* out one element at a time in an order it chooses.  That it exists, and  *)
(* that the order does not matter, is shown by looking at a smallest set   *)
(* for which it would be otherwise.                                        *)
(***************************************************************************)
EXTENDS FiniteSetTheorems, TLAPS

First(s) == CHOOSE x \in s : TRUE
Rest(s) == s \ {First(s)}

(* sum is the table of the sums of f over the subsets of S.                  *)
Sums(sum, f, S) ==
  sum = [s \in SUBSET S |-> IF s = {} THEN 0 ELSE f[First(s)] + sum[Rest(s)]]

(* A non-empty family of finite sets has a set none of whose subsets is in it.*)
LEMMA SmallestSet ==
  ASSUME NEW S, IsFiniteSet(S), NEW F, F \subseteq SUBSET S, F # {}
  PROVE  \E T \in F : \A U \in SUBSET T : U # T => U \notin F
<1>1. IsWellFoundedOn(StrictSubsetOrdering(S), SUBSET S)
  BY FS_StrictSubsetOrderingWellFounded, FS_FiniteSubsetsOfFinite
<1>2. PICK T \in F : \A U \in F : <<U, T>> \notin StrictSubsetOrdering(S)
  BY <1>1, WFMin
<1> QED
  BY <1>2 DEF StrictSubsetOrdering

LEMMA RestIsSmaller ==
  ASSUME NEW S, S # {}
  PROVE  First(S) \in S /\ Rest(S) \in SUBSET S /\ Rest(S) # S
BY DEF First, Rest

(* Two tables agree where both are defined.                                  *)
LEMMA SumsAgree ==
  ASSUME NEW f, NEW S, NEW T, NEW g, NEW h, Sums(g, f, S), Sums(h, f, T),
         IsFiniteSet(S), NEW s \in SUBSET S, s \in SUBSET T
  PROVE  g[s] = h[s]
<1> DEFINE F == {u \in SUBSET s : g[u] # h[u]}
<1> SUFFICES ASSUME F # {} PROVE FALSE
  OBVIOUS
<1>1. IsFiniteSet(s) /\ F \subseteq SUBSET s
  BY FS_Subset
<1> HIDE DEF F
<1>2. PICK u \in F : \A v \in SUBSET u : v # u => v \notin F
  BY <1>1, SmallestSet
<1>3. u \in SUBSET S /\ u \in SUBSET T /\ u \in SUBSET s /\ g[u] # h[u]
  BY <1>2 DEF F
<1>4. /\ g[u] = IF u = {} THEN 0 ELSE f[First(u)] + g[Rest(u)]
      /\ h[u] = IF u = {} THEN 0 ELSE f[First(u)] + h[Rest(u)]
  BY <1>3 DEF Sums
<1>5. u # {} /\ g[Rest(u)] # h[Rest(u)]
  BY <1>3, <1>4
<1>6. Rest(u) \in SUBSET u /\ Rest(u) # u
  BY <1>5, RestIsSmaller
<1>7. Rest(u) \in F
  BY <1>3, <1>5, <1>6 DEF F
<1> QED
  BY <1>2, <1>6, <1>7

LEMMA SumsExist ==
  ASSUME NEW f, NEW S, IsFiniteSet(S)
  PROVE  \E sum : Sums(sum, f, S)
<1> DEFINE F == {U \in SUBSET S : ~ \E sum : Sums(sum, f, U)}
           table(U) == CHOOSE sum : Sums(sum, f, U)
<1> SUFFICES ASSUME F # {} PROVE FALSE
  OBVIOUS
<1>0. F \subseteq SUBSET S
  OBVIOUS
<1> HIDE DEF F
<1>1. PICK T \in F : \A U \in SUBSET T : U # T => U \notin F
  BY <1>0, SmallestSet
<1>2. ASSUME NEW U \in SUBSET T, U # T
      PROVE  Sums(table(U), f, U)
  BY <1>0, <1>1, <1>2 DEF F
<1> DEFINE sum == [s \in SUBSET T |-> IF s = {} THEN 0 ELSE f[First(s)] + table(Rest(s))[Rest(s)]]
<1> HIDE DEF table
<1>3. ASSUME NEW s \in SUBSET T, s # {}
      PROVE  sum[Rest(s)] = table(Rest(s))[Rest(s)]
  <2> DEFINE r == Rest(s)
  <2>1. First(s) \in s /\ r \in SUBSET T /\ r # T
    BY <1>3, RestIsSmaller
  <2>2. Sums(table(r), f, r)
    BY <1>2, <2>1
  <2>3. table(r)[r] = IF r = {} THEN 0 ELSE f[First(r)] + table(r)[Rest(r)]
    BY <2>2 DEF Sums
  <2>4. sum[r] = IF r = {} THEN 0 ELSE f[First(r)] + table(Rest(r))[Rest(r)]
    BY <2>1
  <2>5. CASE r = {}
    BY <2>3, <2>4, <2>5
  <2>6. CASE r # {}
    <3>1. Rest(r) \in SUBSET r /\ Rest(r) \in SUBSET T /\ Rest(r) # T
      BY <2>1, <2>6, RestIsSmaller
    <3>2. Sums(table(Rest(r)), f, Rest(r))
      BY <1>2, <3>1
    <3>3. IsFiniteSet(r)
      BY <1>0, <1>1, <2>1, FS_Subset
    <3>4. table(r)[Rest(r)] = table(Rest(r))[Rest(r)]
      BY <2>2, <3>1, <3>2, <3>3, SumsAgree
    <3> QED
      BY <2>3, <2>4, <2>6, <3>4
  <2> QED
    BY <2>5, <2>6
<1>4. Sums(sum, f, T)
  <2>1. \A s \in SUBSET T :
           sum[s] = IF s = {} THEN 0 ELSE f[First(s)] + sum[Rest(s)]
    BY <1>3
  <2> QED
    BY <2>1 DEF Sums
<1> QED
  BY <1>1, <1>4 DEF F
-----------------------------------------------------------------------------
LEMMA SumIsInTable ==
  ASSUME NEW f, NEW S, IsFiniteSet(S)
  PROVE  \E sum : Sums(sum, f, S) /\ SumFunctionOnSet(f, S) = sum[S]
<1> DEFINE sum == CHOOSE g : Sums(g, f, S)
<1>1. Sums(sum, f, S)
  BY SumsExist
<1>2. SumFunctionOnSet(f, S) = sum[S]
  BY DEF SumFunctionOnSet, FoldFunctionOnSet, MapThenFoldSet, Sums, First, Rest
<1> QED
  BY <1>1, <1>2

THEOREM SumOfNothing == ASSUME NEW f PROVE SumFunctionOnSet(f, {}) = 0
<1>1. PICK sum : Sums(sum, f, {}) /\ SumFunctionOnSet(f, {}) = sum[{}]
  BY SumIsInTable, FS_EmptySet
<1> QED
  BY <1>1 DEF Sums

LEMMA SumOfFirst ==
  ASSUME NEW f, NEW S, IsFiniteSet(S), S # {}
  PROVE  SumFunctionOnSet(f, S) = f[First(S)] + SumFunctionOnSet(f, Rest(S))
<1>1. Rest(S) \in SUBSET S /\ IsFiniteSet(Rest(S))
  BY RestIsSmaller, FS_Subset
<1>2. PICK sum : Sums(sum, f, S) /\ SumFunctionOnSet(f, S) = sum[S]
  BY SumIsInTable
<1>3. PICK rest : Sums(rest, f, Rest(S)) /\ SumFunctionOnSet(f, Rest(S)) = rest[Rest(S)]
  BY <1>1, SumIsInTable
<1>4. sum[Rest(S)] = rest[Rest(S)]
  BY <1>1, <1>2, <1>3, SumsAgree
<1> QED
  BY <1>2, <1>3, <1>4 DEF Sums

(* The sum of integers is an integer, of naturals a natural.                 *)
LEMMA SumTyped ==
  ASSUME NEW f, NEW S, IsFiniteSet(S), NEW N, N = Nat \/ N = Int, \A x \in S : f[x] \in N
  PROVE  SumFunctionOnSet(f, S) \in N
<1> DEFINE F == {U \in SUBSET S : SumFunctionOnSet(f, U) \notin N}
<1> SUFFICES ASSUME F # {} PROVE FALSE
  OBVIOUS
<1>0. F \subseteq SUBSET S
  OBVIOUS
<1> HIDE DEF F
<1>1. PICK T \in F : \A U \in SUBSET T : U # T => U \notin F
  BY <1>0, SmallestSet
<1>2. IsFiniteSet(T)
  BY <1>0, FS_Subset
<1>3. T # {}
  BY SumOfNothing DEF F
<1>4. /\ First(T) \in T /\ Rest(T) \in SUBSET T /\ Rest(T) # T
      /\ SumFunctionOnSet(f, T) = f[First(T)] + SumFunctionOnSet(f, Rest(T))
  BY <1>2, <1>3, RestIsSmaller, SumOfFirst
<1>5. SumFunctionOnSet(f, Rest(T)) \in N /\ f[First(T)] \in N
  BY <1>0, <1>1, <1>4 DEF F
<1>6. SumFunctionOnSet(f, T) \in N
  BY <1>4, <1>5
<1> QED
  BY <1>6 DEF F

(* Any element may be taken out.                                             *)
THEOREM SumWithout ==
  ASSUME NEW f, NEW S, IsFiniteSet(S), \A x \in S : f[x] \in Int, NEW e \in S
  PROVE  SumFunctionOnSet(f, S) = f[e] + SumFunctionOnSet(f, S \ {e})
<1> DEFINE F == {U \in SUBSET S : \E x \in U : SumFunctionOnSet(f, U)
                                                 # f[x] + SumFunctionOnSet(f, U \ {x})}
<1> SUFFICES ASSUME F # {} PROVE FALSE
  OBVIOUS
<1>0. F \subseteq SUBSET S
  OBVIOUS
<1> HIDE DEF F
<1>1. PICK T \in F : \A U \in SUBSET T : U # T => U \notin F
  BY <1>0, SmallestSet
<1>2. PICK x \in T : SumFunctionOnSet(f, T) # f[x] + SumFunctionOnSet(f, T \ {x})
  BY <1>1 DEF F
<1>3. ASSUME NEW U \in SUBSET T
      PROVE  /\ IsFiniteSet(U) /\ SumFunctionOnSet(f, U) \in Int
             /\ U # T => \A y \in U : SumFunctionOnSet(f, U) = f[y] + SumFunctionOnSet(f, U \ {y})
  <2>1. IsFiniteSet(U) /\ \A y \in U : f[y] \in Int
    BY <1>0, FS_Subset
  <2>2. U # T => \A y \in U : SumFunctionOnSet(f, U) = f[y] + SumFunctionOnSet(f, U \ {y})
    BY <1>0, <1>1 DEF F
  <2> QED
    BY <2>1, <2>2, SumTyped
<1> DEFINE c == First(T)
<1>4. SumFunctionOnSet(f, T) = f[c] + SumFunctionOnSet(f, T \ {c}) /\ c \in T
  BY <1>2, <1>3, SumOfFirst, RestIsSmaller DEF Rest
<1> HIDE DEF c
<1>5. c # x /\ f[c] \in Int /\ f[x] \in Int
  BY <1>0, <1>2, <1>4
<1>6. SumFunctionOnSet(f, T \ {c}) = f[x] + SumFunctionOnSet(f, T \ {c, x})
  <2>1. T \ {c} \in SUBSET T /\ T \ {c} # T /\ x \in T \ {c} /\ (T \ {c}) \ {x} = T \ {c, x}
    BY <1>2, <1>4, <1>5
  <2> QED
    BY <1>3, <2>1
<1>7. SumFunctionOnSet(f, T \ {x}) = f[c] + SumFunctionOnSet(f, T \ {c, x})
  <2>1. T \ {x} \in SUBSET T /\ T \ {x} # T /\ c \in T \ {x} /\ (T \ {x}) \ {c} = T \ {c, x}
    BY <1>2, <1>4, <1>5
  <2> QED
    BY <1>3, <2>1
<1>8. SumFunctionOnSet(f, T \ {c, x}) \in Int
  BY <1>3
<1> QED
  BY <1>2, <1>4, <1>5, <1>6, <1>7, <1>8

(* Only the values on the set count.                                         *)
THEOREM SumOfSame ==
  ASSUME NEW f, NEW g, NEW S, IsFiniteSet(S), \A x \in S : f[x] = g[x]
  PROVE  SumFunctionOnSet(f, S) = SumFunctionOnSet(g, S)
<1> DEFINE F == {U \in SUBSET S : SumFunctionOnSet(f, U) # SumFunctionOnSet(g, U)}
<1> SUFFICES ASSUME F # {} PROVE FALSE
  OBVIOUS
<1>0. F \subseteq SUBSET S
  OBVIOUS
<1> HIDE DEF F
<1>1. PICK T \in F : \A U \in SUBSET T : U # T => U \notin F
  BY <1>0, SmallestSet
<1>2. IsFiniteSet(T) /\ T # {} /\ SumFunctionOnSet(f, T) # SumFunctionOnSet(g, T)
  BY <1>0, FS_Subset, SumOfNothing DEF F
<1>3. /\ First(T) \in T /\ Rest(T) \in SUBSET T /\ Rest(T) # T
      /\ SumFunctionOnSet(f, T) = f[First(T)] + SumFunctionOnSet(f, Rest(T))
      /\ SumFunctionOnSet(g, T) = g[First(T)] + SumFunctionOnSet(g, Rest(T))
  BY <1>2, RestIsSmaller, SumOfFirst
<1>4. SumFunctionOnSet(f, Rest(T)) = SumFunctionOnSet(g, Rest(T)) /\ f[First(T)] = g[First(T)]
  BY <1>0, <1>1, <1>3 DEF F
<1> QED
  BY <1>2, <1>3, <1>4

(* One value changes, and the sum by as much.                                *)
THEOREM SumAfterChange ==
  ASSUME NEW f, NEW g, NEW S, IsFiniteSet(S), NEW e \in S,
         \A x \in S : f[x] \in Int /\ g[x] \in Int,
         \A x \in S : x # e => g[x] = f[x]
  PROVE  SumFunctionOnSet(g, S) = SumFunctionOnSet(f, S) - f[e] + g[e]
<1>1. IsFiniteSet(S \ {e})
  BY FS_RemoveElement
<1>2. SumFunctionOnSet(f, S \ {e}) = SumFunctionOnSet(g, S \ {e})
  BY <1>1, SumOfSame
<1>3. SumFunctionOnSet(f, S \ {e}) \in Int
  BY <1>1, SumTyped
<1>4. /\ SumFunctionOnSet(f, S) = f[e] + SumFunctionOnSet(f, S \ {e})
      /\ SumFunctionOnSet(g, S) = g[e] + SumFunctionOnSet(g, S \ {e})
  BY SumWithout
<1> QED
  BY <1>2, <1>3, <1>4

(* The set and the values change at one element, and the sum by what it counted*)
(* for before and counts for now.                                            *)
THEOREM SumAfterMove ==
  ASSUME NEW f, NEW g, NEW S, NEW T, IsFiniteSet(S), IsFiniteSet(T), NEW e,
         S \ {e} = T \ {e},
         \A x \in S : f[x] \in Int, \A x \in T : g[x] \in Int,
         \A x \in S : x # e => g[x] = f[x]
  PROVE  SumFunctionOnSet(g, T) = SumFunctionOnSet(f, S) - (IF e \in S THEN f[e] ELSE 0)
                                                         + (IF e \in T THEN g[e] ELSE 0)
<1> DEFINE rest == S \ {e}
<1>1. IsFiniteSet(rest) /\ \A x \in rest : f[x] = g[x] /\ f[x] \in Int
  BY FS_RemoveElement
<1>2. SumFunctionOnSet(f, rest) = SumFunctionOnSet(g, rest) /\ SumFunctionOnSet(f, rest) \in Int
  <2> HIDE DEF rest
  <2> QED
    BY <1>1, SumOfSame, SumTyped
<1>3. SumFunctionOnSet(f, S) = SumFunctionOnSet(f, rest) + (IF e \in S THEN f[e] ELSE 0)
  <2>1. CASE e \in S
    BY <1>2, <2>1, SumWithout
  <2>2. CASE e \notin S
    <3>1. rest = S
      BY <2>2
    <3> HIDE DEF rest
    <3> QED
      BY <1>2, <2>2, <3>1
  <2> QED
    BY <2>1, <2>2
<1>4. SumFunctionOnSet(g, T) = SumFunctionOnSet(g, rest) + (IF e \in T THEN g[e] ELSE 0)
  <2>0. rest = T \ {e}
    OBVIOUS
  <2>1. CASE e \in T
    BY <1>2, <2>0, <2>1, SumWithout
  <2>2. CASE e \notin T
    <3>1. rest = T
      BY <2>0, <2>2
    <3> HIDE DEF rest
    <3> QED
      BY <1>2, <2>2, <3>1
  <2> QED
    BY <2>1, <2>2
<1> HIDE DEF rest
<1>5. /\ (IF e \in S THEN f[e] ELSE 0) \in Int
      /\ (IF e \in T THEN g[e] ELSE 0) \in Int
  OBVIOUS
<1> QED
  BY <1>2, <1>3, <1>4, <1>5

(* Of naturals, no part is above the sum.                                    *)
THEOREM SumBounds ==
  ASSUME NEW f, NEW S, IsFiniteSet(S), \A x \in S : f[x] \in Nat
  PROVE  /\ SumFunctionOnSet(f, S) \in Nat
         /\ \A x \in S : f[x] <= SumFunctionOnSet(f, S)
<1>1. SumFunctionOnSet(f, S) \in Nat
  BY SumTyped
<1>2. ASSUME NEW x \in S PROVE f[x] <= SumFunctionOnSet(f, S)
  <2>1. IsFiniteSet(S \ {x})
    BY FS_RemoveElement
  <2>2. SumFunctionOnSet(f, S \ {x}) \in Nat
    BY <2>1, SumTyped
  <2>3. SumFunctionOnSet(f, S) = f[x] + SumFunctionOnSet(f, S \ {x})
    BY SumWithout
  <2> QED
    BY <2>2, <2>3
<1> QED
  BY <1>1, <1>2

(* Zeros add up to nothing.                                                  *)
THEOREM SumOfZeros ==
  ASSUME NEW f, NEW S, IsFiniteSet(S), \A x \in S : f[x] = 0
  PROVE  SumFunctionOnSet(f, S) = 0
<1> DEFINE F == {U \in SUBSET S : SumFunctionOnSet(f, U) # 0}
<1> SUFFICES ASSUME F # {} PROVE FALSE
  OBVIOUS
<1>0. F \subseteq SUBSET S
  OBVIOUS
<1> HIDE DEF F
<1>1. PICK T \in F : \A U \in SUBSET T : U # T => U \notin F
  BY <1>0, SmallestSet
<1>2. IsFiniteSet(T) /\ T # {} /\ SumFunctionOnSet(f, T) # 0
  BY <1>0, FS_Subset, SumOfNothing DEF F
<1>3. /\ First(T) \in T /\ Rest(T) \in SUBSET T /\ Rest(T) # T
      /\ SumFunctionOnSet(f, T) = f[First(T)] + SumFunctionOnSet(f, Rest(T))
  BY <1>2, RestIsSmaller, SumOfFirst
<1>4. SumFunctionOnSet(f, Rest(T)) = 0 /\ f[First(T)] = 0
  BY <1>0, <1>1, <1>3 DEF F
<1> QED
  BY <1>2, <1>3, <1>4
=============================================================================
