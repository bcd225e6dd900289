------------------------------- MODULE SumProofs --------------------------------
(***************************************************************************)
(* Sums and products over finite sets.  The folds take the elements in an  *)
(* order CHOOSE fixes, so what a sum comes to when an element is taken out *)
(* of it is proved first.  There is no induction over sets here: of the    *)
(* sets that break a rule, were there any, one would be the smallest, and  *)
(* it cannot be.                                                           *)
(***************************************************************************)
EXTENDS Integers, FiniteSets, Functions, FiniteSetTheorems, WellFoundedInduction, TLAPS

First(s) == CHOOSE x \in s : TRUE

Sums(g, f, S) ==
    g = [s \in SUBSET S |-> IF s = {} THEN 0 ELSE f[First(s)] + g[s \ {First(s)}]]

Total(f, S) == (CHOOSE g : Sums(g, f, S))[S]

LEMMA SmallestSet ==
    ASSUME NEW S, IsFiniteSet(S), NEW Bad \in SUBSET SUBSET S, Bad # {}
    PROVE  \E T \in Bad : \A U \in SUBSET T : U # T => U \notin Bad
<1>1. IsWellFoundedOn(StrictSubsetOrdering(S), FiniteSubsetsOf(S))
  BY FS_StrictSubsetOrderingWellFounded
<1>2. Bad \subseteq FiniteSubsetsOf(S)
  BY FS_Subset DEF FiniteSubsetsOf
<1> DEFINE R == StrictSubsetOrdering(S)
           F == FiniteSubsetsOf(S)
<1> HIDE DEF R, F
<1>3. \E T \in Bad : \A U \in Bad : ~ (<<U, T>> \in R)
  <2>1. IsWellFoundedOn(R, F) /\ Bad \subseteq F
    BY <1>1, <1>2 DEF R, F
  <2> QED
    BY <2>1, WFMin
<1>4. PICK T \in Bad : \A U \in Bad : ~ (<<U, T>> \in R)
  BY <1>3
<1>5. ASSUME NEW U \in SUBSET T, U # T, U \in Bad PROVE FALSE
  <2>1. <<U, T>> \in StrictSubsetOrdering(S)
    BY <1>5 DEF StrictSubsetOrdering
  <2> QED
    BY <1>4, <1>5, <2>1 DEF R
<1> QED
  BY <1>4, <1>5

(* Of some numbers one is the least. *)
LEMMA SmallestNat ==
    ASSUME NEW Bad \in SUBSET Nat, Bad # {}
    PROVE  \E n \in Bad : \A m \in Bad : n <= m
<1> PICK b \in Bad : TRUE
  OBVIOUS
<1> DEFINE Upto == {0 .. k : k \in {l \in Bad : l <= b}}
<1>1. IsFiniteSet(0 .. b)
  BY FS_Interval
<1>2. Upto \in SUBSET SUBSET (0 .. b) /\ Upto # {}
  OBVIOUS
<1>3. PICK T \in Upto : \A U \in SUBSET T : U # T => U \notin Upto
  <2> PICK S : S = 0 .. b
    OBVIOUS
  <2> HIDE DEF Upto
  <2>1. IsFiniteSet(S) /\ Upto \in SUBSET SUBSET S /\ Upto # {}
    BY <1>1, <1>2
  <2> QED
    BY ONLY <2>1, SmallestSet
<1>4. PICK n \in Bad : n <= b /\ T = 0 .. n
  OBVIOUS
<1>5. ASSUME NEW m \in Bad, m < n PROVE FALSE
  <2>1. 0 .. m \in Upto
    BY <1>4, <1>5
  <2>2. 0 .. m \in SUBSET T /\ 0 .. m # T
    <3>1. n \in 0 .. n /\ n \notin 0 .. m
      BY <1>5
    <3> QED
      BY <1>4, <1>5, <3>1
  <2> HIDE DEF Upto
  <2> QED
    BY <1>3, <2>1, <2>2
<1> QED
  BY <1>5

LEMMA FirstIn == ASSUME NEW s, s # {} PROVE First(s) \in s
BY DEF First

LEMMA SumsUnfold ==
    ASSUME NEW S, NEW f, NEW g, Sums(g, f, S)
    PROVE  /\ g[{}] = 0
           /\ \A s \in SUBSET S : s # {} => g[s] = f[First(s)] + g[s \ {First(s)}]
<1>1. {} \in SUBSET S
  OBVIOUS
<1>2. \A s \in SUBSET S : g[s] = IF s = {} THEN 0 ELSE f[First(s)] + g[s \ {First(s)}]
  BY DEF Sums
<1> QED
  BY <1>1, <1>2

(* What is summed over a subset does not depend on the set around it. *)
LEMMA SumsAgree ==
    ASSUME NEW S, IsFiniteSet(S), NEW T \in SUBSET S, NEW f, NEW g, NEW h,
           Sums(g, f, S), Sums(h, f, T), NEW s \in SUBSET T
    PROVE  g[s] = h[s]
<1> DEFINE Bad == {t \in SUBSET T : g[t] # h[t]}
<1> SUFFICES ASSUME Bad # {} PROVE FALSE  OBVIOUS
<1>1. Bad \in SUBSET SUBSET S
  OBVIOUS
<1>2. PICK t \in Bad : \A u \in SUBSET t : u # t => u \notin Bad
  <2> HIDE DEF Bad
  <2> QED
    BY <1>1, SmallestSet
<1>3. t \in SUBSET T /\ g[t] # h[t]
  BY <1>2
<1>4. t # {}
  BY <1>3, SumsUnfold
<1> DEFINE u == t \ {First(t)}
<1>5. g[t] = f[First(t)] + g[u] /\ h[t] = f[First(t)] + h[u]
  <2>1. t \in SUBSET S /\ t \in SUBSET T
    BY <1>3
  <2> HIDE DEF Bad, u
  <2>2. t # {} => g[t] = f[First(t)] + g[t \ {First(t)}]
    BY <2>1, SumsUnfold
  <2>3. t # {} => h[t] = f[First(t)] + h[t \ {First(t)}]
    BY <2>1, SumsUnfold
  <2> QED
    BY <1>4, <2>2, <2>3 DEF u
<1>6. u \in SUBSET t /\ u # t /\ u \in SUBSET T
  BY <1>3, <1>4, FirstIn
<1>7. g[u] = h[u]
  BY <1>2, <1>6
<1> QED
  BY <1>3, <1>5, <1>7

LEMMA SumsExist == ASSUME NEW S, IsFiniteSet(S), NEW f PROVE \E g : Sums(g, f, S)
<1> DEFINE Bad == {t \in SUBSET S : ~ \E g : Sums(g, f, t)}
<1> SUFFICES ASSUME Bad # {} PROVE FALSE  OBVIOUS
<1>1. PICK T \in Bad : \A U \in SUBSET T : U # T => U \notin Bad
  <2>1. Bad \in SUBSET SUBSET S
    OBVIOUS
  <2> HIDE DEF Bad
  <2> QED
    BY <2>1, SmallestSet
<1>2. T \in SUBSET S /\ ~ \E g : Sums(g, f, T)
  BY <1>1
<1>3. \A U \in SUBSET T : U # T => \E g : Sums(g, f, U)
  BY <1>1, <1>2
<1> DEFINE G(U) == CHOOSE g : Sums(g, f, U)
<1>4. \A U \in SUBSET T : U # T => Sums(G(U), f, U) /\ Total(f, U) = G(U)[U]
  BY <1>3 DEF Total
<1> DEFINE total(s) == IF s = T THEN IF T = {} THEN 0 ELSE f[First(T)] + Total(f, T \ {First(T)})
                       ELSE Total(f, s)
           g == [s \in SUBSET T |-> total(s)]
<1>5. \A s \in SUBSET T : g[s] = total(s)
  OBVIOUS
<1>6. ASSUME NEW s \in SUBSET T
      PROVE  g[s] = IF s = {} THEN 0 ELSE f[First(s)] + g[s \ {First(s)}]
  <2>1. CASE s = {}
    <3>1. CASE T = {}
      BY <1>5, <2>1, <3>1
    <3>2. CASE T # {}
      <4>1. g[s] = G({})[{}] /\ Sums(G({}), f, {})
        BY <1>4, <1>5, <2>1, <3>2
      <4>2. G({})[{}] = 0
        BY <4>1, SumsUnfold
      <4> QED
        BY <2>1, <4>1, <4>2
    <3> QED
      BY <3>1, <3>2
  <2>2. CASE s # {}
    <3> DEFINE u == s \ {First(s)}
    <3>1. u \in SUBSET s /\ u # s /\ u # T /\ u \in SUBSET T
      BY <2>2, FirstIn
    <3>2. g[u] = Total(f, u)
      BY <1>5, <3>1
    <3>3. CASE s = T
      BY <1>5, <2>2, <3>2, <3>3
    <3>4. CASE s # T
      <4>1. /\ Sums(G(s), f, s) /\ g[s] = G(s)[s]
            /\ Sums(G(u), f, u) /\ g[u] = G(u)[u]
        BY <1>4, <1>5, <3>1, <3>2, <3>4
      <4>2. G(s)[s] = f[First(s)] + G(s)[u]
        BY <2>2, <4>1, SumsUnfold
      <4>3. IsFiniteSet(s)
        BY <1>2, FS_Subset
      <4>4. G(s)[u] = G(u)[u]
        <5> HIDE DEF G, u
        <5> QED
          BY <3>1, <4>1, <4>3, SumsAgree
      <4> QED
        BY <2>2, <4>1, <4>2, <4>4
    <3> QED
      BY <3>3, <3>4
  <2> QED
    BY <2>1, <2>2
<1>7. g = [s \in SUBSET T |-> g[s]]
  OBVIOUS
<1>8. Sums(g, f, T)
  <2> HIDE DEF g
  <2> QED
    BY <1>6, <1>7 DEF Sums
<1> QED
  BY <1>2, <1>8

LEMMA TotalUnfold ==
    ASSUME NEW S, IsFiniteSet(S), NEW f
    PROVE  /\ S = {} => Total(f, S) = 0
           /\ S # {} => Total(f, S) = f[First(S)] + Total(f, S \ {First(S)})
<1> DEFINE G(U) == CHOOSE g : Sums(g, f, U)
           u == S \ {First(S)}
<1>1. IsFiniteSet(u) /\ u \in SUBSET S
  BY FS_Subset
<1>2. Sums(G(S), f, S) /\ Sums(G(u), f, u)
  <2> HIDE DEF u
  <2> QED
    BY <1>1, SumsExist
<1>3. Total(f, S) = G(S)[S] /\ Total(f, u) = G(u)[u]
  BY DEF Total
<1>4. G(S)[u] = G(u)[u]
  <2> HIDE DEF G, u
  <2> QED
    BY <1>1, <1>2, SumsAgree
<1>5. S = {} => G(S)[S] = 0
  <2> HIDE DEF G
  <2> QED
    BY <1>2, SumsUnfold
<1>6. S # {} => G(S)[S] = f[First(S)] + G(S)[u]
  <2> HIDE DEF G
  <2> QED
    BY <1>2, SumsUnfold
<1> HIDE DEF G
<1> QED
  BY <1>3, <1>4, <1>5, <1>6

LEMMA TotalNat ==
    ASSUME NEW S, IsFiniteSet(S), NEW f, \A x \in S : f[x] \in Nat
    PROVE  Total(f, S) \in Nat
<1> DEFINE Bad == {t \in SUBSET S : Total(f, t) \notin Nat}
<1> SUFFICES ASSUME Bad # {} PROVE FALSE  OBVIOUS
<1>1. PICK T \in Bad : \A U \in SUBSET T : U # T => U \notin Bad
  <2>1. Bad \in SUBSET SUBSET S
    OBVIOUS
  <2> HIDE DEF Bad
  <2> QED
    BY <2>1, SmallestSet
<1>2. T \in SUBSET S /\ Total(f, T) \notin Nat /\ IsFiniteSet(T)
  BY <1>1, FS_Subset
<1>3. T # {} /\ Total(f, T) = f[First(T)] + Total(f, T \ {First(T)})
  <2>1. /\ T = {} => Total(f, T) = 0
        /\ T # {} => Total(f, T) = f[First(T)] + Total(f, T \ {First(T)})
    BY <1>2, TotalUnfold
  <2> QED
    BY <1>2, <2>1
<1>4. First(T) \in T
  BY <1>3, FirstIn
<1>5. Total(f, T \ {First(T)}) \in Nat
  BY <1>1, <1>2, <1>4
<1> QED
  BY <1>2, <1>3, <1>4, <1>5

LEMMA TotalInt ==
    ASSUME NEW S, IsFiniteSet(S), NEW f, \A x \in S : f[x] \in Int
    PROVE  Total(f, S) \in Int
<1> DEFINE Bad == {t \in SUBSET S : Total(f, t) \notin Int}
<1> SUFFICES ASSUME Bad # {} PROVE FALSE  OBVIOUS
<1>1. PICK T \in Bad : \A U \in SUBSET T : U # T => U \notin Bad
  <2>1. Bad \in SUBSET SUBSET S
    OBVIOUS
  <2> HIDE DEF Bad
  <2> QED
    BY <2>1, SmallestSet
<1>2. T \in SUBSET S /\ Total(f, T) \notin Int /\ IsFiniteSet(T)
  BY <1>1, FS_Subset
<1>3. T # {} /\ Total(f, T) = f[First(T)] + Total(f, T \ {First(T)})
  <2>1. /\ T = {} => Total(f, T) = 0
        /\ T # {} => Total(f, T) = f[First(T)] + Total(f, T \ {First(T)})
    BY <1>2, TotalUnfold
  <2> QED
    BY <1>2, <2>1
<1>4. First(T) \in T
  BY <1>3, FirstIn
<1>5. Total(f, T \ {First(T)}) \in Int
  BY <1>1, <1>2, <1>4
<1> QED
  BY <1>2, <1>3, <1>4, <1>5

LEMMA TotalSame ==
    ASSUME NEW S, IsFiniteSet(S), NEW f, NEW g, \A x \in S : f[x] = g[x]
    PROVE  Total(f, S) = Total(g, S)
<1> DEFINE Bad == {t \in SUBSET S : Total(f, t) # Total(g, t)}
<1> SUFFICES ASSUME Bad # {} PROVE FALSE  OBVIOUS
<1>1. PICK T \in Bad : \A U \in SUBSET T : U # T => U \notin Bad
  <2>1. Bad \in SUBSET SUBSET S
    OBVIOUS
  <2> HIDE DEF Bad
  <2> QED
    BY <2>1, SmallestSet
<1>2. T \in SUBSET S /\ Total(f, T) # Total(g, T) /\ IsFiniteSet(T)
  BY <1>1, FS_Subset
<1>3. /\ T # {} /\ Total(f, T) = f[First(T)] + Total(f, T \ {First(T)})
      /\ Total(g, T) = g[First(T)] + Total(g, T \ {First(T)})
  BY <1>2, TotalUnfold
<1>4. First(T) \in T
  BY <1>3, FirstIn
<1>5. Total(f, T \ {First(T)}) = Total(g, T \ {First(T)})
  BY <1>1, <1>2, <1>4
<1> QED
  BY <1>2, <1>3, <1>4, <1>5

(* Any element can be taken out of a sum. *)
LEMMA TotalWithout ==
    ASSUME NEW S, IsFiniteSet(S), NEW f, \A x \in S : f[x] \in Int, NEW x \in S
    PROVE  Total(f, S) = f[x] + Total(f, S \ {x})
<1> DEFINE Bad == {t \in SUBSET S : \E y \in t : Total(f, t) # f[y] + Total(f, t \ {y})}
<1> SUFFICES ASSUME Bad # {} PROVE FALSE  OBVIOUS
<1>1. PICK T \in Bad : \A U \in SUBSET T : U # T => U \notin Bad
  <2>1. Bad \in SUBSET SUBSET S
    OBVIOUS
  <2> HIDE DEF Bad
  <2> QED
    BY <2>1, SmallestSet
<1>2. T \in SUBSET S /\ IsFiniteSet(T)
  BY <1>1, FS_Subset
<1>3. PICK y \in T : Total(f, T) # f[y] + Total(f, T \ {y})
  BY <1>1
<1> DEFINE c == First(T)
           without == T \ {c, y}
<1>4. c \in T /\ Total(f, T) = f[c] + Total(f, T \ {c})
  BY <1>2, TotalUnfold, FirstIn
<1> HIDE DEF c
<1>5. c # y
  BY <1>3, <1>4
<1>6. T \ {c} \notin Bad /\ T \ {y} \notin Bad
  BY <1>1, <1>4
<1>7. y \in T \ {c} /\ c \in T \ {y} /\ (T \ {c}) \ {y} = without /\ (T \ {y}) \ {c} = without
  BY <1>4, <1>5
<1>8. T \ {c} \in SUBSET S /\ T \ {y} \in SUBSET S
  BY <1>2
<1>9. Total(f, T \ {c}) = f[y] + Total(f, without)
  BY <1>6, <1>7, <1>8
<1>10. Total(f, T \ {y}) = f[c] + Total(f, without)
  BY <1>6, <1>7, <1>8
<1>11. IsFiniteSet(without) /\ \A z \in without : f[z] \in Int
  BY <1>2, FS_Subset
<1>12. Total(f, without) \in Int
  <2> HIDE DEF without
  <2> QED
    BY <1>11, TotalInt
<1>13. f[c] \in Int /\ f[y] \in Int
  BY <1>2, <1>4
<1> HIDE DEF without
<1> QED
  BY <1>3, <1>4, <1>9, <1>10, <1>12, <1>13

(* A sum may be taken over the list of a set instead. *)
LEMMA TotalMapped ==
    ASSUME NEW I, IsFiniteSet(I), NEW b, NEW f, NEW h,
           \A i, j \in I : b[i] = b[j] => i = j,
           \A i \in I : f[i] \in Int /\ f[i] = h[b[i]]
    PROVE  Total(f, I) = Total(h, {b[i] : i \in I})
<1> DEFINE Img(J) == {b[i] : i \in J}
           Bad == {t \in SUBSET I : Total(f, t) # Total(h, Img(t))}
<1> SUFFICES ASSUME Bad # {} PROVE FALSE  OBVIOUS
<1>1. PICK T \in Bad : \A U \in SUBSET T : U # T => U \notin Bad
  <2>1. Bad \in SUBSET SUBSET I
    OBVIOUS
  <2> HIDE DEF Bad
  <2> QED
    BY <2>1, SmallestSet
<1>2. T \in SUBSET I /\ Total(f, T) # Total(h, Img(T)) /\ IsFiniteSet(T)
  BY <1>1, FS_Subset
<1>3. IsFiniteSet(Img(T))
  <2> DEFINE onto == [i \in T |-> b[i]]
  <2>1. onto \in Surjection(T, Img(T))
    BY DEF Surjection
  <2> HIDE DEF onto, Img
  <2> QED
    BY <1>2, <2>1, FS_Surjection
<1>4. T # {}
  <2> SUFFICES ASSUME T = {} PROVE FALSE  OBVIOUS
  <2>1. Img(T) = {}
    OBVIOUS
  <2> QED
    BY <1>2, <1>3, <2>1, TotalUnfold
<1> DEFINE c == First(T)
<1>5. c \in T /\ Total(f, T) = f[c] + Total(f, T \ {c})
  BY <1>2, <1>4, TotalUnfold, FirstIn
<1> HIDE DEF c
<1>6. b[c] \in Img(T) /\ Img(T) \ {b[c]} = Img(T \ {c})
  BY <1>2, <1>5
<1>7. \A x \in Img(T) : h[x] \in Int
  BY <1>2
<1>8. Total(h, Img(T)) = h[b[c]] + Total(h, Img(T) \ {b[c]})
  <2> HIDE DEF Img
  <2> QED
    BY <1>3, <1>6, <1>7, TotalWithout
<1>9. Total(f, T \ {c}) = Total(h, Img(T \ {c}))
  <2>1. T \ {c} \in SUBSET T /\ T \ {c} # T /\ T \ {c} \in SUBSET I
    BY <1>2, <1>5
  <2> QED
    BY <1>1, <2>1
<1>10. f[c] = h[b[c]]
  BY <1>2, <1>5
<1> HIDE DEF Img
<1> QED
  BY <1>2, <1>5, <1>6, <1>8, <1>9, <1>10

(* A sum of nothing but zeros. *)
LEMMA TotalZeros ==
    ASSUME NEW S, IsFiniteSet(S), NEW f, \A x \in S : f[x] = 0
    PROVE  Total(f, S) = 0
<1> DEFINE Bad == {t \in SUBSET S : Total(f, t) # 0}
<1> SUFFICES ASSUME Bad # {} PROVE FALSE  OBVIOUS
<1>1. PICK T \in Bad : \A U \in SUBSET T : U # T => U \notin Bad
  <2>1. Bad \in SUBSET SUBSET S
    OBVIOUS
  <2> HIDE DEF Bad
  <2> QED
    BY <2>1, SmallestSet
<1>2. T \in SUBSET S /\ Total(f, T) # 0 /\ IsFiniteSet(T)
  BY <1>1, FS_Subset
<1>3. T # {} /\ Total(f, T) = f[First(T)] + Total(f, T \ {First(T)})
  <2>1. /\ T = {} => Total(f, T) = 0
        /\ T # {} => Total(f, T) = f[First(T)] + Total(f, T \ {First(T)})
    BY <1>2, TotalUnfold
  <2> QED
    BY <1>2, <2>1
<1>4. First(T) \in T
  BY <1>3, FirstIn
<1>5. Total(f, T \ {First(T)}) = 0
  BY <1>1, <1>2, <1>4
<1> QED
  BY <1>2, <1>3, <1>4, <1>5

(* A sum is that of a part and that of the rest. *)
LEMMA TotalSplit ==
    ASSUME NEW S, IsFiniteSet(S), NEW f, \A x \in S : f[x] \in Int, NEW P
    PROVE  Total(f, S) = Total(f, S \cap P) + Total(f, S \ P)
<1> DEFINE Bad == {t \in SUBSET S : Total(f, t) # Total(f, t \cap P) + Total(f, t \ P)}
<1> SUFFICES ASSUME Bad # {} PROVE FALSE  OBVIOUS
<1>1. PICK T \in Bad : \A U \in SUBSET T : U # T => U \notin Bad
  <2>1. Bad \in SUBSET SUBSET S
    OBVIOUS
  <2> HIDE DEF Bad
  <2> QED
    BY <2>1, SmallestSet
<1>2. T \in SUBSET S /\ Total(f, T) # Total(f, T \cap P) + Total(f, T \ P) /\ IsFiniteSet(T)
  BY <1>1, FS_Subset
<1> DEFINE in == T \cap P
           out == T \ P
           still == (T \ {First(T)}) \cap P
           gone == (T \ {First(T)}) \ P
<1>0. Total(f, T) # Total(f, in) + Total(f, out)
  BY <1>2
<1>3. /\ IsFiniteSet(in) /\ \A x \in in : f[x] \in Int
      /\ IsFiniteSet(out) /\ \A x \in out : f[x] \in Int
  BY <1>2, FS_Subset
<1>4. T # {}
  <2> SUFFICES ASSUME T = {} PROVE FALSE  OBVIOUS
  <2>1. in = {} /\ out = {}
    OBVIOUS
  <2>2. Total(f, T) = 0 /\ Total(f, in) = 0 /\ Total(f, out) = 0
    BY <1>2, <1>3, <2>1, TotalUnfold
  <2> QED
    BY <1>2, <2>2
<1> DEFINE c == First(T)
           rest == T \ {c}
<1>5. c \in T /\ Total(f, T) = f[c] + Total(f, rest) /\ f[c] \in Int
  BY <1>2, <1>4, TotalUnfold, FirstIn
<1>6. Total(f, rest) = Total(f, still) + Total(f, gone)
  <2>1. rest \in SUBSET T /\ rest # T /\ rest \in SUBSET S
    BY <1>2, <1>5
  <2> QED
    BY <1>1, <2>1
<1>7. Total(f, in) \in Int /\ Total(f, out) \in Int
  <2> HIDE DEF in, out
  <2> QED
    BY <1>3, TotalInt
<1>8. CASE c \in P
  <2>1. still = in \ {c} /\ gone = out /\ c \in in
    BY <1>5, <1>8
  <2>2. Total(f, in) = f[c] + Total(f, in \ {c}) /\ Total(f, in \ {c}) \in Int
    <3>1. IsFiniteSet(in \ {c}) /\ \A x \in in \ {c} : f[x] \in Int
      BY <1>3, FS_Subset
    <3> HIDE DEF in, c
    <3> QED
      BY <1>3, <2>1, <3>1, TotalWithout, TotalInt
  <2> HIDE DEF in, out, still, gone, rest, c
  <2> QED
    BY <1>0, <1>5, <1>6, <1>7, <2>1, <2>2
<1>9. CASE c \notin P
  <2>1. still = in /\ gone = out \ {c} /\ c \in out
    BY <1>5, <1>9
  <2>2. Total(f, out) = f[c] + Total(f, out \ {c}) /\ Total(f, out \ {c}) \in Int
    <3>1. IsFiniteSet(out \ {c}) /\ \A x \in out \ {c} : f[x] \in Int
      BY <1>3, FS_Subset
    <3> HIDE DEF out, c
    <3> QED
      BY <1>3, <2>1, <3>1, TotalWithout, TotalInt
  <2> HIDE DEF in, out, still, gone, rest, c
  <2> QED
    BY <1>0, <1>5, <1>6, <1>7, <2>1, <2>2
<1> QED
  BY <1>8, <1>9

(* A sum of more is no less. *)
LEMMA TotalAtMost ==
    ASSUME NEW S, IsFiniteSet(S), NEW f, NEW g,
           \A x \in S : f[x] \in Int /\ g[x] \in Int /\ f[x] <= g[x]
    PROVE  Total(f, S) <= Total(g, S)
<1> DEFINE Bad == {t \in SUBSET S : ~(Total(f, t) <= Total(g, t))}
<1> SUFFICES ASSUME Bad # {} PROVE FALSE  OBVIOUS
<1>1. PICK T \in Bad : \A U \in SUBSET T : U # T => U \notin Bad
  <2>1. Bad \in SUBSET SUBSET S
    OBVIOUS
  <2> HIDE DEF Bad
  <2> QED
    BY <2>1, SmallestSet
<1>2. T \in SUBSET S /\ ~(Total(f, T) <= Total(g, T)) /\ IsFiniteSet(T)
  BY <1>1, FS_Subset
<1>3. T # {}
  <2>1. T = {} => Total(f, T) = 0 /\ Total(g, T) = 0
    BY <1>2, TotalUnfold
  <2> QED
    BY <1>2, <2>1
<1> DEFINE c == First(T)
           rest == T \ {c}
<1>4. /\ c \in T /\ f[c] \in Int /\ g[c] \in Int /\ f[c] <= g[c]
      /\ Total(f, T) = f[c] + Total(f, rest) /\ Total(g, T) = g[c] + Total(g, rest)
  BY <1>2, <1>3, TotalUnfold, FirstIn
<1> HIDE DEF c
<1>5. Total(f, rest) <= Total(g, rest)
  <2>1. rest \in SUBSET T /\ rest # T /\ rest \in SUBSET S
    BY <1>2, <1>4
  <2> QED
    BY <1>1, <2>1
<1>6. IsFiniteSet(rest) /\ \A x \in rest : f[x] \in Int /\ g[x] \in Int
  BY <1>2, FS_Subset
<1>7. Total(f, rest) \in Int /\ Total(g, rest) \in Int
  <2> HIDE DEF rest
  <2> QED
    BY <1>6, TotalInt
<1> QED
  BY <1>2, <1>4, <1>5, <1>7

LEMMA TotalPart ==
    ASSUME NEW S, IsFiniteSet(S), NEW f, \A x \in S : f[x] \in Nat, NEW T \in SUBSET S
    PROVE  Total(f, T) <= Total(f, S)
<1> DEFINE rest == S \ T
<1>1. IsFiniteSet(T) /\ IsFiniteSet(rest) /\ S \cap T = T
  BY FS_Subset
<1>2. \A x \in S : f[x] \in Int
  OBVIOUS
<1>3. Total(f, S) = Total(f, T) + Total(f, rest)
  BY <1>1, <1>2, TotalSplit
<1>4. Total(f, T) \in Nat /\ Total(f, rest) \in Nat
  <2>1. \A x \in rest : f[x] \in Nat
    OBVIOUS
  <2> HIDE DEF rest
  <2> QED
    BY <1>1, <2>1, TotalNat
<1> HIDE DEF rest
<1> QED
  BY <1>3, <1>4

(* A term that changes changes the sum by as much. *)
LEMMA TotalChanged ==
    ASSUME NEW S, IsFiniteSet(S), NEW f, NEW g, NEW c \in S,
           \A x \in S : f[x] \in Int /\ g[x] \in Int, \A x \in S \ {c} : f[x] = g[x]
    PROVE  Total(g, S) = Total(f, S) + (g[c] - f[c])
<1> DEFINE rest == S \ {c}
<1>1. IsFiniteSet(rest) /\ \A x \in rest : f[x] = g[x] /\ f[x] \in Int
  BY FS_Subset
<1>2. Total(f, rest) = Total(g, rest) /\ Total(f, rest) \in Int
  <2> HIDE DEF rest
  <2> QED
    BY <1>1, TotalSame, TotalInt
<1>3. \A x \in S : f[x] \in Int
  OBVIOUS
<1>4. \A x \in S : g[x] \in Int
  OBVIOUS
<1>5. Total(f, S) = f[c] + Total(f, rest)
  BY <1>3, TotalWithout
<1>6. Total(g, S) = g[c] + Total(g, rest)
  BY <1>4, TotalWithout
<1> QED
  BY <1>2, <1>3, <1>4, <1>5, <1>6

(* A sum may be taken group by group. *)
LEMMA TotalGrouped ==
    ASSUME NEW S, IsFiniteSet(S), NEW f, \A x \in S : f[x] \in Int,
           NEW K, IsFiniteSet(K), NEW key, \A x \in S : key[x] \in K,
           NEW part, \A k \in K : part[k] \in SUBSET S /\ \A x \in S : x \in part[k] <=> key[x] = k,
           NEW h, \A k \in K : h[k] = Total(f, part[k])
    PROVE  Total(h, K) = Total(f, S)
<1> DEFINE Part(J) == {x \in S : key[x] \in J}
           Bad == {J \in SUBSET K : Total(h, J) # Total(f, Part(J))}
<1>1. Bad = {}
  <2> SUFFICES ASSUME Bad # {} PROVE FALSE  OBVIOUS
  <2>1. PICK J \in Bad : \A U \in SUBSET J : U # J => U \notin Bad
    <3>1. Bad \in SUBSET SUBSET K
      OBVIOUS
    <3> HIDE DEF Bad
    <3> QED
      BY <3>1, SmallestSet
  <2>2. J \in SUBSET K /\ Total(h, J) # Total(f, Part(J)) /\ IsFiniteSet(J)
    BY <2>1, FS_Subset
  <2>3. \A T \in SUBSET S : IsFiniteSet(T) /\ (\A x \in T : f[x] \in Int) /\ Total(f, T) \in Int
    <3> SUFFICES ASSUME NEW T \in SUBSET S
                 PROVE  IsFiniteSet(T) /\ (\A x \in T : f[x] \in Int) /\ Total(f, T) \in Int
      OBVIOUS
    <3>1. IsFiniteSet(T) /\ \A x \in T : f[x] \in Int
      BY FS_Subset
    <3> QED
      BY <3>1, TotalInt
  <2>4. \A k \in K : h[k] \in Int
    BY <2>3
  <2>5. J # {}
    <3> SUFFICES ASSUME J = {} PROVE FALSE  OBVIOUS
    <3>1. Part(J) = {} /\ Part(J) \in SUBSET S
      OBVIOUS
    <3>2. Total(h, J) = 0
      BY <2>2, TotalUnfold
    <3>3. Total(f, Part(J)) = 0
      BY <2>3, <3>1, TotalUnfold
    <3> QED
      BY <2>2, <3>2, <3>3
  <2>6. PICK j \in J : TRUE
    BY <2>5
  <2> DEFINE P == {x \in S : key[x] = j}
             I == J \ {j}
  <2>7. Total(h, J) = h[j] + Total(h, I)
    <3>1. IsFiniteSet(J) /\ (\A k \in J : h[k] \in Int) /\ j \in J
      BY <2>2, <2>4, <2>6
    <3> QED
      BY ONLY <3>1, TotalWithout
  <2>8. Total(h, I) = Total(f, Part(I))
    <3>1. I \in SUBSET J /\ I # J
      BY <2>6
    <3>2. I \notin Bad
      BY <2>1, <3>1
    <3>3. I \in SUBSET K
      BY <2>2
    <3> HIDE DEF I, Part
    <3> QED
      BY <3>2, <3>3
  <2>9. Total(f, Part(J)) = Total(f, Part(J) \cap P) + Total(f, Part(J) \ P)
    <3>1. Part(J) \in SUBSET S
      OBVIOUS
    <3>2. IsFiniteSet(Part(J)) /\ \A x \in Part(J) : f[x] \in Int
      BY <2>3, <3>1
    <3> HIDE DEF Part, P
    <3>3. PICK T : T = Part(J)
      OBVIOUS
    <3>4. IsFiniteSet(T) /\ \A x \in T : f[x] \in Int
      BY ONLY <3>2, <3>3
    <3>5. Total(f, T) = Total(f, T \cap P) + Total(f, T \ P)
      BY ONLY <3>4, TotalSplit
    <3> QED
      BY ONLY <3>3, <3>5
  <2>10. Part(J) \cap P = P /\ Part(J) \ P = Part(I)
    OBVIOUS
  <2>11. h[j] = Total(f, P)
    <3>1. j \in K /\ part[j] = P
      BY <2>2
    <3> QED
      BY <3>1
  <2> HIDE DEF Part, P, I
  <2> QED
    BY <2>2, <2>7, <2>8, <2>9, <2>10, <2>11
<1>2. K \notin Bad
  BY <1>1
<1>3. Part(K) = S
  OBVIOUS
<1> HIDE DEF Part
<1> QED
  BY <1>2, <1>3

(* A sum of sums. *)
LEMMA TotalAdded ==
    ASSUME NEW S, IsFiniteSet(S), NEW f, NEW g, NEW h,
           \A x \in S : f[x] \in Int /\ g[x] \in Int /\ h[x] = f[x] + g[x]
    PROVE  Total(h, S) = Total(f, S) + Total(g, S)
<1> DEFINE Bad == {t \in SUBSET S : Total(h, t) # Total(f, t) + Total(g, t)}
<1> SUFFICES ASSUME Bad # {} PROVE FALSE  OBVIOUS
<1>1. PICK T \in Bad : \A U \in SUBSET T : U # T => U \notin Bad
  <2>1. Bad \in SUBSET SUBSET S
    OBVIOUS
  <2> HIDE DEF Bad
  <2> QED
    BY <2>1, SmallestSet
<1>2. T \in SUBSET S /\ Total(h, T) # Total(f, T) + Total(g, T) /\ IsFiniteSet(T)
  BY <1>1, FS_Subset
<1>3. T # {}
  <2>1. T = {} => Total(h, T) = 0 /\ Total(f, T) = 0 /\ Total(g, T) = 0
    BY <1>2, TotalUnfold
  <2> QED
    BY <1>2, <2>1
<1> DEFINE c == First(T)
           rest == T \ {c}
<1>4. /\ c \in T /\ f[c] \in Int /\ g[c] \in Int /\ h[c] = f[c] + g[c]
      /\ Total(f, T) = f[c] + Total(f, rest) /\ Total(g, T) = g[c] + Total(g, rest)
      /\ Total(h, T) = h[c] + Total(h, rest)
  BY <1>2, <1>3, TotalUnfold, FirstIn
<1> HIDE DEF c
<1>5. Total(h, rest) = Total(f, rest) + Total(g, rest)
  BY <1>1, <1>2, <1>4
<1>6. IsFiniteSet(rest) /\ \A x \in rest : f[x] \in Int /\ g[x] \in Int
  BY <1>2, FS_Subset
<1>7. Total(f, rest) \in Int /\ Total(g, rest) \in Int
  BY <1>6, TotalInt
<1> QED
  BY <1>2, <1>4, <1>5, <1>7

LEMMA TotalScaled ==
    ASSUME NEW S, IsFiniteSet(S), NEW c \in Int, NEW f, NEW g,
           \A x \in S : f[x] \in Int /\ g[x] = f[x] * c
    PROVE  Total(g, S) = Total(f, S) * c
<1> DEFINE Bad == {t \in SUBSET S : Total(g, t) # Total(f, t) * c}
<1> SUFFICES ASSUME Bad # {} PROVE FALSE  OBVIOUS
<1>1. PICK T \in Bad : \A U \in SUBSET T : U # T => U \notin Bad
  <2>1. Bad \in SUBSET SUBSET S
    OBVIOUS
  <2> HIDE DEF Bad
  <2> QED
    BY <2>1, SmallestSet
<1>2. T \in SUBSET S /\ Total(g, T) # Total(f, T) * c /\ IsFiniteSet(T)
  BY <1>1, FS_Subset
<1>3. T # {}
  <2> SUFFICES ASSUME T = {} PROVE FALSE  OBVIOUS
  <2>1. Total(g, T) = 0 /\ Total(f, T) = 0
    BY <1>2, TotalUnfold
  <2> QED
    BY <1>2, <2>1
<1> DEFINE u == T \ {First(T)}
<1>4. /\ Total(f, T) = f[First(T)] + Total(f, u)
      /\ Total(g, T) = g[First(T)] + Total(g, u)
  BY <1>2, <1>3, TotalUnfold
<1>5. First(T) \in T
  BY <1>3, FirstIn
<1>6. Total(g, u) = Total(f, u) * c
  BY <1>1, <1>2, <1>5
<1>7. Total(f, u) \in Int
  <2>1. IsFiniteSet(u) /\ \A x \in u : f[x] \in Int
    BY <1>2, FS_Subset
  <2> HIDE DEF u
  <2> QED
    BY <2>1, TotalInt
<1>8. f[First(T)] \in Int /\ g[First(T)] = f[First(T)] * c
  BY <1>2, <1>5
<1> HIDE DEF u
<1>9. \A a, b \in Int : a * c + b * c = (a + b) * c
  OBVIOUS
<1> QED
  BY <1>2, <1>4, <1>6, <1>7, <1>8, <1>9

(* The number of a set's members is a sum. *)
LEMMA TotalOnes ==
    ASSUME NEW S, IsFiniteSet(S), NEW f, \A x \in S : f[x] = 1
    PROVE  Total(f, S) = Cardinality(S)
<1> DEFINE Bad == {t \in SUBSET S : Total(f, t) # Cardinality(t)}
<1> SUFFICES ASSUME Bad # {} PROVE FALSE  OBVIOUS
<1>1. PICK T \in Bad : \A U \in SUBSET T : U # T => U \notin Bad
  <2>1. Bad \in SUBSET SUBSET S
    OBVIOUS
  <2> HIDE DEF Bad
  <2> QED
    BY <2>1, SmallestSet
<1>2. T \in SUBSET S /\ Total(f, T) # Cardinality(T) /\ IsFiniteSet(T)
  BY <1>1, FS_Subset
<1>3. T # {}
  <2> SUFFICES ASSUME T = {} PROVE FALSE  OBVIOUS
  <2>1. Total(f, T) = 0 /\ Cardinality(T) = 0
    BY <1>2, TotalUnfold, FS_EmptySet
  <2> QED
    BY <1>2, <2>1
<1> DEFINE u == T \ {First(T)}
<1>4. Total(f, T) = f[First(T)] + Total(f, u)
  BY <1>2, <1>3, TotalUnfold
<1>5. First(T) \in T
  BY <1>3, FirstIn
<1>6. Total(f, u) = Cardinality(u)
  BY <1>1, <1>2, <1>5
<1>7. Cardinality(u) = Cardinality(T) - 1 /\ Cardinality(T) \in Nat
  BY <1>2, <1>5, FS_RemoveElement, FS_CardinalityType
<1>8. f[First(T)] = 1
  BY <1>2, <1>5
<1> HIDE DEF u
<1> QED
  BY <1>2, <1>4, <1>6, <1>7, <1>8

-----------------------------------------------------------------------------
(* The sum of a function's values is such a sum. *)
LEMMA SumIsTotal == ASSUME NEW f PROVE SumFunction(f) = Total(f, DOMAIN f)
BY DEF SumFunction, SumFunctionOnSet, FoldFunctionOnSet, MapThenFoldSet, Total, Sums, First

(* It does not depend on what the values are listed under. *)
LEMMA SumRenamed ==
    ASSUME NEW f, IsFiniteSet(DOMAIN f), NEW h, NEW b,
           \A i, j \in DOMAIN f : b[i] = b[j] => i = j,
           DOMAIN h = {b[i] : i \in DOMAIN f},
           \A i \in DOMAIN f : f[i] \in Int /\ f[i] = h[b[i]]
    PROVE  SumFunction(f) = SumFunction(h)
<1>1. Total(f, DOMAIN f) = Total(h, {b[i] : i \in DOMAIN f})
  BY TotalMapped
<1> QED
  BY <1>1, SumIsTotal

-----------------------------------------------------------------------------
(* Products, the same way. *)
Products(g, f, S) ==
    g = [s \in SUBSET S |-> IF s = {} THEN 1 ELSE f[First(s)] * g[s \ {First(s)}]]

Product(f, S) == (CHOOSE g : Products(g, f, S))[S]

LEMMA ProductsUnfold ==
    ASSUME NEW S, NEW f, NEW g, Products(g, f, S)
    PROVE  /\ g[{}] = 1
           /\ \A s \in SUBSET S : s # {} => g[s] = f[First(s)] * g[s \ {First(s)}]
<1>1. {} \in SUBSET S
  OBVIOUS
<1>2. \A s \in SUBSET S : g[s] = IF s = {} THEN 1 ELSE f[First(s)] * g[s \ {First(s)}]
  BY DEF Products
<1> QED
  BY <1>1, <1>2

LEMMA ProductsAgree ==
    ASSUME NEW S, IsFiniteSet(S), NEW T \in SUBSET S, NEW f, NEW g, NEW h,
           Products(g, f, S), Products(h, f, T), NEW s \in SUBSET T
    PROVE  g[s] = h[s]
<1> DEFINE Bad == {t \in SUBSET T : g[t] # h[t]}
<1> SUFFICES ASSUME Bad # {} PROVE FALSE  OBVIOUS
<1>1. Bad \in SUBSET SUBSET S
  OBVIOUS
<1>2. PICK t \in Bad : \A u \in SUBSET t : u # t => u \notin Bad
  <2> HIDE DEF Bad
  <2> QED
    BY <1>1, SmallestSet
<1>3. t \in SUBSET T /\ g[t] # h[t]
  BY <1>2
<1>4. t # {}
  BY <1>3, ProductsUnfold
<1> DEFINE u == t \ {First(t)}
<1>5. g[t] = f[First(t)] * g[u] /\ h[t] = f[First(t)] * h[u]
  <2>1. t \in SUBSET S /\ t \in SUBSET T
    BY <1>3
  <2> HIDE DEF Bad, u
  <2>2. t # {} => g[t] = f[First(t)] * g[t \ {First(t)}]
    BY <2>1, ProductsUnfold
  <2>3. t # {} => h[t] = f[First(t)] * h[t \ {First(t)}]
    BY <2>1, ProductsUnfold
  <2> QED
    BY <1>4, <2>2, <2>3 DEF u
<1>6. u \in SUBSET t /\ u # t /\ u \in SUBSET T
  BY <1>3, <1>4, FirstIn
<1>7. g[u] = h[u]
  BY <1>2, <1>6
<1> QED
  BY <1>3, <1>5, <1>7

LEMMA ProductsExist == ASSUME NEW S, IsFiniteSet(S), NEW f PROVE \E g : Products(g, f, S)
<1> DEFINE Bad == {t \in SUBSET S : ~ \E g : Products(g, f, t)}
<1> SUFFICES ASSUME Bad # {} PROVE FALSE  OBVIOUS
<1>1. PICK T \in Bad : \A U \in SUBSET T : U # T => U \notin Bad
  <2>1. Bad \in SUBSET SUBSET S
    OBVIOUS
  <2> HIDE DEF Bad
  <2> QED
    BY <2>1, SmallestSet
<1>2. T \in SUBSET S /\ ~ \E g : Products(g, f, T)
  BY <1>1
<1>3. \A U \in SUBSET T : U # T => \E g : Products(g, f, U)
  BY <1>1, <1>2
<1> DEFINE G(U) == CHOOSE g : Products(g, f, U)
<1>4. \A U \in SUBSET T : U # T => Products(G(U), f, U) /\ Product(f, U) = G(U)[U]
  BY <1>3 DEF Product
<1> DEFINE product(s) == IF s = T THEN IF T = {} THEN 1 ELSE f[First(T)] * Product(f, T \ {First(T)})
                       ELSE Product(f, s)
           g == [s \in SUBSET T |-> product(s)]
<1>5. \A s \in SUBSET T : g[s] = product(s)
  OBVIOUS
<1>6. ASSUME NEW s \in SUBSET T
      PROVE  g[s] = IF s = {} THEN 1 ELSE f[First(s)] * g[s \ {First(s)}]
  <2>1. CASE s = {}
    <3>1. CASE T = {}
      BY <1>5, <2>1, <3>1
    <3>2. CASE T # {}
      <4>1. g[s] = G({})[{}] /\ Products(G({}), f, {})
        BY <1>4, <1>5, <2>1, <3>2
      <4>2. G({})[{}] = 1
        BY <4>1, ProductsUnfold
      <4> QED
        BY <2>1, <4>1, <4>2
    <3> QED
      BY <3>1, <3>2
  <2>2. CASE s # {}
    <3> DEFINE u == s \ {First(s)}
    <3>1. u \in SUBSET s /\ u # s /\ u # T /\ u \in SUBSET T
      BY <2>2, FirstIn
    <3>2. g[u] = Product(f, u)
      BY <1>5, <3>1
    <3>3. CASE s = T
      BY <1>5, <2>2, <3>2, <3>3
    <3>4. CASE s # T
      <4>1. /\ Products(G(s), f, s) /\ g[s] = G(s)[s]
            /\ Products(G(u), f, u) /\ g[u] = G(u)[u]
        BY <1>4, <1>5, <3>1, <3>2, <3>4
      <4>2. G(s)[s] = f[First(s)] * G(s)[u]
        BY <2>2, <4>1, ProductsUnfold
      <4>3. IsFiniteSet(s)
        BY <1>2, FS_Subset
      <4>4. G(s)[u] = G(u)[u]
        <5> HIDE DEF G, u
        <5> QED
          BY <3>1, <4>1, <4>3, ProductsAgree
      <4> QED
        BY <2>2, <4>1, <4>2, <4>4
    <3> QED
      BY <3>3, <3>4
  <2> QED
    BY <2>1, <2>2
<1>7. g = [s \in SUBSET T |-> g[s]]
  OBVIOUS
<1>8. Products(g, f, T)
  <2> HIDE DEF g
  <2> QED
    BY <1>6, <1>7 DEF Products
<1> QED
  BY <1>2, <1>8

LEMMA ProductUnfold ==
    ASSUME NEW S, IsFiniteSet(S), NEW f
    PROVE  /\ S = {} => Product(f, S) = 1
           /\ S # {} => Product(f, S) = f[First(S)] * Product(f, S \ {First(S)})
<1> DEFINE G(U) == CHOOSE g : Products(g, f, U)
           u == S \ {First(S)}
<1>1. IsFiniteSet(u) /\ u \in SUBSET S
  BY FS_Subset
<1>2. Products(G(S), f, S) /\ Products(G(u), f, u)
  <2> HIDE DEF u
  <2> QED
    BY <1>1, ProductsExist
<1>3. Product(f, S) = G(S)[S] /\ Product(f, u) = G(u)[u]
  BY DEF Product
<1>4. G(S)[u] = G(u)[u]
  <2> HIDE DEF G, u
  <2> QED
    BY <1>1, <1>2, ProductsAgree
<1>5. S = {} => G(S)[S] = 1
  <2> HIDE DEF G
  <2> QED
    BY <1>2, ProductsUnfold
<1>6. S # {} => G(S)[S] = f[First(S)] * G(S)[u]
  <2> HIDE DEF G
  <2> QED
    BY <1>2, ProductsUnfold
<1> HIDE DEF G
<1> QED
  BY <1>3, <1>4, <1>5, <1>6

LEMMA ProductNat ==
    ASSUME NEW S, IsFiniteSet(S), NEW f, \A x \in S : f[x] \in Nat
    PROVE  Product(f, S) \in Nat
<1> DEFINE Bad == {t \in SUBSET S : Product(f, t) \notin Nat}
<1> SUFFICES ASSUME Bad # {} PROVE FALSE  OBVIOUS
<1>1. PICK T \in Bad : \A U \in SUBSET T : U # T => U \notin Bad
  <2>1. Bad \in SUBSET SUBSET S
    OBVIOUS
  <2> HIDE DEF Bad
  <2> QED
    BY <2>1, SmallestSet
<1>2. T \in SUBSET S /\ Product(f, T) \notin Nat /\ IsFiniteSet(T)
  BY <1>1, FS_Subset
<1>3. T # {} /\ Product(f, T) = f[First(T)] * Product(f, T \ {First(T)})
  <2>1. /\ T = {} => Product(f, T) = 1
        /\ T # {} => Product(f, T) = f[First(T)] * Product(f, T \ {First(T)})
    BY <1>2, ProductUnfold
  <2> QED
    BY <1>2, <2>1
<1>4. First(T) \in T
  BY <1>3, FirstIn
<1>5. Product(f, T \ {First(T)}) \in Nat
  BY <1>1, <1>2, <1>4
<1> QED
  BY <1>2, <1>3, <1>4, <1>5

LEMMA ProductWithout ==
    ASSUME NEW S, IsFiniteSet(S), NEW f, \A x \in S : f[x] \in Nat, NEW x \in S
    PROVE  Product(f, S) = f[x] * Product(f, S \ {x})
<1> DEFINE Bad == {t \in SUBSET S : \E y \in t : Product(f, t) # f[y] * Product(f, t \ {y})}
<1> SUFFICES ASSUME Bad # {} PROVE FALSE  OBVIOUS
<1>1. PICK T \in Bad : \A U \in SUBSET T : U # T => U \notin Bad
  <2>1. Bad \in SUBSET SUBSET S
    OBVIOUS
  <2> HIDE DEF Bad
  <2> QED
    BY <2>1, SmallestSet
<1>2. T \in SUBSET S /\ IsFiniteSet(T)
  BY <1>1, FS_Subset
<1>3. PICK y \in T : Product(f, T) # f[y] * Product(f, T \ {y})
  BY <1>1
<1> DEFINE c == First(T)
           without == T \ {c, y}
<1>4. c \in T /\ Product(f, T) = f[c] * Product(f, T \ {c})
  BY <1>2, ProductUnfold, FirstIn
<1> HIDE DEF c
<1>5. c # y
  BY <1>3, <1>4
<1>6. T \ {c} \notin Bad /\ T \ {y} \notin Bad
  BY <1>1, <1>4
<1>7. y \in T \ {c} /\ c \in T \ {y} /\ (T \ {c}) \ {y} = without /\ (T \ {y}) \ {c} = without
  BY <1>4, <1>5
<1>8. T \ {c} \in SUBSET S /\ T \ {y} \in SUBSET S
  BY <1>2
<1>9. Product(f, T \ {c}) = f[y] * Product(f, without)
  BY <1>6, <1>7, <1>8
<1>10. Product(f, T \ {y}) = f[c] * Product(f, without)
  BY <1>6, <1>7, <1>8
<1>11. IsFiniteSet(without) /\ \A z \in without : f[z] \in Nat
  BY <1>2, FS_Subset
<1>12. Product(f, without) \in Nat
  <2> HIDE DEF without
  <2> QED
    BY <1>11, ProductNat
<1>13. f[c] \in Nat /\ f[y] \in Nat
  BY <1>2, <1>4
<1> HIDE DEF without
<1> QED
  BY <1>3, <1>4, <1>9, <1>10, <1>12, <1>13

LEMMA ProductSame ==
    ASSUME NEW S, IsFiniteSet(S), NEW f, NEW g, \A x \in S : f[x] = g[x]
    PROVE  Product(f, S) = Product(g, S)
<1> DEFINE Bad == {t \in SUBSET S : Product(f, t) # Product(g, t)}
<1> SUFFICES ASSUME Bad # {} PROVE FALSE  OBVIOUS
<1>1. PICK T \in Bad : \A U \in SUBSET T : U # T => U \notin Bad
  <2>1. Bad \in SUBSET SUBSET S
    OBVIOUS
  <2> HIDE DEF Bad
  <2> QED
    BY <2>1, SmallestSet
<1>2. T \in SUBSET S /\ Product(f, T) # Product(g, T) /\ IsFiniteSet(T)
  BY <1>1, FS_Subset
<1>3. /\ T # {} /\ Product(f, T) = f[First(T)] * Product(f, T \ {First(T)})
      /\ Product(g, T) = g[First(T)] * Product(g, T \ {First(T)})
  BY <1>2, ProductUnfold
<1>4. First(T) \in T
  BY <1>3, FirstIn
<1>5. Product(f, T \ {First(T)}) = Product(g, T \ {First(T)})
  BY <1>1, <1>2, <1>4
<1> QED
  BY <1>2, <1>3, <1>4, <1>5

LEMMA ProductPositive ==
    ASSUME NEW S, IsFiniteSet(S), NEW f, \A x \in S : f[x] \in Nat \ {0}
    PROVE  Product(f, S) \in Nat \ {0}
<1> DEFINE Bad == {t \in SUBSET S : Product(f, t) \notin Nat \ {0}}
<1> SUFFICES ASSUME Bad # {} PROVE FALSE  OBVIOUS
<1>1. PICK T \in Bad : \A U \in SUBSET T : U # T => U \notin Bad
  <2>1. Bad \in SUBSET SUBSET S
    OBVIOUS
  <2> HIDE DEF Bad
  <2> QED
    BY <2>1, SmallestSet
<1>2. T \in SUBSET S /\ Product(f, T) \notin Nat \ {0} /\ IsFiniteSet(T)
  BY <1>1, FS_Subset
<1>3. T # {} /\ Product(f, T) = f[First(T)] * Product(f, T \ {First(T)})
  <2>1. /\ T = {} => Product(f, T) = 1
        /\ T # {} => Product(f, T) = f[First(T)] * Product(f, T \ {First(T)})
    BY <1>2, ProductUnfold
  <2> QED
    BY <1>2, <2>1
<1>4. First(T) \in T
  BY <1>3, FirstIn
<1>5. Product(f, T \ {First(T)}) \in Nat \ {0} /\ f[First(T)] \in Nat \ {0}
  BY <1>1, <1>2, <1>4
<1>6. \A a, b \in Nat \ {0} : a * b \in Nat \ {0}
  OBVIOUS
<1> QED
  BY <1>2, <1>3, <1>5, <1>6
=============================================================================
