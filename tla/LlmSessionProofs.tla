-------------------------- MODULE LlmSessionProofs --------------------------
(***************************************************************************)
(* Proofs about LlmSession, for any vocabulary, pictures, context length,      *)
(* buckets and costs, prompts and prefill chunk.                              *)
(*                                                                         *)
(* The library's side: plan_split() finds a bucket for every length, and the   *)
(* calls of a prefill take each of its tokens once, so that llm_prefill() as a *)
(* whole (Fills) writes its tokens one after another, whatever the split.      *)
(* LeastCost and Calls are defined by recursion on the tokens left: that a      *)
(* function meets such a definition, and what it holds, is shown by the least   *)
(* number for which it would not.                                             *)
(*                                                                         *)
(* What the calls cost is a sum over the buckets, SumFunction(): a sum of       *)
(* numbers takes each once, whatever the order (SumAdds), so one call more      *)
(* costs its bucket's cost more, and the recurrence is compared with any other  *)
(* mix of calls by taking one call away.                                      *)
(*                                                                         *)
(* The session's side: `cached` mirrors the library's rows or is None; while     *)
(* a prompt is prefilled it is a proper prefix of the prompt, and the picture    *)
(* shown is the one the encoder holds.                                        *)
(***************************************************************************)
EXTENDS LlmSession, SequenceTheorems, FiniteSetTheorems, WellFoundedInduction, TLAPS

-----------------------------------------------------------------------------
(* Numbers.                                                                  *)

LEMMA LeastNumber ==
  ASSUME NEW T \in SUBSET Nat, T # {}
  PROVE  \E x \in T : \A y \in T : x <= y
<1>1. PICK x \in T : \A y \in T : <<y, x>> \notin OpToRel(<, Nat)
  BY NatLessThanWellFounded, WFMin
<1>2. \A y \in T : ~(y < x)
  BY <1>1 DEF OpToRel
<1> QED
  BY <1>2

LEMMA MinIs ==
  ASSUME NEW T \in SUBSET Nat, T # {}
  PROVE  Min(T) \in T /\ \A y \in T : Min(T) <= y
<1>1. \E x \in T : \A y \in T : x <= y
  BY LeastNumber
<1> QED
  BY <1>1 DEF Min

\* A finite set of numbers has a greatest: of its subsets bounded by none of their
\* members, the least would have a smaller one.
LEMMA MaxIs ==
  ASSUME NEW T \in SUBSET Nat, T # {}, IsFiniteSet(T)
  PROVE  Max(T) \in T /\ \A y \in T : y <= Max(T)
<1>1. \E x \in T : \A y \in T : x >= y
  <2> DEFINE above(x) == {y \in T : x < y}
             C == {Cardinality(above(x)) : x \in T}
  <2>1. \A x \in T : above(x) \in SUBSET T /\ IsFiniteSet(above(x)) /\ Cardinality(above(x)) \in Nat
    <3>1. \A x \in T : above(x) \in SUBSET T
      OBVIOUS
    <3> HIDE DEF above
    <3> QED
      BY <3>1, FS_Subset, FS_CardinalityType
  <2>2. C \in SUBSET Nat /\ C # {}
    BY <2>1
  <2> HIDE DEF C
  <2>3. PICK n \in C : \A m \in C : n <= m
    BY <2>2, LeastNumber
  <2>4. PICK x \in T : n = Cardinality(above(x))
    BY <2>3 DEF C
  <2>5. ASSUME NEW y \in T, x < y PROVE FALSE
    <3>1. above(y) \in SUBSET above(x) /\ above(y) # above(x)
      <4>1. x \in Nat /\ y \in Nat /\ T \in SUBSET Nat
        OBVIOUS
      <4>2. y \in above(x) /\ y \notin above(y)
        BY <2>5, <4>1
      <4>3. \A z \in T : y < z => x < z
        BY <2>5, <4>1
      <4> QED
        BY <4>2, <4>3
    <3> HIDE DEF above
    <3>2. Cardinality(above(y)) <= Cardinality(above(x)) /\ Cardinality(above(y)) # Cardinality(above(x))
      BY <2>1, <3>1, FS_Subset
    <3>3. n <= Cardinality(above(y))
      BY <2>3 DEF C
    <3> QED
      BY <2>1, <2>4, <3>2, <3>3
  <2>6. \A y \in T : ~(x < y) /\ x \in Nat /\ y \in Nat
    BY <2>5
  <2>7. \A y \in T : x >= y
    BY <2>6
  <2> QED
    BY <2>7
<1>2. Max(T) \in T /\ \A y \in T : Max(T) >= y
  BY <1>1 DEF Max
<1> QED
  BY <1>2

LEMMA MinTwo == ASSUME NEW a \in Nat, NEW b \in Nat
                PROVE  Min({a, b}) = (IF a <= b THEN a ELSE b)
<1> DEFINE T == {a, b}
           m == Min(T)
<1>1. T \in SUBSET Nat /\ T # {} /\ a \in T /\ b \in T /\ \A x \in T : x = a \/ x = b
  OBVIOUS
<1> HIDE DEF T
<1>2. m \in T /\ \A y \in T : m <= y
  BY <1>1, MinIs
<1> HIDE DEF m
<1>3. m = IF a <= b THEN a ELSE b
  BY <1>1, <1>2
<1> QED
  BY <1>3 DEF m, T

LEMMA MaxZero == ASSUME NEW a \in Int
                 PROVE  Max({a, 0}) = (IF a >= 0 THEN a ELSE 0)
<1> DEFINE T == {a, 0}
           m == Max(T)
           x == IF a >= 0 THEN a ELSE 0
<1>1. x \in T /\ \A y \in T : x >= y
  OBVIOUS
<1>2. a \in T /\ 0 \in T /\ \A y \in T : y \in Int
  OBVIOUS
<1>3. \A y \in T : y = a \/ y = 0
  OBVIOUS
<1> HIDE DEF T
<1>4. m \in T /\ \A y \in T : m >= y
  BY <1>1 DEF Max
<1> HIDE DEF m
<1>5. m = x
  BY <1>1, <1>2, <1>3, <1>4
<1> QED
  BY <1>5 DEF m, T

-----------------------------------------------------------------------------
(* The split of a prefill.  LeastCost and Calls are defined by recursion: that *)
(* a function meets each definition is shown first.                          *)

Body(w, n, f) ==
  IF w = "cost"
  THEN IF n = 0 THEN 0 ELSE Min({cost[b] + f[Max({n - b, 0})] : b \in Buckets})
  ELSE IF n = 0 THEN <<>>
       ELSE <<[left |-> n, rows |-> Min({n, pick[n]}), bucket |-> pick[n]]>> \o f[n - Min({n, pick[n]})]

Meets(w, f, m) == f = [n \in 0 .. m |-> Body(w, n, f)]

\* The definition looks below only.
LooksBelow(w, m) ==
  \A n \in 0 .. m : \A f, g :
    (\A j \in Nat : j < n => f[j] = g[j]) => Body(w, n, f) = Body(w, n, g)

LEMMA MeetsAt ==
  ASSUME NEW w, NEW m \in Nat, NEW f, Meets(w, f, m), NEW n \in 0 .. m
  PROVE  f[n] = Body(w, n, f)
BY DEF Meets

LEMMA SomeMeets ==
  ASSUME NEW w, NEW top \in Nat, LooksBelow(w, top)
  PROVE  \E f : Meets(w, f, top)
<1> DEFINE T == {m \in Nat : m <= top /\ ~\E f : Meets(w, f, m)}
<1>1. SUFFICES ASSUME T # {} PROVE FALSE
  OBVIOUS
<1>2. PICK m \in T : \A k \in T : m <= k
  <2>1. T \in SUBSET Nat
    OBVIOUS
  <2> HIDE DEF T
  <2> QED
    BY <1>1, <2>1, LeastNumber
<1>3. m \in Nat /\ m <= top /\ ~\E f : Meets(w, f, m)
  BY <1>2
<1>4. PICK f : \A n \in 0 .. m : n < m => f[n] = Body(w, n, f)
  <2>1. CASE m = 0
    BY <2>1
  <2>2. CASE m # 0
    <3>1. m - 1 \in Nat /\ m - 1 <= top /\ ~(m <= m - 1)
      BY <1>3, <2>2
    <3>2. PICK f : Meets(w, f, m - 1)
      BY <1>2, <3>1
    <3>3. ASSUME NEW n \in 0 .. m, n < m PROVE f[n] = Body(w, n, f)
      <4>1. n \in 0 .. m - 1
        BY <1>3, <3>3
      <4> DEFINE k == m - 1
      <4>2. k \in Nat /\ n \in 0 .. k /\ Meets(w, f, k)
        BY <3>1, <3>2, <4>1
      <4> HIDE DEF k
      <4> QED
        BY <4>2, MeetsAt
    <3> QED
      BY <3>3
  <2> QED
    BY <2>1, <2>2
<1> DEFINE g == [n \in 0 .. m |-> Body(w, n, f)]
<1>5. ASSUME NEW n \in 0 .. m PROVE g[n] = Body(w, n, g)
  <2>1. \A j \in Nat : j < n => g[j] = f[j]
    <3>1. SUFFICES ASSUME NEW j \in Nat, j < n PROVE g[j] = f[j]
      OBVIOUS
    <3>2. j \in 0 .. m /\ j < m
      BY <1>3, <3>1
    <3> QED
      BY <1>4, <3>2
  <2>2. n \in 0 .. top
    BY <1>3
  <2>3. g[n] = Body(w, n, f)
    OBVIOUS
  <2> HIDE DEF g
  <2> QED
    BY <2>1, <2>2, <2>3 DEF LooksBelow
<1>6. g = [n \in 0 .. m |-> g[n]]
  OBVIOUS
<1> HIDE DEF g
<1>7. Meets(w, g, m)
  BY <1>5, <1>6 DEF Meets
<1> QED
  BY <1>3, <1>7

CostOK == cost \in [Buckets -> Nat]

LEMMA BucketIs == ASSUME NEW b \in Buckets PROVE b \in Nat /\ b >= 1
BY LibraryAssumption

LEMMA CostBelow == LooksBelow("cost", Context)
<1> SUFFICES ASSUME NEW n \in 0 .. Context, NEW f, NEW g, \A j \in Nat : j < n => f[j] = g[j]
             PROVE  Body("cost", n, f) = Body("cost", n, g)
  BY DEF LooksBelow
<1>1. CASE n = 0
  BY <1>1 DEF Body
<1>2. CASE n # 0
  <2>1. n \in Nat /\ n > 0
    BY <1>2, LibraryAssumption
  <2>2. ASSUME NEW b \in Buckets PROVE f[Max({n - b, 0})] = g[Max({n - b, 0})]
    <3>1. b \in Nat /\ b >= 1
      BY BucketIs
    <3>2. Max({n - b, 0}) = IF n - b >= 0 THEN n - b ELSE 0
      <4> DEFINE a == n - b
      <4>1. a \in Int
        BY <2>1, <3>1
      <4> HIDE DEF a
      <4>2. Max({a, 0}) = IF a >= 0 THEN a ELSE 0
        BY <4>1, MaxZero
      <4> QED
        BY <4>2 DEF a
    <3> DEFINE x == Max({n - b, 0})
    <3>3. x \in Nat /\ x < n
      BY <2>1, <3>1, <3>2
    <3> HIDE DEF x
    <3>4. f[x] = g[x]
      BY <3>3
    <3> QED
      BY <3>4 DEF x
  <2>3. {cost[b] + f[Max({n - b, 0})] : b \in Buckets} = {cost[b] + g[Max({n - b, 0})] : b \in Buckets}
    BY <2>2
  <2> QED
    BY <2>3 DEF Body
<1> QED
  BY <1>1, <1>2

LEMMA LeastCostIs ==
  ASSUME NEW r \in 0 .. Context
  PROVE  LeastCost[r] = (IF r = 0 THEN 0
                         ELSE Min({cost[b] + LeastCost[Max({r - b, 0})] : b \in Buckets}))
<1>1. LeastCost = CHOOSE f : Meets("cost", f, Context)
  BY DEF LeastCost, Meets, Body
<1>2. Context \in Nat
  BY LibraryAssumption
<1>3. Meets("cost", LeastCost, Context)
  BY <1>1, <1>2, CostBelow, SomeMeets
<1>4. LeastCost[r] = Body("cost", r, LeastCost)
  BY <1>2, <1>3, MeetsAt
<1> QED
  BY <1>4 DEF Body

LEMMA LeastCostType ==
  ASSUME CostOK
  PROVE  \A r \in 0 .. Context : LeastCost[r] \in Nat
<1> DEFINE T == {r \in 0 .. Context : LeastCost[r] \notin Nat}
<1>1. SUFFICES ASSUME T # {} PROVE FALSE
  OBVIOUS
<1>2. PICK r \in T : \A k \in T : r <= k
  <2>1. T \in SUBSET Nat
    OBVIOUS
  <2> HIDE DEF T
  <2> QED
    BY <1>1, <2>1, LeastNumber
<1>3. r \in 0 .. Context /\ LeastCost[r] \notin Nat /\ Context \in Nat
  BY <1>2, LibraryAssumption
<1>4. r # 0
  <2>1. 0 \in 0 .. Context
    BY <1>3
  <2>2. LeastCost[0] = 0
    BY <2>1, LeastCostIs
  <2> QED
    BY <1>3, <2>2
<1> DEFINE S == {cost[b] + LeastCost[Max({r - b, 0})] : b \in Buckets}
<1>5. ASSUME NEW b \in Buckets PROVE cost[b] + LeastCost[Max({r - b, 0})] \in Nat
  <2>1. b \in Nat /\ b >= 1 /\ cost[b] \in Nat
    BY BucketIs DEF CostOK
  <2>2. Max({r - b, 0}) = IF r - b >= 0 THEN r - b ELSE 0
    <3> DEFINE a == r - b
    <3>1. a \in Int
      BY <1>3, <2>1
    <3> HIDE DEF a
    <3>2. Max({a, 0}) = IF a >= 0 THEN a ELSE 0
      BY <3>1, MaxZero
    <3> QED
      BY <3>2 DEF a
  <2> DEFINE x == Max({r - b, 0})
  <2>3. x \in 0 .. Context /\ ~(r <= x)
    BY <1>3, <1>4, <2>1, <2>2
  <2> HIDE DEF x
  <2>4. LeastCost[x] \in Nat
    BY <1>2, <2>3
  <2> QED
    BY <2>1, <2>4 DEF x
<1>6. S \in SUBSET Nat /\ S # {}
  <2>1. Buckets # {}
    BY LibraryAssumption
  <2> QED
    BY <1>5, <2>1
<1>7. LeastCost[r] = Min(S)
  BY <1>3, <1>4, LeastCostIs
<1> HIDE DEF S
<1> QED
  BY <1>3, <1>6, <1>7, MinIs

\* Every length has a bucket to begin with.
LEMMA PlanType == ASSUME CostOK PROVE Plan \in [1 .. Context -> Buckets]
<1> SUFFICES ASSUME NEW r \in 1 .. Context
             PROVE  Max({b \in Buckets : cost[b] + LeastCost[Max({r - b, 0})] = LeastCost[r]}) \in Buckets
  BY DEF Plan
<1> DEFINE S == {cost[b] + LeastCost[Max({r - b, 0})] : b \in Buckets}
           B == {b \in Buckets : cost[b] + LeastCost[Max({r - b, 0})] = LeastCost[r]}
<1>1. r \in 0 .. Context /\ r # 0 /\ r \in Nat /\ r <= Context /\ Context \in Nat
  BY LibraryAssumption
<1>2. LeastCost[r] = Min(S) /\ LeastCost[r] \in Nat
  BY <1>1, LeastCostIs, LeastCostType
<1>3. S \in SUBSET Nat /\ S # {}
  <2>1. ASSUME NEW b \in Buckets PROVE cost[b] + LeastCost[Max({r - b, 0})] \in Nat
    <3>1. b \in Nat /\ b >= 1 /\ cost[b] \in Nat
      BY BucketIs DEF CostOK
    <3>2. Max({r - b, 0}) = IF r - b >= 0 THEN r - b ELSE 0
      <4> DEFINE a == r - b
      <4>1. a \in Int
        BY <1>1, <3>1
      <4> HIDE DEF a
      <4>2. Max({a, 0}) = IF a >= 0 THEN a ELSE 0
        BY <4>1, MaxZero
      <4> QED
        BY <4>2 DEF a
    <3> DEFINE x == Max({r - b, 0})
    <3>3. x \in 0 .. Context
      BY <1>1, <3>1, <3>2
    <3> HIDE DEF x
    <3>4. LeastCost[x] \in Nat
      BY <3>3, LeastCostType
    <3> QED
      BY <3>1, <3>4 DEF x
  <2> QED
    BY <2>1, LibraryAssumption
<1>4. B # {}
  <2>1. LeastCost[r] \in S
    <3> HIDE DEF S
    <3> QED
      BY <1>2, <1>3, MinIs
  <2> QED
    BY <2>1
<1>5. B \in SUBSET Buckets /\ B \in SUBSET Nat /\ IsFiniteSet(B)
  <2>1. B \in SUBSET Buckets
    OBVIOUS
  <2> HIDE DEF B
  <2> QED
    BY <2>1, LibraryAssumption, FS_Subset
<1> HIDE DEF B
<1>6. Max(B) \in B
  BY <1>4, <1>5, MaxIs
<1>7. Max(B) \in Buckets
  BY <1>5, <1>6
<1> QED
  BY <1>7 DEF B

-----------------------------------------------------------------------------
(* The calls of a prefill take its tokens, each once.                         *)

PickOK == pick \in [1 .. Context -> Buckets]

LEMMA FirstTakes ==
  ASSUME PickOK, NEW n \in 1 .. Context
  PROVE  Min({n, pick[n]}) \in 1 .. n /\ pick[n] \in Nat
<1> DEFINE p == pick[n]
<1>1. p \in Nat /\ p >= 1
  BY BucketIs DEF PickOK
<1> HIDE DEF p
<1>2. n \in Nat /\ n >= 1
  BY LibraryAssumption
<1>3. Min({n, p}) = IF n <= p THEN n ELSE p
  BY <1>1, <1>2, MinTwo
<1>4. Min({n, p}) \in 1 .. n /\ p \in Nat
  BY <1>1, <1>2, <1>3
<1> QED
  BY <1>4 DEF p

LEMMA CallsBelow == ASSUME PickOK PROVE LooksBelow("calls", Context)
<1> SUFFICES ASSUME NEW n \in 0 .. Context, NEW f, NEW g, \A j \in Nat : j < n => f[j] = g[j]
             PROVE  Body("calls", n, f) = Body("calls", n, g)
  BY DEF LooksBelow
<1>1. CASE n = 0
  BY <1>1 DEF Body
<1>2. CASE n # 0
  <2>1. n \in 1 .. Context /\ n \in Nat
    BY <1>2, LibraryAssumption
  <2> DEFINE k == Min({n, pick[n]})
  <2>2. k \in 1 .. n
    BY <2>1, FirstTakes
  <2> HIDE DEF k
  <2> DEFINE j == n - k
  <2>3. j \in Nat /\ j < n
    BY <2>1, <2>2
  <2> HIDE DEF j
  <2>4. f[j] = g[j]
    BY <2>3
  <2> QED
    BY <1>2, <2>4 DEF Body, j, k
<1> QED
  BY <1>1, <1>2

LEMMA CallsIs ==
  ASSUME PickOK, NEW n \in 0 .. Context
  PROVE  Calls[n] = IF n = 0 THEN <<>>
                    ELSE <<[left |-> n, rows |-> Min({n, pick[n]}), bucket |-> pick[n]]>>
                         \o Calls[n - Min({n, pick[n]})]
<1>1. Calls = CHOOSE f : Meets("calls", f, Context)
  BY DEF Calls, Meets, Body
<1>2. Context \in Nat
  BY LibraryAssumption
<1>3. Meets("calls", Calls, Context)
  BY <1>1, <1>2, CallsBelow, SomeMeets
<1>4. Calls[n] = Body("calls", n, Calls)
  BY <1>2, <1>3, MeetsAt
<1> QED
  BY <1>4 DEF Body

Call == [left : Nat, rows : Nat, bucket : Nat]

\* The tokens a call takes, counted from the last one of the prefill.
Places(c) == {c.left - i : i \in 0 .. c.rows - 1}

Covers(s, n) == s \in Seq(Call) /\ UNION {Places(s[j]) : j \in 1 .. Len(s)} = 1 .. n

LEMMA CallCovers ==
  ASSUME NEW n \in Nat, NEW k \in 1 .. n, NEW b \in Nat, NEW s, Covers(s, n - k)
  PROVE  Covers(<<[left |-> n, rows |-> k, bucket |-> b]>> \o s, n)
<1> DEFINE c == [left |-> n, rows |-> k, bucket |-> b]
           u == <<c>> \o s
<1>1. c \in Call /\ c.left = n /\ c.rows = k
  BY DEF Call
<1>2. Places(c) = n - k + 1 .. n
  <2>1. ASSUME NEW q \in n - k + 1 .. n PROVE q \in Places(c)
    <3>1. n - q \in 0 .. k - 1 /\ q = n - (n - q)
      OBVIOUS
    <3> QED
      BY <1>1, <3>1 DEF Places
  <2>2. ASSUME NEW q \in Places(c) PROVE q \in n - k + 1 .. n
    BY <1>1 DEF Places
  <2> QED
    BY <2>1, <2>2
<1> HIDE DEF c
<1>3. s \in Seq(Call) /\ UNION {Places(s[j]) : j \in 1 .. Len(s)} = 1 .. n - k
  BY DEF Covers
<1>4. u \in Seq(Call) /\ Len(u) = 1 + Len(s) /\ u[1] = c /\ \A j \in 1 .. Len(s) : u[j + 1] = s[j]
  BY <1>1, <1>3
<1> HIDE DEF u
<1>5. ASSUME NEW x PROVE x \in UNION {Places(u[j]) : j \in 1 .. Len(u)}
                        <=> x \in Places(c) \cup UNION {Places(s[j]) : j \in 1 .. Len(s)}
  <2>1. ASSUME NEW j \in 1 .. Len(u), x \in Places(u[j])
        PROVE  x \in Places(c) \cup UNION {Places(s[i]) : i \in 1 .. Len(s)}
    <3>1. CASE j = 1
      BY <1>4, <2>1, <3>1
    <3>2. CASE j # 1
      <4>1. j - 1 \in 1 .. Len(s) /\ (j - 1) + 1 = j
        BY <1>3, <1>4, <3>2
      <4>2. u[j] = s[j - 1]
        BY <1>4, <4>1
      <4> QED
        BY <2>1, <4>1, <4>2
    <3> QED
      BY <3>1, <3>2
  <2>2. ASSUME x \in Places(c) PROVE x \in UNION {Places(u[j]) : j \in 1 .. Len(u)}
    <3>1. 1 \in 1 .. Len(u)
      BY <1>3, <1>4
    <3> QED
      BY <1>4, <2>2, <3>1
  <2>3. ASSUME NEW j \in 1 .. Len(s), x \in Places(s[j])
        PROVE  x \in UNION {Places(u[i]) : i \in 1 .. Len(u)}
    <3>1. j + 1 \in 1 .. Len(u)
      BY <1>3, <1>4
    <3>2. u[j + 1] = s[j]
      BY <1>4
    <3> QED
      BY <2>3, <3>1, <3>2
  <2> QED
    BY <2>1, <2>2, <2>3
<1>6. UNION {Places(u[j]) : j \in 1 .. Len(u)} = Places(c) \cup UNION {Places(s[j]) : j \in 1 .. Len(s)}
  BY <1>5
<1>7. (n - k + 1 .. n) \cup (1 .. n - k) = 1 .. n
  OBVIOUS
<1>8. UNION {Places(u[j]) : j \in 1 .. Len(u)} = 1 .. n
  BY <1>2, <1>3, <1>6, <1>7
<1> QED
  BY <1>4, <1>8 DEF u, c, Covers

LEMMA CallsCover ==
  ASSUME PickOK
  PROVE  \A n \in 0 .. Context : Covers(Calls[n], n)
<1> DEFINE T == {n \in 0 .. Context : ~Covers(Calls[n], n)}
<1>1. SUFFICES ASSUME T # {} PROVE FALSE
  OBVIOUS
<1>2. PICK n \in T : \A k \in T : n <= k
  <2>1. T \in SUBSET Nat
    OBVIOUS
  <2> HIDE DEF T
  <2> QED
    BY <1>1, <2>1, LeastNumber
<1>3. n \in 0 .. Context /\ ~Covers(Calls[n], n) /\ Context \in Nat /\ n \in Nat /\ n <= Context
  BY <1>2, LibraryAssumption
<1>4. CASE n = 0
  <2>1. Calls[n] = <<>>
    BY <1>3, <1>4, CallsIs
  <2>2. Covers(<<>>, 0)
    BY DEF Covers
  <2> QED
    BY <1>3, <1>4, <2>1, <2>2
<1>5. CASE n # 0
  <2> DEFINE k == Min({n, pick[n]})
             b == pick[n]
  <2>1. n \in 1 .. Context
    BY <1>3, <1>5
  <2>2. k \in 1 .. n /\ b \in Nat
    BY <2>1, FirstTakes
  <2>3. Calls[n] = <<[left |-> n, rows |-> k, bucket |-> b]>> \o Calls[n - k]
    BY <1>3, <1>5, CallsIs
  <2> HIDE DEF k, b
  <2> DEFINE r == n - k
  <2>4. r \in 0 .. Context /\ ~(n <= r)
    BY <1>3, <2>2
  <2>5. Covers(Calls[r], r)
    <3> HIDE DEF r
    <3> QED
      BY <1>2, <2>4
  <2>6. Covers(<<[left |-> n, rows |-> k, bucket |-> b]>> \o Calls[n - k], n)
    BY <1>3, <2>2, <2>5, CallCovers
  <2> QED
    BY <1>3, <2>3, <2>6
<1> QED
  BY <1>4, <1>5

\* What llm_prefill() does of a prompt, its calls put together.
Fills(ids) ==
  /\ pos' = pos + Len(ids)
  /\ kv' = [p \in DOMAIN kv |-> IF p \in pos .. pos + Len(ids) - 1 THEN RowOf(ids[p - pos + 1]) ELSE kv[p]]
  /\ UNCHANGED <<cost, pick, open, encoded>>

LEMMA PrefillFills ==
  ASSUME PickOK, NEW ids, Len(ids) \in 0 .. Context, pos \in Nat, Prefill(ids)
  PROVE  Fills(ids)
<1> DEFINE n == Len(ids)
           s == Calls[n]
           w == UNION {{pos + n - c.left + i : i \in 0 .. c.rows - 1} : c \in Range(s)}
<1>1. n \in Nat /\ Context \in Nat
  BY LibraryAssumption
<1>2. s \in Seq(Call) /\ UNION {Places(s[j]) : j \in 1 .. Len(s)} = 1 .. n
  BY CallsCover DEF Covers
<1>3. /\ kv' = [p \in DOMAIN kv |-> IF p \in w THEN RowOf(ids[p - pos + 1]) ELSE kv[p]]
      /\ pos' = pos + Cardinality(w)
      /\ UNCHANGED <<cost, pick, open, encoded>>
  BY DEF Prefill
<1> HIDE DEF n, s
<1>4. ASSUME NEW j \in 1 .. Len(s)
      PROVE  \E l, m \in Nat : s[j].left = l /\ s[j].rows = m
  <2>1. s \in Seq(Call)
    BY <1>2
  <2>2. s[j] \in Call
    BY <2>1
  <2> QED
    BY <2>2 DEF Call
<1>5. w = pos .. pos + n - 1
  <2>1. ASSUME NEW x \in w PROVE x \in pos .. pos + n - 1
    <3>1. PICK c \in Range(s) : x \in {pos + n - c.left + i : i \in 0 .. c.rows - 1}
      BY <2>1
    <3>2. PICK j \in 1 .. Len(s) : c = s[j]
      BY <1>2, <3>1 DEF Range
    <3>3. PICK l \in Nat, m \in Nat : c.left = l /\ c.rows = m
      BY <1>4, <3>2
    <3>4. PICK i \in 0 .. m - 1 : x = pos + n - l + i
      BY <3>1, <3>3
    <3>5. l - i \in Places(s[j])
      BY <3>2, <3>3, <3>4 DEF Places
    <3>6. l - i \in 1 .. n
      BY <1>2, <3>5
    <3> QED
      BY <1>1, <3>4, <3>6
  <2>2. ASSUME NEW x \in pos .. pos + n - 1 PROVE x \in w
    <3> DEFINE q == pos + n - x
    <3>1. x \in Int /\ q \in 1 .. n /\ x = pos + n - q
      BY <1>1
    <3> HIDE DEF q
    <3>2. PICK j \in 1 .. Len(s) : q \in Places(s[j])
      BY <1>2, <3>1
    <3>3. PICK l \in Nat, m \in Nat : s[j].left = l /\ s[j].rows = m
      BY <1>4
    <3>4. PICK i \in 0 .. m - 1 : q = l - i
      BY <3>2, <3>3 DEF Places
    <3>5. x = pos + n - l + i
      BY <1>1, <3>1, <3>4
    <3>6. s[j] \in Range(s)
      BY <1>2 DEF Range
    <3> QED
      BY <3>3, <3>4, <3>5, <3>6
  <2> QED
    BY <2>1, <2>2
<1>6. Cardinality(pos .. pos + n - 1) = n
  BY <1>1, FS_Interval
<1> QED
  BY <1>1, <1>3, <1>5, <1>6 DEF Fills, n

-----------------------------------------------------------------------------
(* The inductive invariant                                                    *)

CacheRow == Vocab \cup Pictured \cup {Blank}
AnyKey == Vocab \cup (Images \X (0 .. Rows - 1))

LibInv ==
  /\ cost \in Costs /\ open \in BOOLEAN
  /\ pos \in 0 .. Context /\ (open <=> pos >= 1)
  /\ pick \in [1 .. Context -> Buckets \cup {0}] /\ (open => PickOK)
  /\ kv \in [1 .. Context - 1 -> CacheRow]
  /\ encoded \in Images \cup {Blank}

SesType ==
  /\ vision \in BOOLEAN /\ begun \in BOOLEAN /\ spoilt \in BOOLEAN
  /\ at \in {"unloaded", "idle", "prompt", "prefill", "sample", "token"}
  /\ (at = "unloaded" <=> ~open)
  /\ shown \in Images \cup {Nil}

\* `cached` is what the library holds, or nothing.
Mirror ==
  cached # Nil => /\ open /\ cached \in Seq(AnyKey) /\ pos = 1 + Len(cached)
                  /\ \A i \in 1 .. Len(cached) : kv[i] = cached[i]

Kept == open /\ ~spoilt => cached # Nil

Prompt ==
  at \in {"prompt", "prefill"} =>
    /\ body \in Seq(Keys(vision)) /\ Len(body) >= 1 /\ 1 + Len(body) <= Context
    /\ history = body

Filling ==
  at = "prefill" => /\ cached # Nil /\ Len(cached) < Len(body)
                    /\ \A i \in 1 .. Len(cached) : cached[i] = body[i]
                    /\ (shown # Nil => encoded = shown)

Answers ==
  /\ at = "sample" => cached # Nil /\ history = cached
  /\ at = "token" => cached # Nil /\ \E t \in Vocab : history = Append(cached, t)

SesInv == SesType /\ Mirror /\ Kept /\ Prompt /\ Filling /\ Answers
LlmInv == LibInv /\ SesInv

-----------------------------------------------------------------------------
(* The library's calls keep its part.                                         *)

LEMMA CostType == ASSUME cost \in Costs PROVE CostOK
BY LibraryAssumption DEF CostOK

LEMMA OpenKeeps == ASSUME LibInv, Open PROVE LibInv' /\ pos' = 1 /\ open'
<1>1. Plan \in [1 .. Context -> Buckets]
  BY CostType, PlanType DEF LibInv
<1>2. PickOK'
  BY <1>1 DEF Open, PickOK
<1>3. pick' \in [1 .. Context -> Buckets \cup {0}]
  BY <1>1 DEF Open
<1>4. kv' \in [1 .. Context - 1 -> CacheRow]
  BY DEF LibInv, Open, CacheRow
<1>5. pos' = 1 /\ pos' \in 0 .. Context /\ open' = TRUE /\ encoded' = Blank /\ cost' = cost
  BY LibraryAssumption DEF Open
<1> QED
  BY <1>2, <1>3, <1>4, <1>5 DEF LibInv, CacheRow

LEMMA CloseKeeps == ASSUME LibInv, Close PROVE LibInv' /\ ~open'
<1>1. pos' = 0 /\ open' = FALSE /\ UNCHANGED <<cost, pick, kv, encoded>>
  BY DEF Close
<1>2. pos' \in 0 .. Context /\ (open' <=> pos' >= 1)
  BY <1>1, LibraryAssumption
<1> QED
  BY <1>1, <1>2 DEF LibInv, CacheRow

LEMMA TruncateKeeps == ASSUME LibInv, NEW n, Truncate(n) PROVE LibInv' /\ open /\ open'
<1>1. open /\ n \in 1 .. pos /\ pos' = n /\ UNCHANGED <<cost, pick, open, kv, encoded>>
  BY DEF Truncate, TruncateAccepts
<1>2. pos' \in 0 .. Context /\ pos' >= 1
  BY <1>1, LibraryAssumption DEF LibInv
<1>3. PickOK'
  BY <1>1 DEF LibInv, PickOK
<1> QED
  BY <1>1, <1>2, <1>3 DEF LibInv, CacheRow

LEMMA EncodeKeeps == ASSUME LibInv, NEW i \in Images, EncodeImage(i) PROVE LibInv' /\ open /\ open'
<1>1. open /\ encoded' = i /\ UNCHANGED <<cost, pick, open, pos, kv>>
  BY DEF EncodeImage
<1>2. PickOK'
  BY <1>1 DEF LibInv, PickOK
<1> QED
  BY <1>1, <1>2 DEF LibInv, CacheRow

LEMMA DecodeKeeps ==
  ASSUME LibInv, NEW t, Decode(t)
  PROVE  LibInv' /\ open /\ open' /\ pos' = pos + 1 /\ pos \in 1 .. Context - 1 /\ kv' = [kv EXCEPT ![pos] = t]
<1>1. open /\ pos + 1 <= Context /\ t \in Vocab /\ kv' = [kv EXCEPT ![pos] = t] /\ pos' = pos + 1
      /\ UNCHANGED <<cost, pick, open, encoded>>
  BY DEF Decode, DecodeAccepts, Fits
<1>2. pos \in 1 .. Context - 1 /\ pos' \in 0 .. Context /\ pos' >= 1
  BY <1>1, LibraryAssumption DEF LibInv
<1>3. PickOK'
  BY <1>1 DEF LibInv, PickOK
<1>4. kv' \in [1 .. Context - 1 -> CacheRow]
  BY <1>1, <1>2 DEF LibInv, CacheRow
<1> QED
  BY <1>1, <1>2, <1>3, <1>4 DEF LibInv, CacheRow

LEMMA RowOfType ==
  ASSUME LibInv, NEW id \in Vocab \cup RowIds
  PROVE  RowOf(id) \in CacheRow
<1>1. CASE id \in RowIds
  <2>1. PICK r \in 0 .. Rows - 1 : id = <<"row", r>>
    BY <1>1 DEF RowIds
  <2>2. id[2] = r
    BY <2>1
  <2>3. <<encoded, r>> \in Pictured
    BY DEF Pictured, LibInv
  <2> QED
    BY <1>1, <2>2, <2>3 DEF RowOf, CacheRow
<1>2. CASE id \notin RowIds
  BY <1>2 DEF RowOf, CacheRow
<1> QED
  BY <1>1, <1>2

LEMMA PrefillKeeps ==
  ASSUME LibInv, NEW ids, Len(ids) \in Nat, Prefill(ids)
  PROVE  LibInv' /\ open /\ open' /\ Fills(ids)
<1>1. open /\ Len(ids) >= 1 /\ pos + Len(ids) <= Context /\ \A i \in 1 .. Len(ids) : ids[i] \in Vocab \cup RowIds
  BY DEF Prefill, PrefillAccepts, Fits
<1>2. pos \in Nat /\ pos >= 1 /\ PickOK /\ Context \in Nat
  BY <1>1, LibraryAssumption DEF LibInv
<1>3. Len(ids) \in 0 .. Context
  BY <1>1, <1>2
<1>4. Fills(ids)
  BY <1>2, <1>3, PrefillFills
<1>5. UNCHANGED <<cost, pick, open, encoded>> /\ pos' = pos + Len(ids)
  BY <1>4 DEF Fills
<1>6. pos' \in 0 .. Context /\ pos' >= 1
  BY <1>1, <1>2, <1>5
<1>7. PickOK'
  BY <1>2, <1>5 DEF PickOK
<1>8. kv' \in [1 .. Context - 1 -> CacheRow]
  <2>1. DOMAIN kv = 1 .. Context - 1 /\ \A p \in 1 .. Context - 1 : kv[p] \in CacheRow
    BY DEF LibInv
  <2>2. ASSUME NEW p \in 1 .. Context - 1, p \in pos .. pos + Len(ids) - 1
        PROVE  RowOf(ids[p - pos + 1]) \in CacheRow
    <3>1. p - pos + 1 \in 1 .. Len(ids)
      BY <1>2, <2>2
    <3>2. ids[p - pos + 1] \in Vocab \cup RowIds
      BY <1>1, <3>1
    <3> QED
      BY <3>2, RowOfType
  <2> QED
    BY <1>4, <2>1, <2>2 DEF Fills
<1> QED
  BY <1>1, <1>4, <1>5, <1>6, <1>7, <1>8 DEF LibInv

-----------------------------------------------------------------------------
(* Keys and segments                                                         *)

LEMMA KeyIs ==
  ASSUME SesType, NEW k \in Keys(vision)
  PROVE  /\ k \in AnyKey
         /\ IsRow(k) => vision /\ \E i \in Images, r \in 0 .. Rows - 1 : k = <<i, r>>
         /\ ~IsRow(k) => k \in Vocab
BY DEF SesType, Keys, AnyKey, IsRow

LEMMA NilIs == Nil \notin Images /\ Nil \notin Seq(AnyKey)
<1>1. Keys(TRUE) = AnyKey
  BY DEF Keys, AnyKey
<1> QED
  BY <1>1, NilAssumption

\* A segment: something of what is new, any pictures in it that of its last row.
SegmentOf(s, new) ==
  \E n \in 1 .. Len(new) :
    /\ s = SubSeq(new, 1, n)
    /\ \A i \in 1 .. n : IsRow(new[i]) => IsRow(new[n]) /\ new[i][1] = new[n][1]

LEMMA UpToImageIs ==
  ASSUME NEW S, NEW new \in Seq(S), Len(new) >= 1
  PROVE  SegmentOf(UpToImage(new), new)
<1> DEFINE rows == {i \in 1 .. Len(new) : IsRow(new[i])}
           first == Min(rows)
           of(i) == IsRow(new[i]) /\ new[i][1] = new[first][1]
           E == {j \in rows : \A i \in first .. j : of(i)}
           m == Max(E)
<1>1. Len(new) \in Nat /\ Len(new) \in 1 .. Len(new)
  OBVIOUS
<1>2. CASE rows = {}
  <2>1. UpToImage(new) = SubSeq(new, 1, Len(new))
    BY <1>2 DEF UpToImage
  <2>2. \A i \in 1 .. Len(new) : ~IsRow(new[i])
    BY <1>2
  <2> QED
    BY <1>1, <2>1, <2>2 DEF SegmentOf
<1>3. CASE rows # {}
  <2>1. UpToImage(new) = SubSeq(new, 1, m)
    BY <1>3 DEF UpToImage
  <2>2. rows \in SUBSET Nat /\ rows \in SUBSET (1 .. Len(new)) /\ \A i \in rows : IsRow(new[i])
    OBVIOUS
  <2>3. \A i \in 1 .. Len(new) : IsRow(new[i]) => i \in rows
    OBVIOUS
  <2> HIDE DEF rows
  <2>4. first \in rows /\ \A i \in rows : first <= i
    BY <1>3, <2>2, MinIs
  <2> HIDE DEF first
  <2>5. first \in E
    <3>1. \A i \in first .. first : i = first
      BY <2>2, <2>4
    <3> QED
      BY <2>2, <2>4, <3>1
  <2>6. E \in SUBSET Nat /\ IsFiniteSet(E)
    <3>1. E \in SUBSET (1 .. Len(new))
      BY <2>2
    <3> HIDE DEF E
    <3>2. IsFiniteSet(1 .. Len(new))
      BY <1>1, FS_Interval
    <3>3. E \in SUBSET Nat
      BY <3>1
    <3>4. IsFiniteSet(E)
      BY <3>1, <3>2, FS_Subset
    <3> QED
      BY <3>3, <3>4
  <2>7. m \in E /\ first <= m
    <3> HIDE DEF E
    <3> QED
      BY <2>5, <2>6, MaxIs
  <2>8. m \in 1 .. Len(new) /\ \A i \in first .. m : of(i)
    BY <2>2, <2>7
  <2> HIDE DEF m
  <2>9. ASSUME NEW i \in 1 .. m, IsRow(new[i]) PROVE IsRow(new[m]) /\ new[i][1] = new[m][1]
    <3>1. i \in 1 .. Len(new)
      BY <2>8
    <3>2. i \in rows /\ first <= i
      BY <2>3, <2>4, <2>9, <3>1
    <3>3. first \in Nat /\ m \in Nat /\ i \in Nat /\ i <= m
      BY <2>2, <2>4, <2>8
    <3>4. i \in first .. m /\ m \in first .. m
      BY <2>7, <3>2, <3>3
    <3> QED
      BY <2>8, <3>4
  <2> QED
    BY <2>1, <2>8, <2>9 DEF SegmentOf
<1> QED
  BY <1>2, <1>3

LEMMA UpToChunkIs ==
  ASSUME NEW S, NEW new \in Seq(S), Len(new) >= 1, \A i \in 1 .. Len(new) : ~IsRow(new[i])
  PROVE  SegmentOf(UpToChunk(new), new)
<1> DEFINE l == Len(new)
           n == IF Chunk = 0 THEN l ELSE Min({Chunk, l})
<1>1. l \in Nat /\ l >= 1 /\ Chunk \in Nat
  BY SessionAssumption
<1>2. n \in 1 .. l
  <2> HIDE DEF l
  <2>1. Min({Chunk, l}) = IF Chunk <= l THEN Chunk ELSE l
    BY <1>1, MinTwo
  <2> QED
    BY <1>1, <2>1
<1>3. UpToChunk(new) = SubSeq(new, 1, n)
  BY DEF UpToChunk
<1> HIDE DEF n
<1> QED
  BY <1>2, <1>3 DEF SegmentOf

\* What the session's segment is while it fills the cache.
Ready ==
  /\ New \in Seq(Keys(vision)) /\ Len(New) = Len(body) - Len(cached) /\ Len(New) \in Nat
  /\ \A i \in 1 .. Len(New) : New[i] = body[Len(cached) + i]
  /\ SegmentOf(Segment, New)

LEMMA SegmentIs ==
  ASSUME SesInv, at = "prefill"
  PROVE  Ready
<1>1. /\ body \in Seq(Keys(vision)) /\ Len(body) \in Nat
      /\ cached \in Seq(AnyKey) /\ Len(cached) \in Nat /\ Len(cached) < Len(body)
  BY DEF SesInv, Prompt, Filling, Mirror
<1> DEFINE S == Keys(vision)
           new == New
           l == Len(cached)
           n == Len(body)
<1>2. new = SubSeq(body, l + 1, n) /\ body \in Seq(S) /\ l \in Nat /\ n \in Nat /\ l < n /\ n = Len(body)
  BY <1>1 DEF New
<1> HIDE DEF S, l, new
<1>3. new \in Seq(S) /\ Len(new) = n - l /\ \A i \in 1 .. Len(new) : new[i] = body[l + i]
  BY <1>2
<1>4. Len(new) >= 1 /\ Len(new) \in Nat
  BY <1>2, <1>3
<1>5. SegmentOf(Segment, new)
  <2>1. CASE vision
    <3>1. SegmentOf(UpToImage(new), new)
      BY <1>3, <1>4, UpToImageIs
    <3> QED
      BY <2>1, <3>1 DEF Segment, new
  <2>2. CASE ~vision
    <3>1. \A i \in 1 .. Len(new) : ~IsRow(new[i])
      <4>1. \A i \in 1 .. Len(new) : new[i] \in S
        BY <1>3
      <4> QED
        BY <2>2, <4>1, KeyIs DEF SesInv, S
    <3>2. SegmentOf(UpToChunk(new), new)
      BY <1>3, <1>4, <3>1, UpToChunkIs
    <3> QED
      BY <2>2, <3>2 DEF Segment, new
  <2> QED
    BY <2>1, <2>2
<1> QED
  BY <1>3, <1>4, <1>5 DEF Ready, S, l, new

\* The segment's keys, and what they stand for when its picture is shown.
LEMMA SegmentKeys ==
  ASSUME SesInv, at = "prefill"
  PROVE  \E n \in Nat :
           /\ n >= 1 /\ Len(cached) + n <= Len(body) /\ (Segment = New => Len(cached) + n = Len(body))
           /\ Segment \in Seq(Keys(vision)) /\ Len(Segment) = n
           /\ \A i \in 1 .. n : Segment[i] = body[Len(cached) + i]
           /\ \A i \in 1 .. n : IsRow(Segment[i]) => IsRow(Segment[n]) /\ Segment[i][1] = Segment[n][1]
<1> DEFINE S == Keys(vision)
           s == Segment
           new == New
           l == Len(cached)
           b == Len(body)
<1>1. new \in Seq(S) /\ Len(new) = b - l /\ Len(new) \in Nat /\ \A i \in 1 .. Len(new) : new[i] = body[l + i]
  BY SegmentIs DEF Ready
<1>2. SegmentOf(s, new) /\ b \in Nat /\ l \in Nat
  BY SegmentIs DEF Ready, SesInv, Prompt, Filling, Mirror
<1> HIDE DEF S, s, new, l, b
<1>3. PICK n \in 1 .. Len(new) :
        /\ s = SubSeq(new, 1, n)
        /\ \A i \in 1 .. n : IsRow(new[i]) => IsRow(new[n]) /\ new[i][1] = new[n][1]
  BY <1>2 DEF SegmentOf
<1>4. n \in Nat /\ n >= 1 /\ n <= Len(new) /\ n \in 1 .. n
  BY <1>1
<1>5. s \in Seq(S) /\ Len(s) = n /\ \A i \in 1 .. n : s[i] = new[i]
  BY <1>1, <1>3, <1>4
<1>6. l + n <= b
  BY <1>1, <1>2, <1>4
<1>7. s = new => l + n = b
  BY <1>1, <1>2, <1>4, <1>5
<1>8. \A i \in 1 .. n : s[i] = body[l + i]
  BY <1>1, <1>4, <1>5
<1>9. \A i \in 1 .. n : IsRow(s[i]) => IsRow(s[n]) /\ s[i][1] = s[n][1]
  BY <1>3, <1>4, <1>5
<1> QED
  BY <1>4, <1>5, <1>6, <1>7, <1>8, <1>9 DEF S, s, new, l, b

LEMMA WantedIs ==
  ASSUME SesInv, at = "prefill"
  PROVE  Wanted = shown \/ Wanted \in Images
<1>1. PICK n \in Nat : n >= 1 /\ Segment \in Seq(Keys(vision)) /\ Len(Segment) = n
  BY SegmentKeys
<1>2. Last(Segment) \in Keys(vision)
  BY <1>1 DEF Last
<1>3. IsRow(Last(Segment)) => Last(Segment)[1] \in Images
  BY <1>2, KeyIs DEF SesInv
<1> QED
  BY <1>3 DEF Wanted

\* The rows prefilled are the keys' own, once the segment's picture is shown.
LEMMA IdsStandFor ==
  ASSUME SesInv, at = "prefill", Wanted = shown
  PROVE  \E n \in Nat :
           /\ n >= 1 /\ Len(cached) + n <= Len(body) /\ (Segment = New => Len(cached) + n = Len(body))
           /\ Segment \in Seq(AnyKey) /\ Len(Segment) = n /\ Len(Ids(Segment)) = n
           /\ \A i \in 1 .. n : /\ Segment[i] = body[Len(cached) + i]
                              /\ Ids(Segment)[i] \in Vocab \cup RowIds
                              /\ RowOf(Ids(Segment)[i]) = Segment[i]
<1> DEFINE s == Segment
           ids == Ids(s)
<1>1. PICK n \in Nat :
           /\ n >= 1 /\ Len(cached) + n <= Len(body) /\ (s = New => Len(cached) + n = Len(body))
           /\ s \in Seq(Keys(vision)) /\ Len(s) = n
           /\ \A i \in 1 .. n : s[i] = body[Len(cached) + i]
           /\ \A i \in 1 .. n : IsRow(s[i]) => IsRow(s[n]) /\ s[i][1] = s[n][1]
  BY SegmentKeys
<1>2. IsRow(s[n]) => shown = s[n][1]
  <2>1. s # <<>> /\ Last(s) = s[n]
    BY <1>1 DEF Last
  <2> HIDE DEF s
  <2> QED
    BY <2>1 DEF Wanted, s
<1>3. ids = [i \in 1 .. n |-> IF IsRow(s[i]) THEN <<"row", s[i][2]>> ELSE s[i]]
  BY <1>1 DEF Ids
<1>4. Len(ids) = n
  BY <1>3
<1> HIDE DEF s, ids
<1>5. ASSUME NEW i \in 1 .. n PROVE ids[i] \in Vocab \cup RowIds /\ RowOf(ids[i]) = s[i]
  <2>1. s[i] \in Keys(vision) /\ SesType
    BY <1>1 DEF SesInv
  <2>2. CASE IsRow(s[i])
    <3>1. PICK j \in Images, r \in 0 .. Rows - 1 : s[i] = <<j, r>>
      BY <2>1, <2>2, KeyIs
    <3>2. s[i][1] = j /\ s[i][2] = r
      BY <3>1
    <3>3. ids[i] = <<"row", r>>
      BY <1>3, <2>2, <3>2
    <3>4. ids[i] \in RowIds /\ ids[i][2] = r
      BY <3>3 DEF RowIds
    <3>5. shown = j
      BY <1>1, <1>2, <2>2, <3>2
    <3>6. encoded = j
      BY <3>5, NilIs DEF SesInv, Filling
    <3> QED
      BY <3>1, <3>4, <3>6 DEF RowOf
  <2>3. CASE ~IsRow(s[i])
    <3>1. s[i] \in Vocab
      BY <2>1, <2>3, KeyIs
    <3>2. s[i] \notin RowIds
      BY <3>1, TokenAssumption
    <3> QED
      BY <1>3, <2>3, <3>1, <3>2 DEF RowOf
  <2> QED
    BY <2>2, <2>3
<1>6. s \in Seq(AnyKey)
  <2>1. \A k \in Keys(vision) : k \in AnyKey
    BY KeyIs DEF SesInv
  <2> QED
    BY <1>1, <2>1
<1> QED
  BY <1>1, <1>4, <1>5, <1>6 DEF s, ids

-----------------------------------------------------------------------------
(* What is reused of the cache.                                                *)

\* A common prefix of two sequences, and none is longer.
LEMMA CommonPrefixIs ==
  ASSUME NEW S, NEW a \in Seq(S), NEW R, NEW b \in Seq(R)
  PROVE  /\ CommonPrefix(a, b) \in Nat
         /\ CommonPrefix(a, b) <= Len(a) /\ CommonPrefix(a, b) <= Len(b)
         /\ \A i \in 1 .. CommonPrefix(a, b) : a[i] = b[i]
<1> DEFINE l == Len(a)
           k == Len(b)
           m == Min({l, k})
           T == {n \in 0 .. m : SubSeq(a, 1, n) = SubSeq(b, 1, n)}
           c == Max(T)
<1>1. l \in Nat /\ k \in Nat
  OBVIOUS
<1>2. m \in Nat /\ m <= l /\ m <= k
  <2> HIDE DEF l, k
  <2>1. m = IF l <= k THEN l ELSE k
    BY <1>1, MinTwo
  <2> QED
    BY <1>1, <2>1
<1>3. CommonPrefix(a, b) = c
  BY DEF CommonPrefix
<1> HIDE DEF m
<1>4. T \in SUBSET Nat /\ T \in SUBSET (0 .. m) /\ 0 \in T
  <2>1. SubSeq(a, 1, 0) = SubSeq(b, 1, 0)
    OBVIOUS
  <2> QED
    BY <1>2, <2>1
<1>5. c \in T
  <2>1. IsFiniteSet(0 .. m)
    BY <1>2, FS_Interval
  <2> HIDE DEF T
  <2>2. IsFiniteSet(T)
    BY <1>4, <2>1, FS_Subset
  <2> QED
    BY <1>4, <2>2, MaxIs
<1>6. c \in 0 .. m /\ SubSeq(a, 1, c) = SubSeq(b, 1, c)
  BY <1>5
<1> HIDE DEF c
<1>7. ASSUME NEW i \in 1 .. c PROVE a[i] = b[i]
  <2>1. SubSeq(a, 1, c)[i] = a[i]
    BY <1>2, <1>6
  <2>2. SubSeq(b, 1, c)[i] = b[i]
    BY <1>2, <1>6
  <2> QED
    BY <1>6, <2>1, <2>2
<1> QED
  BY <1>2, <1>3, <1>6, <1>7

Reused ==
  /\ Reuse \in Nat /\ Reuse < Len(body) /\ 1 + Reuse <= pos
  /\ \A i \in 1 .. Reuse : kv[i] = body[i]

LEMMA ReuseIs ==
  ASSUME LibInv, SesInv, at = "prompt"
  PROVE  Reused
<1>1. body \in Seq(Keys(vision)) /\ Len(body) \in Nat /\ Len(body) >= 1 /\ open /\ pos \in Nat /\ pos >= 1
  BY LibraryAssumption DEF SesInv, Prompt, SesType, LibInv
<1>2. /\ Usable \in Seq(AnyKey) /\ 1 + Len(Usable) <= pos
      /\ \A i \in 1 .. Len(Usable) : kv[i] = Usable[i]
  <2>1. CASE cached = Nil \/ pos # 1 + Len(cached)
    <3>1. Usable = <<>>
      BY <2>1 DEF Usable
    <3> QED
      BY <1>1, <3>1
  <2>2. CASE ~(cached = Nil \/ pos # 1 + Len(cached))
    <3>1. Usable = cached
      BY <2>2 DEF Usable
    <3>2. cached \in Seq(AnyKey) /\ pos = 1 + Len(cached) /\ \A i \in 1 .. Len(cached) : kv[i] = cached[i]
      BY <2>2 DEF SesInv, Mirror
    <3> QED
      BY <1>1, <3>1, <3>2
  <2> QED
    BY <2>1, <2>2
<1> DEFINE c == CommonPrefix(Usable, body)
           l == Len(body) - 1
           u == Usable
<1>3. c \in Nat /\ c <= Len(u) /\ \A i \in 1 .. c : u[i] = body[i]
  BY <1>1, <1>2, CommonPrefixIs
<1>4. l \in Nat /\ l < Len(body) /\ Len(u) \in Nat
  BY <1>1, <1>2
<1>5. Reuse = Min({c, l})
  BY DEF Reuse
<1>6. /\ u \in Seq(AnyKey) /\ 1 + Len(u) <= pos
      /\ \A i \in 1 .. Len(u) : kv[i] = u[i]
  BY <1>2
<1> HIDE DEF c, l, u
<1>7. Reuse = IF c <= l THEN c ELSE l
  BY <1>3, <1>4, <1>5, MinTwo
<1>8. Reuse \in Nat /\ Reuse <= c /\ Reuse <= l
  BY <1>3, <1>4, <1>7
<1>9. \A i \in 1 .. Reuse : kv[i] = body[i]
  BY <1>3, <1>4, <1>6, <1>8
<1> QED
  BY <1>1, <1>3, <1>4, <1>6, <1>8, <1>9 DEF Reused

\* What the library holds is `cached`, wherever there is one.
LEMMA HeldIs ==
  ASSUME LibInv, SesInv, cached # Nil
  PROVE  Held = cached
<1>1. /\ cached \in Seq(AnyKey) /\ pos = 1 + Len(cached) /\ Len(cached) \in Nat
      /\ \A i \in 1 .. Len(cached) : kv[i] = cached[i]
  BY DEF SesInv, Mirror
<1>2. pos <= Context /\ pos - 1 = Len(cached) /\ Context \in Nat
  BY <1>1, LibraryAssumption DEF LibInv
<1> DEFINE n == Len(cached)
<1>3. kv \in Seq(CacheRow) /\ Len(kv) = Context - 1
  <2>1. Context - 1 \in Nat /\ kv \in [1 .. Context - 1 -> CacheRow]
    BY <1>2, LibraryAssumption DEF LibInv
  <2> DEFINE m == Context - 1
  <2> HIDE DEF m
  <2>2. m \in Nat /\ kv \in [1 .. m -> CacheRow]
    BY <2>1 DEF m
  <2>3. kv \in Seq(CacheRow) /\ Len(kv) = m
    BY <2>2
  <2> QED
    BY <2>3 DEF m
<1>4. n \in Nat /\ n <= Context - 1 /\ Held = SubSeq(kv, 1, n)
  BY <1>1, <1>2 DEF Held
<1> HIDE DEF n
<1>5. Len(Held) = n /\ Held \in Seq(CacheRow) /\ \A i \in 1 .. n : Held[i] = kv[i]
  BY <1>2, <1>3, <1>4
<1>6. Len(cached) = n
  BY DEF n
<1>7. Len(Held) = Len(cached) /\ \A i \in 1 .. Len(Held) : Held[i] = cached[i]
  BY <1>1, <1>5, <1>6
<1> QED
  BY <1>1, <1>5, <1>7, SeqEqual

-----------------------------------------------------------------------------
(* The steps                                                                 *)

LEMMA LlmInitInv == Init => LlmInv
<1> SUFFICES ASSUME Init PROVE LlmInv
  OBVIOUS
<1>1. LibInv
  <2>1. /\ cost \in Costs /\ pick = [r \in 1 .. Context |-> 0] /\ open = FALSE /\ pos = 0
        /\ kv = [p \in 1 .. Context - 1 |-> Blank] /\ encoded = Blank
    BY DEF Init, LibraryInit
  <2>2. pick \in [1 .. Context -> Buckets \cup {0}]
    BY <2>1
  <2>3. kv \in [1 .. Context - 1 -> CacheRow]
    BY <2>1 DEF CacheRow
  <2>4. pos \in 0 .. Context /\ ~(pos >= 1)
    BY <2>1, LibraryAssumption
  <2> QED
    BY <2>1, <2>2, <2>3, <2>4 DEF LibInv
<1>2. SesInv
  BY DEF Init, LibraryInit, SesInv, SesType, Mirror, Kept, Prompt, Filling, Answers
<1> QED
  BY <1>1, <1>2 DEF LlmInv

LEMMA SameLib == ASSUME LibInv, UNCHANGED libVars PROVE LibInv' /\ open' = open
BY DEF LibInv, libVars, PickOK, CacheRow

\* generate() is left with `cached` as it was, or with none.
LEMMA LeftInv ==
  ASSUME SesInv, Return, vision' = vision, open, open',
         \/ cached' = cached /\ spoilt' = spoilt /\ UNCHANGED libVars
         \/ cached' = Nil /\ spoilt' = TRUE
  PROVE  SesInv'
<1>1. at' = "idle" /\ shown' = Nil /\ begun' = FALSE
  BY DEF Return
<1>2. SesType'
  BY <1>1 DEF SesInv, SesType
<1>3. Mirror' /\ Kept'
  <2>1. CASE cached' = cached /\ spoilt' = spoilt /\ UNCHANGED libVars
    BY <2>1 DEF SesInv, Mirror, Kept, libVars, AnyKey
  <2>2. CASE cached' = Nil /\ spoilt' = TRUE
    BY <2>2 DEF Mirror, Kept
  <2> QED
    BY <2>1, <2>2
<1>4. Prompt' /\ Filling' /\ Answers'
  BY <1>1 DEF Prompt, Filling, Answers
<1> QED
  BY <1>2, <1>3, <1>4 DEF SesInv

LEMMA LoadStep == ASSUME LlmInv, Load PROVE LlmInv'
<1>1. LibInv' /\ open'
  BY OpenKeeps DEF LlmInv, Load
<1>2. SesType'
  BY <1>1 DEF Load, LlmInv, SesInv, SesType
<1>3. Mirror' /\ Kept' /\ Prompt' /\ Filling' /\ Answers'
  BY DEF Load, Mirror, Kept, Prompt, Filling, Answers
<1> QED
  BY <1>1, <1>2, <1>3 DEF LlmInv, SesInv

LEMMA UnloadStep == ASSUME LlmInv, Unload PROVE LlmInv'
<1>1. LibInv' /\ ~open'
  BY CloseKeeps DEF LlmInv, Unload
<1>2. SesType'
  BY <1>1 DEF Unload, LlmInv, SesInv, SesType
<1>3. Mirror' /\ Kept' /\ Prompt' /\ Filling' /\ Answers'
  BY <1>1 DEF Unload, Mirror, Kept, Prompt, Filling, Answers
<1> QED
  BY <1>1, <1>2, <1>3 DEF LlmInv, SesInv

LEMMA RequestStep == ASSUME LlmInv, NEW p \in Prompts[vision], Request(p) PROVE LlmInv'
<1>1. /\ at = "idle" /\ 1 + Len(p) <= Context /\ body' = p /\ history' = p /\ at' = "prompt"
      /\ UNCHANGED <<libVars, vision, cached, begun, shown, spoilt>>
  BY DEF Request
<1>2. LibInv' /\ open' = open
  BY <1>1, SameLib DEF LlmInv
<1>3. vision \in BOOLEAN
  BY DEF LlmInv, SesInv, SesType
<1>4. p \in Seq(Keys(vision)) /\ Len(p) >= 1
  BY <1>3, SessionAssumption
<1>5. SesType'
  BY <1>1, <1>2 DEF LlmInv, SesInv, SesType
<1>6. Mirror' /\ Kept'
  BY <1>1 DEF LlmInv, SesInv, Mirror, Kept, libVars, AnyKey
<1>7. Prompt' /\ Filling' /\ Answers'
  BY <1>1, <1>4 DEF Prompt, Filling, Answers, Keys
<1> QED
  BY <1>2, <1>5, <1>6, <1>7 DEF LlmInv, SesInv

LEMMA RewindStep == ASSUME LlmInv, Rewind PROVE LlmInv'
<1>1. /\ at = "prompt" /\ Truncate(1 + Reuse) /\ cached' = SubSeq(body, 1, Reuse)
      /\ begun' = FALSE /\ shown' = Nil /\ spoilt' = FALSE /\ at' = "prefill"
      /\ UNCHANGED <<vision, body, history>>
  BY DEF Rewind
<1>2. LibInv' /\ open'
  BY <1>1, TruncateKeeps DEF LlmInv
<1>3. pos' = 1 + Reuse /\ kv' = kv
  BY <1>1 DEF Truncate
<1> DEFINE n == Reuse
<1>4. n \in Nat /\ n < Len(body) /\ \A i \in 1 .. n : kv[i] = body[i]
  BY <1>1, ReuseIs DEF LlmInv, Reused
<1>5. /\ body \in Seq(Keys(vision)) /\ Len(body) >= 1 /\ 1 + Len(body) <= Context /\ history = body
      /\ Len(body) \in Nat
  BY <1>1 DEF LlmInv, SesInv, Prompt
<1>6. body \in Seq(AnyKey)
  <2>1. \A k \in Keys(vision) : k \in AnyKey
    BY KeyIs DEF LlmInv, SesInv
  <2> QED
    BY <1>5, <2>1
<1>7. cached' = SubSeq(body, 1, n) /\ pos' = 1 + n
  BY <1>1, <1>3
<1> HIDE DEF n
<1>8. cached' \in Seq(AnyKey) /\ Len(cached') = n /\ \A i \in 1 .. n : cached'[i] = body[i]
  BY <1>4, <1>5, <1>6, <1>7
<1>9. cached' # Nil
  BY <1>8, NilIs
<1>10. SesType'
  BY <1>1, <1>2 DEF LlmInv, SesInv, SesType
<1>11. Mirror'
  BY <1>2, <1>3, <1>4, <1>7, <1>8 DEF Mirror, AnyKey
<1>12. Kept'
  BY <1>9 DEF Kept
<1>13. Prompt'
  BY <1>1, <1>5 DEF Prompt, Keys
<1>14. Filling' /\ Answers'
  BY <1>1, <1>4, <1>8, <1>9 DEF Filling, Answers
<1> QED
  BY <1>2, <1>10, <1>11, <1>12, <1>13, <1>14 DEF LlmInv, SesInv

LEMMA ShowImageStep == ASSUME LlmInv, ShowImage PROVE LlmInv'
<1>1. /\ at = "prefill" /\ Wanted # shown /\ EncodeImage(Wanted) /\ shown' = Wanted
      /\ UNCHANGED <<vision, cached, at, body, begun, history, spoilt>>
  BY DEF ShowImage
<1>2. Wanted \in Images
  BY <1>1, WantedIs DEF LlmInv
<1>3. LibInv' /\ open'
  BY <1>1, <1>2, EncodeKeeps DEF LlmInv
<1>4. encoded' = Wanted /\ UNCHANGED <<open, pos, kv>>
  BY <1>1 DEF EncodeImage
<1>5. SesType'
  BY <1>1, <1>2, <1>3, <1>4 DEF LlmInv, SesInv, SesType
<1>6. Mirror' /\ Kept'
  BY <1>1, <1>4 DEF LlmInv, SesInv, Mirror, Kept, AnyKey
<1>7. Prompt' /\ Filling' /\ Answers'
  BY <1>1, <1>4 DEF LlmInv, SesInv, Prompt, Filling, Answers, Keys
<1> QED
  BY <1>3, <1>5, <1>6, <1>7 DEF LlmInv, SesInv

LEMMA PrefillSegmentStep == ASSUME LlmInv, PrefillSegment PROVE LlmInv'
<1>1. /\ at = "prefill" /\ Wanted = shown /\ Prefill(Ids(Segment)) /\ cached' = cached \o Segment /\ begun' = TRUE
      /\ at' = (IF Segment = New THEN "sample" ELSE at)
      /\ UNCHANGED <<vision, body, shown, history, spoilt>>
  BY DEF PrefillSegment
<1> DEFINE s == Segment
           ids == Ids(s)
           l == Len(cached)
<1>2. /\ cached # Nil /\ cached \in Seq(AnyKey) /\ pos = 1 + l /\ l \in Nat /\ open
      /\ l < Len(body) /\ Len(body) \in Nat /\ 1 + Len(body) <= Context
      /\ body \in Seq(Keys(vision)) /\ history = body
      /\ \A i \in 1 .. l : kv[i] = cached[i] /\ cached[i] = body[i]
  BY <1>1 DEF LlmInv, SesInv, Filling, Mirror, Prompt
<1>3. PICK n \in Nat :
        /\ n >= 1 /\ l + n <= Len(body) /\ (s = New => l + n = Len(body))
        /\ s \in Seq(AnyKey) /\ Len(s) = n /\ Len(ids) = n
        /\ \A i \in 1 .. n : s[i] = body[l + i] /\ ids[i] \in Vocab \cup RowIds /\ RowOf(ids[i]) = s[i]
  BY <1>1, IdsStandFor DEF LlmInv
<1>4. LibInv' /\ open' /\ Fills(ids)
  <2>1. Prefill(ids) /\ Len(ids) \in Nat /\ LibInv
    BY <1>1, <1>3 DEF LlmInv
  <2> HIDE DEF ids
  <2> QED
    BY <2>1, PrefillKeeps
<1>5. /\ pos' = pos + n /\ encoded' = encoded /\ open' = open
      /\ kv' = [p \in DOMAIN kv |-> IF p \in pos .. pos + n - 1 THEN RowOf(ids[p - pos + 1]) ELSE kv[p]]
  BY <1>3, <1>4 DEF Fills
<1>6. cached' = cached \o s /\ at' = (IF s = New THEN "sample" ELSE at)
  BY <1>1
<1> DEFINE c == cached \o s
<1>7. /\ c \in Seq(AnyKey) /\ Len(c) = l + n
      /\ \A i \in 1 .. l : c[i] = cached[i]
      /\ \A i \in 1 .. n : c[l + i] = s[i]
  <2>1. cached \in Seq(AnyKey) /\ s \in Seq(AnyKey) /\ l = Len(cached) /\ n = Len(s) /\ l \in Nat /\ n \in Nat
    BY <1>2, <1>3
  <2> HIDE DEF s, l
  <2>2. c \in Seq(AnyKey) /\ Len(c) = l + n
    BY <2>1, ConcatProperties
  <2>3. \A i \in 1 .. l : c[i] = cached[i]
    BY <2>1
  <2>4. \A i \in 1 .. n : c[l + i] = s[i]
    BY <2>1
  <2> QED
    BY <2>2, <2>3, <2>4
<1> HIDE DEF s, ids, c
<1>8. cached' = c
  BY <1>6 DEF c
<1>9. ASSUME NEW i \in 1 .. l + n PROVE c[i] = body[i] /\ kv'[i] = c[i]
  <2>0. i \in DOMAIN kv
    <3>1. DOMAIN kv = 1 .. Context - 1 /\ Context \in Nat
      BY LibraryAssumption DEF LlmInv, LibInv
    <3> QED
      BY <1>2, <1>3, <3>1
  <2>1. CASE i <= l
    <3>1. i \in 1 .. l
      BY <1>2, <2>1
    <3>2. i \notin pos .. pos + n - 1
      BY <1>2, <2>1
    <3> QED
      BY <1>2, <1>5, <1>7, <2>0, <3>1, <3>2
  <2>2. CASE i > l
    <3> DEFINE j == i - l
    <3>1. j \in 1 .. n /\ i = l + j /\ i \in pos .. pos + n - 1 /\ i - pos + 1 = j
      BY <1>2, <1>3, <2>2
    <3> HIDE DEF j
    <3>2. kv'[i] = RowOf(ids[j])
      BY <1>5, <2>0, <3>1
    <3>3. c[l + j] = s[j] /\ s[j] = body[l + j] /\ RowOf(ids[j]) = s[j]
      BY <1>3, <1>7, <3>1
    <3> QED
      BY <3>1, <3>2, <3>3
  <2> QED
    BY <1>2, <1>3, <2>1, <2>2
<1>10. c # Nil
  BY <1>7, NilIs
<1>11. SesType'
  BY <1>1, <1>2, <1>4, <1>6 DEF LlmInv, SesInv, SesType
<1>12. Mirror'
  <2>1. pos' = 1 + (l + n) /\ l + n = Len(c)
    BY <1>2, <1>3, <1>5, <1>7
  <2>2. \A i \in 1 .. Len(c) : kv'[i] = c[i]
    BY <1>9, <2>1
  <2> QED
    BY <1>4, <1>7, <1>8, <2>1, <2>2 DEF Mirror, AnyKey
<1>13. Kept'
  BY <1>8, <1>10 DEF Kept
<1>14. Prompt'
  BY <1>1, <1>2 DEF LlmInv, SesInv, Prompt, Keys
<1>15. ASSUME s = New PROVE c = body
  <2>1. body \in Seq(AnyKey)
    <3>1. \A k \in Keys(vision) : k \in AnyKey
      BY KeyIs DEF LlmInv, SesInv
    <3> QED
      BY <1>2, <3>1
  <2>2. Len(c) = Len(body) /\ \A i \in 1 .. Len(c) : c[i] = body[i]
    BY <1>3, <1>7, <1>9, <1>15
  <2> QED
    BY <1>7, <2>1, <2>2, SeqEqual
<1>16. ASSUME s # New PROVE Len(c) < Len(body)
  <2>1. l + n # Len(body)
    <3>1. SUFFICES ASSUME l + n = Len(body) PROVE FALSE
      OBVIOUS
    <3>2. New \in Seq(Keys(vision)) /\ Len(New) = Len(body) - l /\ \A i \in 1 .. Len(New) : New[i] = body[l + i]
      BY <1>1, SegmentIs DEF LlmInv, Ready
    <3> DEFINE new == New
    <3>3. new \in Seq(Keys(vision)) /\ Len(new) = n /\ \A i \in 1 .. n : new[i] = s[i]
      <4>1. Len(body) - l = n
        BY <1>2, <1>3, <3>1
      <4>2. Len(new) = n /\ \A i \in 1 .. Len(new) : new[i] = body[l + i]
        BY <3>2, <4>1
      <4> HIDE DEF new, l
      <4>3. \A i \in 1 .. n : new[i] = s[i]
        BY <1>3, <4>2
      <4> QED
        BY <3>2, <4>2, <4>3 DEF new
    <3>4. \A k \in Keys(vision) : k \in AnyKey
      BY KeyIs DEF LlmInv, SesInv
    <3> HIDE DEF new
    <3>5. new \in Seq(AnyKey)
      BY <3>3, <3>4
    <3>6. new = s
      BY <1>3, <3>3, <3>5, SeqEqual
    <3> QED
      BY <1>16, <3>6 DEF new
  <2> QED
    BY <1>2, <1>3, <1>7, <2>1
<1>17. Filling'
  <2>1. \A i \in 1 .. Len(c) : c[i] = body[i]
    BY <1>7, <1>9
  <2>2. at' = "prefill" => s # New
    BY <1>6
  <2>3. shown' = shown /\ body' = body /\ encoded' = encoded
    BY <1>1, <1>5
  <2>4. shown # Nil => encoded = shown
    BY <1>1 DEF LlmInv, SesInv, Filling
  <2> QED
    BY <1>8, <1>10, <1>16, <2>1, <2>2, <2>3, <2>4 DEF Filling
<1>18. Answers'
  <2>1. at' = "sample" => s = New
    BY <1>1, <1>6
  <2>2. at' # "token" /\ history' = body
    BY <1>1, <1>2
  <2> QED
    BY <1>8, <1>10, <1>15, <2>1, <2>2 DEF Answers
<1> QED
  BY <1>4, <1>11, <1>12, <1>13, <1>14, <1>17, <1>18 DEF LlmInv, SesInv

LEMMA SampleStep == ASSUME LlmInv, NEW t \in Vocab, Sample(t) PROVE LlmInv'
<1>1. /\ at = "sample" /\ history' = Append(history, t) /\ at' = "token"
      /\ UNCHANGED <<libVars, vision, cached, body, begun, shown, spoilt>>
  BY DEF Sample
<1>2. LibInv' /\ open' = open
  BY <1>1, SameLib DEF LlmInv
<1>3. SesType'
  BY <1>1, <1>2 DEF LlmInv, SesInv, SesType
<1>4. Mirror' /\ Kept'
  BY <1>1 DEF LlmInv, SesInv, Mirror, Kept, libVars, AnyKey
<1>5. Prompt' /\ Filling' /\ Answers'
  BY <1>1 DEF LlmInv, SesInv, Prompt, Filling, Answers
<1> QED
  BY <1>2, <1>3, <1>4, <1>5 DEF LlmInv, SesInv

LEMMA TokenIs ==
  ASSUME LibInv, SesInv, at = "token"
  PROVE  /\ cached # Nil /\ cached \in Seq(AnyKey) /\ pos = 1 + Len(cached) /\ Len(cached) \in Nat
         /\ Last(history) \in Vocab /\ history = Append(cached, Last(history)) /\ open
<1>1. cached # Nil /\ cached \in Seq(AnyKey) /\ pos = 1 + Len(cached) /\ Len(cached) \in Nat /\ open
  BY DEF SesInv, Answers, Mirror
<1>2. PICK t \in Vocab : history = Append(cached, t)
  BY DEF SesInv, Answers
<1>3. t \in AnyKey
  BY DEF AnyKey
<1>4. Last(history) = t
  BY <1>1, <1>2, <1>3 DEF Last
<1> QED
  BY <1>1, <1>2, <1>4

LEMMA DecodeTokenStep == ASSUME LlmInv, DecodeToken PROVE LlmInv'
<1> DEFINE t == Last(history)
<1>1. /\ at = "token" /\ Decode(t) /\ cached' = Append(cached, t) /\ at' = "sample"
      /\ UNCHANGED <<vision, body, begun, shown, history, spoilt>>
  BY DEF DecodeToken
<1>2. /\ cached # Nil /\ cached \in Seq(AnyKey) /\ pos = 1 + Len(cached) /\ Len(cached) \in Nat
      /\ t \in Vocab /\ history = Append(cached, t)
  BY <1>1, TokenIs DEF LlmInv
<1> HIDE DEF t
<1>3. LibInv' /\ open' /\ pos' = pos + 1 /\ pos \in 1 .. Context - 1 /\ kv' = [kv EXCEPT ![pos] = t]
  BY <1>1, DecodeKeeps DEF LlmInv
<1> DEFINE c == Append(cached, t)
<1>4. /\ c \in Seq(AnyKey) /\ Len(c) = Len(cached) + 1 /\ c[Len(cached) + 1] = t
      /\ \A i \in 1 .. Len(cached) : c[i] = cached[i]
  BY <1>2 DEF AnyKey
<1>5. cached' = c /\ history' = c
  BY <1>1, <1>2
<1> HIDE DEF c
<1>6. c # Nil
  BY <1>4, NilIs
<1>7. SesType'
  BY <1>1, <1>3 DEF LlmInv, SesInv, SesType
<1>8. Mirror'
  <2>1. \A i \in 1 .. Len(cached) : kv[i] = cached[i]
    BY <1>2 DEF LlmInv, SesInv, Mirror
  <2>2. DOMAIN kv = 1 .. Context - 1 /\ Context \in Nat
    BY LibraryAssumption DEF LlmInv, LibInv
  <2>3. ASSUME NEW i \in 1 .. Len(c) PROVE kv'[i] = c[i]
    <3>1. CASE i = pos
      BY <1>2, <1>3, <1>4, <2>2, <3>1
    <3>2. CASE i # pos
      <4>1. i \in 1 .. Len(cached) /\ i \in DOMAIN kv
        BY <1>2, <1>3, <1>4, <2>2, <3>2
      <4> QED
        BY <1>3, <1>4, <2>1, <3>2, <4>1
    <3> QED
      BY <3>1, <3>2
  <2>4. pos' = 1 + Len(c)
    BY <1>2, <1>3, <1>4
  <2> QED
    BY <1>3, <1>4, <1>5, <2>3, <2>4 DEF Mirror, AnyKey
<1>9. Kept'
  BY <1>5, <1>6 DEF Kept
<1>10. Prompt' /\ Filling' /\ Answers'
  BY <1>1, <1>5, <1>6 DEF Prompt, Filling, Answers
<1> QED
  BY <1>3, <1>7, <1>8, <1>9, <1>10 DEF LlmInv, SesInv

LEMMA LeaveStep == ASSUME LlmInv, AnswerEnds \/ Cancelled \/ Abandoned PROVE LlmInv'
<1>1. /\ at # "unloaded" /\ Return /\ UNCHANGED <<libVars, vision, cached, spoilt>>
  BY DEF AnswerEnds, Cancelled, CancelPoint, Abandoned
<1>2. LibInv' /\ open' = open
  BY <1>1, SameLib DEF LlmInv
<1>3. open
  BY <1>1 DEF LlmInv, SesInv, SesType, LibInv
<1>4. SesInv'
  BY <1>1, <1>2, <1>3, LeftInv DEF LlmInv
<1> QED
  BY <1>2, <1>4 DEF LlmInv

LEMMA FailsStep == ASSUME LlmInv, Fails PROVE LlmInv'
<1>1. /\ at # "unloaded" /\ Return /\ cached' = Nil /\ spoilt' = TRUE /\ vision' = vision
      /\ (NextCall \/ UNCHANGED libVars)
  BY DEF Fails, Calling
<1>2. open
  BY <1>1 DEF LlmInv, SesInv, SesType, LibInv
<1>3. LibInv' /\ open'
  <2>1. CASE UNCHANGED libVars
    BY <1>2, <2>1, SameLib DEF LlmInv
  <2>2. CASE at = "prompt" /\ Truncate(1 + Reuse)
    BY <2>2, TruncateKeeps DEF LlmInv
  <2>3. CASE at = "prefill" /\ Wanted # shown /\ EncodeImage(Wanted)
    <3>1. Wanted \in Images
      BY <2>3, WantedIs DEF LlmInv
    <3> QED
      BY <2>3, <3>1, EncodeKeeps DEF LlmInv
  <2>4. CASE at = "prefill" /\ Wanted = shown /\ Prefill(Ids(Segment))
    <3>1. Len(Ids(Segment)) \in Nat
      BY <2>4, IdsStandFor DEF LlmInv
    <3> QED
      BY <2>4, <3>1, PrefillKeeps DEF LlmInv
  <2>5. CASE at = "token" /\ Room /\ Decode(Last(history))
    BY <2>5, DecodeKeeps DEF LlmInv
  <2> QED
    BY <1>1, <2>1, <2>2, <2>3, <2>4, <2>5 DEF NextCall
<1>4. SesInv'
  BY <1>1, <1>2, <1>3, LeftInv DEF LlmInv
<1> QED
  BY <1>3, <1>4 DEF LlmInv

LEMMA LlmNextInv == LlmInv /\ [Next]_vars => LlmInv'
<1> SUFFICES ASSUME LlmInv, [Next]_vars PROVE LlmInv'
  OBVIOUS
<1>1. CASE UNCHANGED vars
  BY <1>1 DEF vars, libVars, sessionVars, LlmInv, LibInv, SesInv, SesType, Mirror, Kept, Prompt, Filling, Answers,
              PickOK, CacheRow, AnyKey, Keys
<1>2. CASE Next
  BY <1>2, LoadStep, UnloadStep, RequestStep, RewindStep, ShowImageStep, PrefillSegmentStep, SampleStep,
     DecodeTokenStep, LeaveStep, FailsStep DEF Next, Answer
<1> QED
  BY <1>1, <1>2

\* The library's and the session's invariant hold in every state: no call, cancelled, failed or
\* complete, leaves `cached` naming rows that the library does not hold.
THEOREM SessionInvariant == Spec => []LlmInv
<1>1. Init => LlmInv
  BY LlmInitInv
<1>2. LlmInv /\ [Next]_vars => LlmInv'
  BY LlmNextInv
<1> QED
  BY <1>1, <1>2, PTL DEF Spec

\* The session's and the library's state have their types; what `cached` holds leaves room for the
\* sink (generate(), llm_api.c).
THEOREM SessionTypes == Spec => []TypeOK
<1>1. LlmInv => TypeOK
  <2> SUFFICES ASSUME LlmInv PROVE TypeOK
    OBVIOUS
  <2>1. LibraryTypeOK
    BY DEF LlmInv, LibInv, LibraryTypeOK, CacheRow
  <2>2. cached # Nil => Len(cached) < Context
    <3>1. SUFFICES ASSUME cached # Nil PROVE Len(cached) < Context
      OBVIOUS
    <3>2. pos = 1 + Len(cached) /\ Len(cached) \in Nat /\ pos <= Context /\ Context \in Nat
      BY <3>1, LibraryAssumption DEF LlmInv, LibInv, SesInv, Mirror
    <3> QED
      BY <3>2
  <2> QED
    BY <2>1, <2>2 DEF TypeOK, LlmInv, SesInv, SesType
<1> QED
  BY <1>1, SessionInvariant, PTL

\* The logits a token is sampled from are those of the prompt and the tokens sampled so far: the rows
\* left in the cache by earlier, cancelled or failed answers never show (generate(), _prefill_new()).
THEOREM LogitsAreOfConversation == Spec => []LogitsOfConversation
<1>1. LlmInv => LogitsOfConversation
  <2> SUFFICES ASSUME LlmInv, at = "sample" PROVE Held = history
    BY DEF LogitsOfConversation
  <2>1. cached # Nil /\ history = cached
    BY DEF LlmInv, SesInv, Answers
  <2> QED
    BY <2>1, HeldIs DEF LlmInv
<1> QED
  BY <1>1, SessionInvariant, PTL

\* After an answer that ended, was cancelled or was abandoned, the next prompt reuses the longest prefix
\* that the library holds (_common_prefix(), CancelToken.check()).
THEOREM KeepsWhatItHolds == Spec => []NothingForgotten
<1>1. LlmInv => NothingForgotten
  <2> SUFFICES ASSUME LlmInv, at = "prompt", ~spoilt
               PROVE  Reuse = Min({CommonPrefix(Held, body), Len(body) - 1})
    BY DEF NothingForgotten
  <2>1. cached # Nil
    BY DEF LlmInv, SesInv, Kept, SesType
  <2>2. Held = cached /\ pos = 1 + Len(cached)
    BY <2>1, HeldIs DEF LlmInv, SesInv, Mirror
  <2>3. Usable = Held
    BY <2>1, <2>2 DEF Usable
  <2> QED
    BY <2>3 DEF Reuse
<1> QED
  BY <1>1, SessionInvariant, PTL

\* The library accepts every call of the session: no prompt or token that generate() lets through
\* exceeds LLM_CONTEXT, and no truncation names an unfilled position (llm_api.c's early returns).
THEOREM RefusesNothing == Spec => []NothingRefused
<1>1. LlmInv => NothingRefused
  <2> SUFFICES ASSUME LlmInv PROVE NothingRefused
    OBVIOUS
  <2>1. ASSUME at = "prompt" PROVE TruncateAccepts(1 + Reuse)
    <3>1. open /\ pos \in Nat
      BY <2>1, LibraryAssumption DEF LlmInv, LibInv, SesInv, SesType
    <3> DEFINE n == Reuse
    <3>2. n \in Nat /\ 1 + n <= pos
      BY <2>1, ReuseIs DEF LlmInv, Reused
    <3> HIDE DEF n
    <3>3. open /\ 1 + n \in 1 .. pos
      BY <3>1, <3>2
    <3> QED
      BY <3>3 DEF n, TruncateAccepts
  <2>2. ASSUME at = "prefill", Wanted = shown PROVE PrefillAccepts(Ids(Segment))
    <3> DEFINE ids == Ids(Segment)
    <3>1. PICK n \in Nat : /\ n >= 1 /\ Len(cached) + n <= Len(body) /\ Len(ids) = n
                           /\ \A i \in 1 .. n : ids[i] \in Vocab \cup RowIds
      BY <2>2, IdsStandFor DEF LlmInv
    <3>2. pos = 1 + Len(cached) /\ Len(cached) \in Nat /\ open
      BY <2>2 DEF LlmInv, SesInv, Filling, Mirror
    <3>3. 1 + Len(body) <= Context /\ Len(body) \in Nat
      BY <2>2 DEF LlmInv, SesInv, Prompt
    <3> HIDE DEF ids
    <3>4. open /\ Len(ids) >= 1 /\ pos + Len(ids) <= Context /\ \A i \in 1 .. Len(ids) : ids[i] \in Vocab \cup RowIds
      BY <3>1, <3>2, <3>3, LibraryAssumption
    <3>5. PrefillAccepts(ids)
      BY <3>4 DEF PrefillAccepts, Fits
    <3> QED
      BY <3>5 DEF ids
  <2>3. ASSUME at = "token", Room PROVE DecodeAccepts(Last(history))
    <3>1. pos = 1 + Len(cached) /\ Len(cached) \in Nat /\ Last(history) \in Vocab /\ open
      BY <2>3, TokenIs DEF LlmInv
    <3>2. pos + 1 <= Context
      BY <2>3, <3>1, LibraryAssumption DEF Room
    <3> QED
      BY <3>1, <3>2 DEF DecodeAccepts, Fits
  <2> QED
    BY <2>1, <2>2, <2>3 DEF NothingRefused
<1> QED
  BY <1>1, SessionInvariant, PTL
-----------------------------------------------------------------------------
(* Sums.  SumFunction() adds up the subsets of the domain by recursion; that    *)
(* such a function exists is shown by the least subset at which none would do.  *)

\* The sum of h over s, of what remains without one member being g.
SumBody(h, s, g) == IF s = {} THEN 0 ELSE LET x == CHOOSE y \in s : TRUE IN h[x] + g[s \ {x}]

Partial(h) == CHOOSE g : g = [s \in SUBSET DOMAIN h |-> SumBody(h, s, g)]

LEMMA SumIs == ASSUME NEW h PROVE SumFunction(h) = Partial(h)[DOMAIN h]
BY DEF SumFunction, SumFunctionOnSet, FoldFunctionOnSet, MapThenFoldSet, Partial, SumBody

\* Of some subsets of a finite set, one has none of the others a member below it.
LEMMA SmallestSet ==
  ASSUME NEW S, IsFiniteSet(S), NEW B \in SUBSET SUBSET S, B # {}
  PROVE  \E s \in B : \A x \in s : s \ {x} \notin B
<1> DEFINE T == {Cardinality(s) : s \in B}
<1>1. \A s \in B : IsFiniteSet(s) /\ Cardinality(s) \in Nat
  BY FS_Subset, FS_CardinalityType
<1>2. T \in SUBSET Nat /\ T # {}
  BY <1>1
<1>3. PICK n \in T : \A m \in T : n <= m
  <2> HIDE DEF T
  <2> QED
    BY <1>2, LeastNumber
<1>4. PICK s \in B : n = Cardinality(s)
  BY <1>3
<1>5. ASSUME NEW x \in s, s \ {x} \in B PROVE FALSE
  <2>1. Cardinality(s \ {x}) = Cardinality(s) - 1
    BY <1>1, FS_RemoveElement
  <2>2. Cardinality(s \ {x}) \in T
    BY <1>5
  <2>3. n <= Cardinality(s \ {x}) /\ n \in Nat
    <3> HIDE DEF T
    <3> QED
      BY <1>2, <1>3, <2>2
  <2> QED
    BY <1>4, <2>1, <2>3
<1> QED
  BY <1>5

LEMMA SumsExist ==
  ASSUME NEW h, NEW S, S = DOMAIN h, IsFiniteSet(S)
  PROVE  \A s \in SUBSET S : Partial(h)[s] = SumBody(h, s, Partial(h))
<1> DEFINE Card(s) == Cardinality(s)
           Meet(n) == \E g : \A s \in SUBSET S : Card(s) <= n => g[s] = SumBody(h, s, g)
           T == {n \in Nat : ~Meet(n)}
<1>1. \A s \in SUBSET S : /\ IsFiniteSet(s) /\ Card(s) \in Nat /\ Card(s) <= Card(S)
                          /\ \A x \in s : Card(s \ {x}) = Card(s) - 1 /\ s \ {x} \in SUBSET S
  <2>1. \A s \in SUBSET S : IsFiniteSet(s) /\ Card(s) <= Card(S)
    BY FS_Subset
  <2>2. \A s \in SUBSET S : Card(s) \in Nat
    BY <2>1, FS_CardinalityType
  <2>3. \A s \in SUBSET S : \A x \in s : Card(s \ {x}) = Card(s) - 1
    BY <2>1, FS_RemoveElement
  <2> QED
    BY <2>1, <2>2, <2>3
<1>2. \A n \in Nat : Meet(n)
  <2>1. SUFFICES ASSUME T # {} PROVE FALSE
    OBVIOUS
  <2>2. PICK n \in T : \A k \in T : n <= k
    <3>1. T \in SUBSET Nat
      OBVIOUS
    <3> HIDE DEF T
    <3> QED
      BY <2>1, <3>1, LeastNumber
  <2>3. n \in Nat /\ ~Meet(n)
    BY <2>2
  <2> HIDE DEF Card
  <2>4. PICK f : \A s \in SUBSET S : Card(s) < n => f[s] = SumBody(h, s, f)
    <3>1. CASE n = 0
      BY <1>1, <3>1
    <3>2. CASE n # 0
      <4>1. n - 1 \in Nat /\ ~(n <= n - 1)
        BY <2>3, <3>2
      <4>2. Meet(n - 1)
        BY <2>2, <4>1
      <4> QED
        BY <1>1, <2>3, <4>1, <4>2
    <3> QED
      BY <3>1, <3>2
  <2> DEFINE g == [s \in SUBSET S |-> SumBody(h, s, f)]
  <2>5. ASSUME NEW s \in SUBSET S, Card(s) <= n PROVE g[s] = SumBody(h, s, g)
    <3>1. CASE s = {}
      BY <3>1 DEF SumBody
    <3>2. CASE s # {}
      <4> DEFINE x == CHOOSE y \in s : TRUE
      <4>1. x \in s
        BY <3>2
      <4>2. SumBody(h, s, f) = h[x] + f[s \ {x}] /\ SumBody(h, s, g) = h[x] + g[s \ {x}]
        BY <3>2 DEF SumBody
      <4> HIDE DEF x
      <4>3. s \ {x} \in SUBSET S /\ Card(s \ {x}) < n
        BY <1>1, <2>3, <2>5, <4>1
      <4>4. g[s \ {x}] = f[s \ {x}]
        BY <2>4, <4>3
      <4> QED
        BY <4>2, <4>4
    <3> QED
      BY <3>1, <3>2
  <2> QED
    BY <2>3, <2>5
<1>3. PICK f : \A s \in SUBSET S : f[s] = SumBody(h, s, f)
  <2>1. Card(S) \in Nat
    BY <1>1
  <2>2. Meet(Card(S))
    BY <1>2, <2>1
  <2> QED
    BY <1>1, <2>2
<1> DEFINE g == [s \in SUBSET S |-> f[s]]
<1>4. ASSUME NEW s \in SUBSET S PROVE SumBody(h, s, g) = f[s]
  <2>1. \A x : g[s \ {x}] = f[s \ {x}]
    OBVIOUS
  <2>2. SumBody(h, s, g) = SumBody(h, s, f)
    BY <2>1 DEF SumBody
  <2> QED
    BY <1>3, <2>2
<1>5. g = [s \in SUBSET DOMAIN h |-> SumBody(h, s, g)]
  BY <1>4
<1> HIDE DEF g
<1>6. Partial(h) = [s \in SUBSET DOMAIN h |-> SumBody(h, s, Partial(h))]
  BY <1>5 DEF Partial
<1> QED
  BY <1>6

\* The member x is the one every sum over s takes first.
TakenApart(S, s, x) == \A h \in [S -> Nat] : Partial(h)[s] = h[x] + Partial(h)[s \ {x}]

LEMMA SumStep ==
  ASSUME NEW S, IsFiniteSet(S), NEW s \in SUBSET S, s # {}
  PROVE  \E x \in s : TakenApart(S, s, x)
<1> DEFINE x == CHOOSE y \in s : TRUE
<1>1. x \in s
  OBVIOUS
<1>2. ASSUME NEW h \in [S -> Nat] PROVE Partial(h)[s] = h[x] + Partial(h)[s \ {x}]
  <2>1. Partial(h)[s] = SumBody(h, s, Partial(h))
    BY SumsExist
  <2> QED
    BY <2>1 DEF SumBody
<1> QED
  BY <1>1, <1>2 DEF TakenApart

LEMMA SumOfNone ==
  ASSUME NEW S, IsFiniteSet(S), NEW h \in [S -> Nat]
  PROVE  Partial(h)[{}] = 0
<1>1. Partial(h)[{}] = SumBody(h, {}, Partial(h))
  BY SumsExist
<1> QED
  BY <1>1 DEF SumBody

\* One value more by k is a sum more by k.
Raised(S, h, g, b, k) == \A x \in S : g[x] = IF x = b THEN h[x] + k ELSE h[x]

SumRaised(h, g, k) == SumFunction(h) \in Nat /\ SumFunction(g) = SumFunction(h) + k

LEMMA SumAdds ==
  ASSUME NEW S, IsFiniteSet(S), NEW h \in [S -> Nat], NEW g \in [S -> Nat], NEW b \in S, NEW k \in Nat,
         Raised(S, h, g, b, k)
  PROVE  SumRaised(h, g, k)
<1> DEFINE Adds(s) == Partial(h)[s] \in Nat /\ Partial(g)[s] = Partial(h)[s] + (IF b \in s THEN k ELSE 0)
           B == {s \in SUBSET S : ~Adds(s)}
<1>1. B = {}
  <2>1. SUFFICES ASSUME B # {} PROVE FALSE
    OBVIOUS
  <2>2. PICK s \in B : \A x \in s : s \ {x} \notin B
    <3>1. B \in SUBSET SUBSET S
      OBVIOUS
    <3> HIDE DEF B
    <3> QED
      BY <2>1, <3>1, SmallestSet
  <2>3. s \in SUBSET S /\ ~Adds(s)
    BY <2>2
  <2>4. s # {}
    <3>1. Partial(h)[{}] = 0 /\ Partial(g)[{}] = 0
      BY SumOfNone
    <3> QED
      BY <2>3, <3>1
  <2>5. PICK x \in s : TakenApart(S, s, x)
    <3> HIDE DEF B, Adds
    <3> QED
      BY <2>3, <2>4, SumStep
  <2>6. Adds(s \ {x})
    BY <2>2, <2>3
  <2>7. h[x] \in Nat /\ g[x] = IF x = b THEN h[x] + k ELSE h[x]
    BY <2>3, <2>5 DEF Raised
  <2>8. Partial(h)[s] = h[x] + Partial(h)[s \ {x}] /\ Partial(g)[s] = g[x] + Partial(g)[s \ {x}]
    BY <2>5 DEF TakenApart
  <2> QED
    BY <2>3, <2>6, <2>7, <2>8
<1>2. Adds(S)
  BY <1>1
<1>3. DOMAIN h = S /\ DOMAIN g = S
  OBVIOUS
<1> QED
  BY <1>2, <1>3, SumIs DEF SumRaised

LEMMA SumZero ==
  ASSUME NEW S, IsFiniteSet(S), NEW h \in [S -> Nat], \A x \in S : h[x] = 0
  PROVE  SumFunction(h) = 0
<1> DEFINE B == {s \in SUBSET S : Partial(h)[s] # 0}
<1>1. B = {}
  <2>1. SUFFICES ASSUME B # {} PROVE FALSE
    OBVIOUS
  <2>2. PICK s \in B : \A x \in s : s \ {x} \notin B
    <3>1. B \in SUBSET SUBSET S
      OBVIOUS
    <3> HIDE DEF B
    <3> QED
      BY <2>1, <3>1, SmallestSet
  <2>3. s \in SUBSET S /\ Partial(h)[s] # 0
    BY <2>2
  <2>4. s # {}
    <3>1. Partial(h)[{}] = 0
      BY SumOfNone
    <3> QED
      BY <2>3, <3>1
  <2>5. PICK x \in s : TakenApart(S, s, x)
    <3> HIDE DEF B
    <3> QED
      BY <2>3, <2>4, SumStep
  <2>6. Partial(h)[s \ {x}] = 0
    BY <2>2, <2>3
  <2> QED
    BY <2>3, <2>5, <2>6 DEF TakenApart
<1>2. Partial(h)[S] = 0
  BY <1>1
<1>3. DOMAIN h = S
  OBVIOUS
<1> QED
  BY <1>2, <1>3, SumIs

-----------------------------------------------------------------------------
(* The split costs least.                                                    *)

\* How many calls of each bucket.
Mix == [Buckets -> Nat]

LEMMA Times ==
  ASSUME NEW x \in Nat, NEW y \in Nat
  PROVE  x * y \in Nat /\ (x + 1) * y = x * y + y /\ 0 * y = 0
OBVIOUS

LEMMA OneMoreCall ==
  ASSUME CostOK, NEW f \in Mix, NEW b \in Buckets, NEW g, g = [f EXCEPT ![b] = @ + 1]
  PROVE  /\ g \in Mix
         /\ Price(f) \in Nat /\ Price(g) = Price(f) + cost[b]
         /\ Capacity(f) \in Nat /\ Capacity(g) = Capacity(f) + b
<1>1. g \in Mix /\ \A x \in Buckets : g[x] = IF x = b THEN f[x] + 1 ELSE f[x]
  BY DEF Mix
<1>2. \A x \in Buckets : f[x] \in Nat /\ g[x] \in Nat /\ cost[x] \in Nat /\ x \in Nat
  BY <1>1, BucketIs DEF Mix, CostOK
<1>3. IsFiniteSet(Buckets)
  BY LibraryAssumption
<1>4. Price(f) \in Nat /\ Price(g) = Price(f) + cost[b]
  <2> DEFINE h == [x \in Buckets |-> f[x] * cost[x]]
             k == [x \in Buckets |-> g[x] * cost[x]]
             c == cost[b]
  <2>1. h \in [Buckets -> Nat] /\ k \in [Buckets -> Nat] /\ c \in Nat
    BY <1>2, Times
  <2>2. \A x \in Buckets : k[x] = IF x = b THEN h[x] + c ELSE h[x]
    <3>1. \A x \in Buckets : (f[x] + 1) * cost[x] = f[x] * cost[x] + cost[x]
      BY <1>2, Times
    <3> QED
      BY <1>1, <3>1
  <2>3. Price(f) = SumFunction(h) /\ Price(g) = SumFunction(k)
    BY DEF Price
  <2> HIDE DEF h, k, c
  <2>4. Raised(Buckets, h, k, b, c)
    BY <2>2 DEF Raised
  <2>5. SumRaised(h, k, c)
    BY <1>3, <2>1, <2>4, SumAdds
  <2> QED
    BY <2>3, <2>5 DEF SumRaised, c
<1>5. Capacity(f) \in Nat /\ Capacity(g) = Capacity(f) + b
  <2> DEFINE h == [x \in Buckets |-> f[x] * x]
             k == [x \in Buckets |-> g[x] * x]
  <2>1. h \in [Buckets -> Nat] /\ k \in [Buckets -> Nat] /\ b \in Nat
    BY <1>2, Times
  <2>2. \A x \in Buckets : k[x] = IF x = b THEN h[x] + b ELSE h[x]
    <3>1. \A x \in Buckets : (f[x] + 1) * x = f[x] * x + x
      BY <1>2, Times
    <3> QED
      BY <1>1, <3>1
  <2>3. Capacity(f) = SumFunction(h) /\ Capacity(g) = SumFunction(k)
    BY DEF Capacity
  <2> HIDE DEF h, k
  <2>4. Raised(Buckets, h, k, b, b)
    BY <2>2 DEF Raised
  <2>5. SumRaised(h, k, b)
    BY <1>3, <2>1, <2>4, SumAdds
  <2> QED
    BY <2>3, <2>5 DEF SumRaised
<1> QED
  BY <1>1, <1>4, <1>5

LEMMA OneCallLess ==
  ASSUME NEW f \in Mix, NEW b \in Buckets, f[b] # 0, NEW g, g = [f EXCEPT ![b] = @ - 1]
  PROVE  g \in Mix /\ f = [g EXCEPT ![b] = @ + 1]
<1>1. f \in [Buckets -> Nat] /\ f[b] \in Nat /\ f[b] - 1 \in Nat /\ f[b] - 1 + 1 = f[b]
  BY DEF Mix
<1>2. g \in [Buckets -> Nat] /\ g[b] + 1 = f[b]
  BY <1>1
<1>3. \A x \in Buckets : f[x] = [g EXCEPT ![b] = @ + 1][x]
  BY <1>1, <1>2
<1>4. DOMAIN [g EXCEPT ![b] = @ + 1] = Buckets
  BY <1>2
<1> QED
  BY <1>1, <1>2, <1>3, <1>4 DEF Mix

LEMMA NoCalls ==
  ASSUME CostOK, NEW f \in Mix, \A x \in Buckets : f[x] = 0
  PROVE  Price(f) = 0 /\ Capacity(f) = 0
<1>1. \A x \in Buckets : cost[x] \in Nat /\ x \in Nat
  BY BucketIs DEF CostOK
<1>2. IsFiniteSet(Buckets)
  BY LibraryAssumption
<1> DEFINE h == [x \in Buckets |-> f[x] * cost[x]]
           k == [x \in Buckets |-> f[x] * x]
<1>3. h \in [Buckets -> Nat] /\ \A x \in Buckets : h[x] = 0
  BY <1>1, Times
<1>4. k \in [Buckets -> Nat] /\ \A x \in Buckets : k[x] = 0
  BY <1>1, Times
<1>5. Price(f) = SumFunction(h) /\ Capacity(f) = SumFunction(k)
  BY DEF Price, Capacity
<1> HIDE DEF h, k
<1> QED
  BY <1>2, <1>3, <1>4, <1>5, SumZero

\* The tokens left after a call.
LEMMA LeftIs ==
  ASSUME NEW n \in 1 .. Context, NEW b \in Buckets
  PROVE  /\ Max({n - b, 0}) = (IF n - b >= 0 THEN n - b ELSE 0)
         /\ Max({n - b, 0}) \in 0 .. Context /\ Max({n - b, 0}) < n
         /\ Max({n - b, 0}) = n - Min({n, b})
<1>1. n \in Nat /\ n >= 1 /\ n <= Context /\ Context \in Nat /\ b \in Nat /\ b >= 1
  BY BucketIs, LibraryAssumption
<1>2. Min({n, b}) = IF n <= b THEN n ELSE b
  BY <1>1, MinTwo
<1>3. Max({n - b, 0}) = IF n - b >= 0 THEN n - b ELSE 0
  <2> DEFINE a == n - b
  <2>1. a \in Int
    BY <1>1
  <2> HIDE DEF a
  <2>2. Max({a, 0}) = IF a >= 0 THEN a ELSE 0
    BY <2>1, MaxZero
  <2> QED
    BY <2>2 DEF a
<1> DEFINE x == Max({n - b, 0})
           y == Min({n, b})
<1>4. x = (IF n - b >= 0 THEN n - b ELSE 0) /\ y = (IF n <= b THEN n ELSE b)
  BY <1>2, <1>3
<1> HIDE DEF x, y
<1>5. x \in 0 .. Context /\ x < n /\ x = n - y
  BY <1>1, <1>4
<1> QED
  BY <1>3, <1>5 DEF x, y

LEMMA CostOfNone == LeastCost[0] = 0
<1>1. 0 \in 0 .. Context
  BY LibraryAssumption
<1> QED
  BY <1>1, LeastCostIs

LEMMA CostOfSome ==
  ASSUME CostOK, NEW n \in 1 .. Context
  PROVE  /\ \A b \in Buckets : LeastCost[n] <= cost[b] + LeastCost[Max({n - b, 0})]
         /\ \E b \in Buckets : LeastCost[n] = cost[b] + LeastCost[Max({n - b, 0})]
<1> DEFINE S == {cost[c] + LeastCost[Max({n - c, 0})] : c \in Buckets}
<1>1. S \in SUBSET Nat /\ S # {}
  <2>1. ASSUME NEW c \in Buckets PROVE cost[c] + LeastCost[Max({n - c, 0})] \in Nat
    <3> DEFINE y == Max({n - c, 0})
    <3>1. y \in 0 .. Context /\ cost[c] \in Nat
      BY LeftIs DEF CostOK
    <3> HIDE DEF y
    <3>2. LeastCost[y] \in Nat
      BY <3>1, LeastCostType
    <3> QED
      BY <3>1, <3>2 DEF y
  <2> QED
    BY <2>1, LibraryAssumption
<1>2. n \in 0 .. Context /\ n # 0
  BY LibraryAssumption
<1>3. LeastCost[n] = Min(S)
  BY <1>2, LeastCostIs
<1>4. LeastCost[n] \in S /\ \A y \in S : LeastCost[n] <= y
  <2> HIDE DEF S
  <2> QED
    BY <1>1, <1>3, MinIs
<1> QED
  BY <1>4

\* No calls with room for n tokens cost less than the recurrence says: take a call away, and
\* those left have room for the tokens left ...
LEMMA CostIsLeast ==
  ASSUME CostOK
  PROVE  \A n \in 0 .. Context : \A f \in Mix : Capacity(f) >= n => LeastCost[n] <= Price(f)
<1> DEFINE Cheap(n) == \A f \in Mix : Capacity(f) >= n => LeastCost[n] <= Price(f)
           T == {n \in 0 .. Context : ~Cheap(n)}
<1>1. SUFFICES ASSUME T # {} PROVE FALSE
  OBVIOUS
<1>2. PICK n \in T : \A k \in T : n <= k
  <2>1. T \in SUBSET Nat
    OBVIOUS
  <2> HIDE DEF T
  <2> QED
    BY <1>1, <2>1, LeastNumber
<1>3. n \in 0 .. Context /\ n \in Nat /\ n <= Context /\ Context \in Nat
  BY <1>2, LibraryAssumption
<1>4. PICK f \in Mix : Capacity(f) >= n /\ ~(LeastCost[n] <= Price(f))
  BY <1>2
<1>5. Price(f) \in Nat /\ Capacity(f) \in Nat
  <2>1. PICK b \in Buckets : TRUE
    BY LibraryAssumption
  <2> QED
    BY OneMoreCall
<1>6. n # 0
  <2>1. LeastCost[0] = 0
    BY CostOfNone
  <2> QED
    BY <1>4, <1>5, <2>1
<1>7. n \in 1 .. Context
  BY <1>3, <1>6
<1>8. PICK b \in Buckets : f[b] # 0
  BY <1>3, <1>4, <1>6, NoCalls
<1> DEFINE g == [f EXCEPT ![b] = @ - 1]
           x == Max({n - b, 0})
<1>9. g \in Mix /\ f = [g EXCEPT ![b] = @ + 1]
  BY <1>8, OneCallLess
<1> HIDE DEF g
<1>10. /\ Price(g) \in Nat /\ Price(f) = Price(g) + cost[b]
       /\ Capacity(g) \in Nat /\ Capacity(f) = Capacity(g) + b
  BY <1>9, OneMoreCall
<1>11. b \in Nat /\ b >= 1 /\ cost[b] \in Nat
  BY BucketIs DEF CostOK
<1>12. x = (IF n - b >= 0 THEN n - b ELSE 0) /\ x \in 0 .. Context /\ x < n
  BY <1>7, LeftIs
<1>13. LeastCost[n] <= cost[b] + LeastCost[x]
  BY <1>7, CostOfSome
<1> HIDE DEF x
<1>14. Capacity(g) >= x
  BY <1>3, <1>4, <1>10, <1>11, <1>12
<1>15. LeastCost[x] <= Price(g)
  <2>1. ~(n <= x) /\ x \in 0 .. Context
    BY <1>3, <1>12
  <2>2. Cheap(x)
    <3>1. x \notin T
      <4> HIDE DEF T, Cheap
      <4> QED
        BY <1>2, <2>1
    <3> QED
      BY <2>1, <3>1
  <2> QED
    BY <1>9, <1>14, <2>2
<1>16. LeastCost[x] \in Nat /\ LeastCost[n] \in Nat
  BY <1>3, <1>12, LeastCostType
<1> QED
  BY <1>4, <1>5, <1>10, <1>11, <1>13, <1>15, <1>16

\* ... and the calls of plan_split() cost that.
LEMMA PlanIs ==
  ASSUME CostOK, NEW r \in 1 .. Context
  PROVE  Plan[r] \in Buckets /\ cost[Plan[r]] + LeastCost[Max({r - Plan[r], 0})] = LeastCost[r]
<1> DEFINE B == {b \in Buckets : cost[b] + LeastCost[Max({r - b, 0})] = LeastCost[r]}
<1>4. B # {}
  BY CostOfSome
<1>5. B \in SUBSET Buckets /\ B \in SUBSET Nat /\ IsFiniteSet(B)
  <2>1. B \in SUBSET Buckets
    OBVIOUS
  <2> HIDE DEF B
  <2> QED
    BY <2>1, LibraryAssumption, FS_Subset
<1>6. Plan[r] = Max(B)
  BY DEF Plan
<1>7. Plan[r] \in B
  <2> HIDE DEF B
  <2> QED
    BY <1>4, <1>5, <1>6, MaxIs
<1> QED
  BY <1>7

\* The calls of one bucket: one call in front is one more of its bucket.
Share(s, b) == {i \in DOMAIN s : s[i].bucket = b}

LEMMA ShareIs ==
  ASSUME NEW s \in Seq(Call), NEW b
  PROVE  /\ IsFiniteSet(Share(s, b)) /\ Cardinality(Share(s, b)) \in Nat
         /\ Share(s, b) \in SUBSET (1 .. Len(s)) /\ Share(<<>>, b) = {}
<1>1. DOMAIN s = 1 .. Len(s) /\ Len(s) \in Nat
  OBVIOUS
<1>2. Share(s, b) \in SUBSET (1 .. Len(s)) /\ Share(<<>>, b) = {}
  BY <1>1 DEF Share
<1>3. IsFiniteSet(1 .. Len(s))
  BY <1>1, FS_Interval
<1> QED
  BY <1>2, <1>3, FS_Subset, FS_CardinalityType

Onto(u, c, s) == u = <<c>> \o s

LEMMA ShareAfter ==
  ASSUME NEW s \in Seq(Call), NEW c \in Call, NEW u, Onto(u, c, s), NEW b
  PROVE  Cardinality(Share(u, b)) = Cardinality(Share(s, b)) + (IF b = c.bucket THEN 1 ELSE 0)
<1>1. Len(s) \in Nat /\ DOMAIN s = 1 .. Len(s)
  OBVIOUS
<1>2. u \in Seq(Call) /\ Len(u) = 1 + Len(s) /\ u[1] = c /\ \A j \in 1 .. Len(s) : u[j + 1] = s[j]
  BY DEF Onto
<1>3. DOMAIN u = 1 .. Len(s) + 1
  BY <1>1, <1>2
<1> DEFINE A == Share(s, b)
           B == {i + 1 : i \in A}
<1>4. IsFiniteSet(A) /\ A \in SUBSET (1 .. Len(s)) /\ Cardinality(A) \in Nat
  BY ShareIs
<1>5. IsFiniteSet(B) /\ Cardinality(B) = Cardinality(A)
  <2> DEFINE f == [i \in A |-> i + 1]
  <2>1. f \in Bijection(A, B)
    <3>1. A \in SUBSET Nat
      BY <1>1, <1>4
    <3>2. \A x \in A : x \in Nat /\ f[x] = x + 1 /\ x + 1 \in B
      BY <3>1
    <3>3. \A y \in B : \E x \in A : f[x] = y
      OBVIOUS
    <3>4. f \in [A -> B]
      OBVIOUS
    <3> HIDE DEF f, A, B
    <3>5. \A x, y \in A : f[x] = f[y] => x = y
      BY <3>2
    <3>6. f \in Surjection(A, B)
      BY <3>3, <3>4 DEF Surjection
    <3>7. f \in Injection(A, B)
      BY <3>4, <3>5 DEF Injection, IsInjective
    <3> QED
      BY <3>6, <3>7 DEF Bijection
  <2> HIDE DEF f, A, B
  <2> QED
    BY <1>4, <2>1, FS_Bijection DEF ExistsBijection
<1>6. 1 \notin B
  BY <1>1, <1>4
<1>7. \A x : x \in Share(u, b) <=> x \in (IF b = c.bucket THEN B \cup {1} ELSE B)
  <2>1. ASSUME NEW x \in Share(u, b) PROVE x \in (IF b = c.bucket THEN B \cup {1} ELSE B)
    <3>1. x \in 1 .. Len(s) + 1 /\ u[x].bucket = b
      BY <1>3 DEF Share
    <3>2. CASE x = 1
      BY <1>2, <3>1, <3>2
    <3>3. CASE x # 1
      <4> DEFINE j == x - 1
      <4>1. j \in 1 .. Len(s) /\ x = j + 1
        BY <1>1, <3>1, <3>3
      <4> HIDE DEF j
      <4>2. s[j].bucket = b
        BY <1>2, <3>1, <4>1
      <4>3. j \in A
        BY <1>1, <4>1, <4>2 DEF Share
      <4> QED
        BY <4>1, <4>3
    <3> QED
      BY <3>2, <3>3
  <2>2. ASSUME NEW j \in A PROVE j + 1 \in Share(u, b)
    <3>1. j \in 1 .. Len(s) /\ s[j].bucket = b
      BY <1>4 DEF Share
    <3>2. u[j + 1].bucket = b /\ j + 1 \in 1 .. Len(s) + 1
      BY <1>1, <1>2, <3>1
    <3> QED
      BY <1>3, <3>2 DEF Share
  <2>3. ASSUME b = c.bucket PROVE 1 \in Share(u, b)
    BY <1>1, <1>2, <1>3, <2>3 DEF Share
  <2> QED
    BY <2>1, <2>2, <2>3
<1> HIDE DEF B, A
<1>8. Share(u, b) = IF b = c.bucket THEN B \cup {1} ELSE B
  BY <1>7
<1>9. CASE b = c.bucket
  <2>1. Cardinality(B \cup {1}) = Cardinality(B) + 1
    BY <1>5, <1>6, FS_AddElement
  <2> QED
    BY <1>5, <1>8, <1>9, <2>1 DEF A
<1>10. CASE b # c.bucket
  BY <1>4, <1>5, <1>8, <1>10 DEF A
<1> QED
  BY <1>9, <1>10

LEMMA UsedIs ==
  ASSUME NEW s \in Seq(Call)
  PROVE  Used(s) \in Mix /\ \A b \in Buckets : Used(s)[b] = Cardinality(Share(s, b))
<1>1. Used(s) = [b \in Buckets |-> Cardinality(Share(s, b))]
  BY DEF Used, Share
<1>2. \A b \in Buckets : Cardinality(Share(s, b)) \in Nat
  BY ShareIs
<1> QED
  BY <1>1, <1>2 DEF Mix

LEMMA UsedAfter ==
  ASSUME NEW s \in Seq(Call), NEW c \in Call, c.bucket \in Buckets, NEW u, Onto(u, c, s)
  PROVE  Used(u) = [Used(s) EXCEPT ![c.bucket] = @ + 1]
<1>1. u \in Seq(Call)
  BY DEF Onto
<1>2. /\ Used(s) \in [Buckets -> Nat] /\ \A b \in Buckets : Used(s)[b] = Cardinality(Share(s, b))
      /\ Used(u) \in [Buckets -> Nat] /\ \A b \in Buckets : Used(u)[b] = Cardinality(Share(u, b))
  BY <1>1, UsedIs DEF Mix
<1>3. \A b \in Buckets : Cardinality(Share(u, b)) = Cardinality(Share(s, b)) + (IF b = c.bucket THEN 1 ELSE 0)
  BY ShareAfter
<1> DEFINE f == Used(s)
           g == Used(u)
           d == c.bucket
<1>4. /\ f \in [Buckets -> Nat] /\ g \in [Buckets -> Nat] /\ d \in Buckets
      /\ \A b \in Buckets : g[b] = f[b] + (IF b = d THEN 1 ELSE 0)
  BY <1>2, <1>3
<1> HIDE DEF f, g, d
<1> DEFINE h == [f EXCEPT ![d] = @ + 1]
<1>5. h \in [Buckets -> Nat] /\ \A b \in Buckets : h[b] = f[b] + (IF b = d THEN 1 ELSE 0)
  <2>1. f[d] + 1 \in Nat /\ \A b \in Buckets : f[b] + 0 = f[b]
    BY <1>4
  <2> QED
    BY <1>4, <2>1
<1>6. \A b \in Buckets : g[b] = h[b]
  BY <1>4, <1>5
<1>7. g = h
  <2> HIDE DEF h
  <2> QED
    BY <1>4, <1>5, <1>6
<1> QED
  BY <1>7 DEF f, g, d

\* The calls for n tokens.
Cheapest(s, n) ==
  /\ s \in Seq(Call)
  /\ \A i \in 1 .. Len(s) - 1 : s[i].rows = s[i].bucket
  /\ Used(s) \in Mix /\ Capacity(Used(s)) >= n /\ Price(Used(s)) = LeastCost[n]

LEMMA CallsAreCheapest ==
  ASSUME CostOK, PickOK, pick = Plan
  PROVE  \A n \in 0 .. Context : Cheapest(Calls[n], n)
<1> DEFINE T == {n \in 0 .. Context : ~Cheapest(Calls[n], n)}
<1>1. SUFFICES ASSUME T # {} PROVE FALSE
  OBVIOUS
<1>2. PICK n \in T : \A k \in T : n <= k
  <2>1. T \in SUBSET Nat
    OBVIOUS
  <2> HIDE DEF T
  <2> QED
    BY <1>1, <2>1, LeastNumber
<1>3. n \in 0 .. Context /\ ~Cheapest(Calls[n], n) /\ Context \in Nat /\ n \in Nat /\ n <= Context
  BY <1>2, LibraryAssumption
<1>4. Calls[n] \in Seq(Call)
  BY <1>3, CallsCover DEF Covers
<1>5. CASE n = 0
  <2>1. Calls[n] = <<>>
    BY <1>3, <1>5, CallsIs
  <2>2. Used(<<>>) \in Mix /\ \A b \in Buckets : Used(<<>>)[b] = 0
    <3>1. <<>> \in Seq(Call)
      OBVIOUS
    <3>2. \A b \in Buckets : Cardinality(Share(<<>>, b)) = 0
      BY <3>1, ShareIs, FS_EmptySet
    <3> QED
      BY <3>1, <3>2, UsedIs
  <2>3. Price(Used(<<>>)) = 0 /\ Capacity(Used(<<>>)) = 0
    BY <2>2, NoCalls
  <2>4. Len(Calls[n]) = 0
    BY <2>1
  <2> QED
    BY <1>3, <1>4, <1>5, <2>1, <2>2, <2>3, <2>4, CostOfNone DEF Cheapest
<1>6. CASE n # 0
  <2> DEFINE b == pick[n]
             k == Min({n, b})
             r == n - k
             c == [left |-> n, rows |-> k, bucket |-> b]
  <2>1. n \in 1 .. Context
    BY <1>3, <1>6
  <2>2. b \in Buckets /\ b \in Nat /\ k \in 1 .. n /\ r \in 0 .. Context /\ ~(n <= r)
    <3>1. b \in Buckets /\ b \in Nat
      BY <2>1, BucketIs DEF PickOK
    <3>2. k \in 1 .. n
      BY <2>1, FirstTakes
    <3> HIDE DEF k
    <3> QED
      BY <1>3, <3>1, <3>2
  <2>3. k = (IF n <= b THEN n ELSE b)
    BY <2>2, <1>3, MinTwo
  <2>4. Calls[n] = <<c>> \o Calls[r]
    BY <1>3, <1>6, CallsIs
  <2>5. cost[b] + LeastCost[r] = LeastCost[n]
    <3>1. Max({n - b, 0}) = r
      BY <2>1, <2>2, LeftIs
    <3>2. cost[Plan[n]] + LeastCost[Max({n - Plan[n], 0})] = LeastCost[n]
      BY <2>1, PlanIs
    <3> QED
      BY <3>1, <3>2
  <2>6. c \in Call /\ c.bucket = b /\ c.rows = k
    <3> HIDE DEF k, b
    <3> QED
      BY <1>3, <2>2 DEF Call
  <2> HIDE DEF c
  <2>7. Cheapest(Calls[r], r)
    <3>1. r \notin T
      <4> HIDE DEF T, r
      <4> QED
        BY <1>2, <2>2
    <3> QED
      BY <2>2, <3>1
  <2>8. r = 0 => Calls[r] = <<>>
    BY <2>2, CallsIs
  <2>9. r = n - k /\ k \in Nat
    BY <2>2
  <2> HIDE DEF b, k, r
  <2> DEFINE s == Calls[r]
             u == Calls[n]
  <2>10. s \in Seq(Call) /\ Onto(u, c, s)
    BY <2>4, <2>7 DEF Cheapest, Onto
  <2>11. Used(u) \in Mix /\ Price(Used(u)) = LeastCost[n] /\ Capacity(Used(u)) >= n
    <3> DEFINE f == Used(s)
               g == Used(u)
    <3>1. f \in Mix /\ Capacity(f) >= r /\ Price(f) = LeastCost[r]
      BY <2>7 DEF Cheapest
    <3>2. g = [f EXCEPT ![b] = @ + 1]
      BY <2>2, <2>6, <2>10, UsedAfter
    <3> HIDE DEF f, g
    <3>3. /\ g \in Mix /\ Price(f) \in Nat /\ Price(g) = Price(f) + cost[b]
          /\ Capacity(f) \in Nat /\ Capacity(g) = Capacity(f) + b
      BY <2>2, <3>1, <3>2, OneMoreCall
    <3>4. cost[b] \in Nat
      BY <2>2 DEF CostOK
    <3>5. Price(g) = LeastCost[n] /\ Capacity(g) >= n
      BY <1>3, <2>2, <2>3, <2>5, <2>9, <3>1, <3>3, <3>4
    <3> QED
      BY <3>3, <3>5 DEF g
  <2>12. ASSUME NEW i \in 1 .. Len(u) - 1 PROVE u[i].rows = u[i].bucket
    <3>1. Len(u) = Len(s) + 1 /\ u[1] = c /\ Len(s) \in Nat /\ \A j \in 1 .. Len(s) : u[j + 1] = s[j]
      BY <2>6, <2>10 DEF Onto
    <3>2. CASE i = 1
      <4>1. Len(s) # 0
        BY <3>1, <3>2
      <4>2. r # 0
        BY <2>8, <4>1
      <4>3. k = b
        BY <1>3, <2>2, <2>3, <2>9, <4>2
      <4> QED
        BY <2>6, <3>1, <3>2, <4>3
    <3>3. CASE i # 1
      <4> DEFINE j == i - 1
      <4>1. j \in 1 .. Len(s) - 1 /\ i = j + 1
        BY <3>1, <3>3
      <4> HIDE DEF j
      <4>2. s[j].rows = s[j].bucket
        BY <2>7, <4>1 DEF Cheapest
      <4>3. j \in 1 .. Len(s)
        BY <3>1, <4>1
      <4> QED
        BY <3>1, <4>1, <4>2, <4>3
    <3> QED
      BY <3>2, <3>3
  <2> QED
    BY <1>3, <1>4, <2>11, <2>12 DEF Cheapest
<1> QED
  BY <1>5, <1>6

LEMMA SplitsAreLeast ==
  ASSUME CostOK, PickOK, pick = Plan
  PROVE  \A n \in 1 .. Context - 1 : Split(n)
<1> TAKE n \in 1 .. Context - 1
<1>1. n \in 0 .. Context /\ n \in Nat
  BY LibraryAssumption
<1> DEFINE s == Calls[n]
<1>2. Cheapest(s, n)
  BY <1>1, CallsAreCheapest
<1>3. ASSUME NEW f \in [Buckets -> 0 .. n], Capacity(f) >= n PROVE Price(Used(s)) <= Price(f)
  <2>1. f \in Mix
    BY <1>1 DEF Mix
  <2>2. LeastCost[n] <= Price(f)
    BY <1>1, <1>3, <2>1, CostIsLeast
  <2> QED
    BY <1>2, <2>2 DEF Cheapest
<1> HIDE DEF s
<1>4. /\ \A i \in 1 .. Len(s) - 1 : s[i].rows = s[i].bucket
      /\ Capacity(Used(s)) >= n
      /\ \A f \in [Buckets -> 0 .. n] : Capacity(f) >= n => Price(Used(s)) <= Price(f)
  BY <1>2, <1>3 DEF Cheapest
<1> QED
  BY <1>4 DEF Split, s

\* Whatever the buckets cost, llm_open() leaves a table by which every prefill is split into
\* calls that take its tokens in order, padding only the last, and that cost no more than any
\* other calls with room for them (plan_split()).
THEOREM SplitsCostLeast == Spec => SplitIsLeast
<1> DEFINE A == CostOK /\ PickOK /\ pick = Plan
           B == \A n \in 1 .. Context - 1 : Split(n)
<1>1. A => B
  BY SplitsAreLeast
<1>2. LlmInv /\ [Next]_vars => [Open => A']_libVars
  <2> SUFFICES ASSUME LlmInv, Open PROVE A'
    OBVIOUS
  <2>1. CostOK /\ cost' = cost /\ pick' = Plan
    BY CostType DEF LlmInv, LibInv, Open
  <2>2. Plan' = Plan
    BY <2>1 DEF Plan, LeastCost
  <2>3. Plan \in [1 .. Context -> Buckets]
    BY <2>1, PlanType
  <2> QED
    BY <2>1, <2>2, <2>3 DEF CostOK, PickOK
<1>3. A' => B'
  BY <1>1, PTL
<1> QED
  BY <1>2, <1>3, SessionInvariant, PTL DEF Spec, SplitIsLeast
=============================================================================
