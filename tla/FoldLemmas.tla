------------------------------ MODULE FoldLemmas ------------------------------
(***************************************************************************)
(* What FoldLeft computes, step by step.  The fold is a recursive function *)
(* over sets of indices; here it is shown to run along the sequence, from  *)
(* the base to the result.  The provers cannot instantiate a lemma about   *)
(* any operator, so the operator is given as a function F on a set V that  *)
(* it does not leave, and each fold of a model has a lemma of its own that *)
(* puts its definition in this form.                                       *)
(***************************************************************************)
EXTENDS Integers, Sequences, FiniteSets, SequencesExt, NaturalsInduction, WellFoundedInduction,
        TLAPS

\* A set of natural numbers that is not empty has a least element.
LEMMA LeastOf ==
  ASSUME NEW S \in SUBSET Nat, S # {}
  PROVE  \E m \in S : \A k \in S : m <= k
<1>1. IsWellFoundedOn(OpToRel(<, Nat), Nat)
  BY NatLessThanWellFounded
<1>2. PICK m \in S : \A k \in S : ~(<<k, m>> \in OpToRel(<, Nat))
  BY <1>1, WFMin
<1>3. \A k \in S : ~(k < m)
  BY <1>2 DEF OpToRel
<1>4. QED
  BY <1>3

\* A set of indices that holds 0 and with each index the next holds all.
LEMMA AllIndices ==
  ASSUME NEW n \in Nat, NEW K, 0 \in K, \A k \in 1..n : k - 1 \in K => k \in K
  PROVE  \A k \in 0..n : k \in K
<1> DEFINE S == {k \in 0..n : k \notin K}
<1>1. SUFFICES ASSUME S # {} PROVE FALSE
  OBVIOUS
<1>2. PICK m \in S : \A k \in S : m <= k
  <2>1. S \in SUBSET Nat
    OBVIOUS
  <2> HIDE DEF S
  <2>2. QED
    BY <1>1, <2>1, LeastOf
<1>3. m # 0 /\ m - 1 \in 0..n /\ m - 1 \notin S
  BY <1>2
<1>4. QED
  BY <1>2, <1>3

\* The greatest of some indices is one of them.
LEMMA MaxIs ==
  ASSUME NEW n \in Nat, NEW t \in SUBSET (1..n), t # {}
  PROVE  Max(t) \in t /\ \A x \in t : x <= Max(t)
<1> DEFINE S == {n - x : x \in t}
<1>1. S \in SUBSET Nat /\ S # {}
  <2>1. \A x \in t : x \in Nat /\ n - x \in Nat
    OBVIOUS
  <2>2. PICK x \in t : TRUE
    OBVIOUS
  <2>3. n - x \in S
    BY <2>2
  <2>4. QED
    BY <2>1, <2>3
<1>2. PICK m \in S : \A k \in S : m <= k
  <2> HIDE DEF S
  <2>2. QED
    BY <1>1, LeastOf
<1>3. n - m \in t /\ \A x \in t : n - m >= x
  BY <1>2
<1>4. QED
  BY <1>3 DEF Max

\* Without the last index, the first k are the first k - 1.
LEMMA MaxOfPrefix ==
  ASSUME NEW k \in Nat \ {0}
  PROVE  Max(1..k) = k /\ (1..k) \ {k} = 1..(k - 1) /\ 1..k # {}
<1>1. k \in 1..k
  OBVIOUS
<1>2. Max(1..k) \in 1..k /\ \A x \in 1..k : x <= Max(1..k)
  BY <1>1, MaxIs
<1>3. Max(1..k) = k
  BY <1>1, <1>2
<1>4. (1..k) \ {k} = 1..(k - 1)
  OBVIOUS
<1>5. QED
  BY <1>1, <1>3, <1>4

\* A fold over some indices takes an element and leaves fewer indices.
LEMMA MaxIn ==
  ASSUME NEW s, Len(s) \in Nat, DOMAIN s = 1..Len(s), NEW t \in SUBSET DOMAIN s, t # {}
  PROVE  Max(t) \in DOMAIN s /\ t \ {Max(t)} \in SUBSET DOMAIN s
<1>1. Max(t) \in t
  BY MaxIs
<1>2. QED
  BY <1>1

\* The subsets of the indices, and among them the prefixes.
LEMMA Subsets ==
  ASSUME NEW D, NEW s \in Seq(D)
  PROVE  /\ Len(s) \in Nat /\ DOMAIN s = 1..Len(s) /\ {} \in SUBSET DOMAIN s
         /\ \A t \in SUBSET DOMAIN s : t # {} =>
              Max(t) \in DOMAIN s /\ t \ {Max(t)} \in SUBSET DOMAIN s /\ s[Max(t)] \in D
         /\ \A k \in 1..Len(s) :
              /\ 1..k \in SUBSET DOMAIN s /\ 1..k # {} /\ s[k] \in D
              /\ Max(1..k) = k /\ (1..k) \ {k} = 1..(k - 1)
<1>1. Len(s) \in Nat /\ DOMAIN s = 1..Len(s) /\ \A k \in 1..Len(s) : s[k] \in D
  OBVIOUS
<1>2. ASSUME NEW t \in SUBSET DOMAIN s, t # {}
      PROVE  Max(t) \in DOMAIN s /\ t \ {Max(t)} \in SUBSET DOMAIN s
  BY <1>1, <1>2, MaxIn
<1>3. ASSUME NEW k \in 1..Len(s)
      PROVE  /\ 1..k \in SUBSET DOMAIN s /\ 1..k # {}
             /\ Max(1..k) = k /\ (1..k) \ {k} = 1..(k - 1)
  <2>1. PICK n \in Nat : n = Len(s)
    BY <1>1
  <2>2. k \in 1..n /\ DOMAIN s = 1..n
    BY <1>1, <2>1
  <2>3. 1..k \subseteq 1..n /\ k \in 1..k
    BY <2>1, <2>2
  <2>4. k \in Nat \ {0}
    BY <2>1, <2>2
  <2>5. Max(1..k) = k /\ (1..k) \ {k} = 1..(k - 1)
    BY <2>4, MaxOfPrefix
  <2>6. QED
    BY <2>2, <2>3, <2>5
<1>4. QED
  BY <1>1, <1>2, <1>3

-----------------------------------------------------------------------------
\* A fold of the function F over s, from base: the function on sets of indices that
\* FoldLeft defines, what is asked of its values along the prefixes of s, and the trail
\* of these values from the base to the result.
Foldable(F, V, D, base, s) == base \in V /\ F \in [V \X D -> V] /\ s \in Seq(D)
Iteration(g, F, base, s) ==
  \A t \in SUBSET DOMAIN s :
    g[t] = IF t = {} THEN base ELSE F[<<g[t \ {Max(t)}], s[Max(t)]>>]
Chained(h, F, V, base, s) ==
  \A t \in SUBSET DOMAIN s :
    IF t = {} THEN h[t] = base
    ELSE h[t \ {Max(t)}] \in V => h[t] = F[<<h[t \ {Max(t)}], s[Max(t)]>>]
Trail(r, F, base, s) ==
  /\ r[0] = base
  /\ \A k \in 1..Len(s) : r[k] = F[<<r[k - 1], s[k]>>]

\* The function on sets of indices exists.
LEMMA IterExists ==
  ASSUME NEW V, NEW D, NEW base, NEW F, NEW s, Foldable(F, V, D, base, s)
  PROVE  \E g \in [SUBSET DOMAIN s -> V] : Iteration(g, F, base, s)
<1> base \in V /\ F \in [V \X D -> V] /\ s \in Seq(D)
  BY DEF Foldable
<1> DEFINE Good(m) == \E g \in [SUBSET (1..m) -> V] : \A t \in SUBSET (1..m) :
                         g[t] = IF t = {} THEN base ELSE F[<<g[t \ {Max(t)}], s[Max(t)]>>]
           K == {k \in Nat : Good(k)}
<1>1. Good(0)
  <2>1. 1..0 = {}
    OBVIOUS
  <2> DEFINE g == [t \in SUBSET (1..0) |-> base]
  <2>2. g \in [SUBSET (1..0) -> V] /\ \A t \in SUBSET (1..0) : t = {} /\ g[t] = base
    BY <2>1
  <2> HIDE DEF g
  <2>3. QED
    BY <2>2
<1>2. ASSUME NEW m \in 1..Len(s), Good(m - 1) PROVE Good(m)
  <2>1. PICK g \in [SUBSET (1..(m - 1)) -> V] : \A t \in SUBSET (1..(m - 1)) :
          g[t] = IF t = {} THEN base ELSE F[<<g[t \ {Max(t)}], s[Max(t)]>>]
    BY <1>2
  <2> DEFINE h == [t \in SUBSET (1..m) |-> IF m \in t THEN F[<<g[t \ {m}], s[m]>>] ELSE g[t]]
  <2>2. s[m] \in D
    OBVIOUS
  <2>3. ASSUME NEW t \in SUBSET (1..m)
        PROVE  /\ t \ {m} \in SUBSET (1..(m - 1))
               /\ m \in t => Max(t) = m
               /\ m \notin t => t \in SUBSET (1..(m - 1))
               /\ t # {} => Max(t) \in t
               /\ t \ {Max(t)} \in SUBSET (1..m)
               /\ m \notin t => t \ {Max(t)} \in SUBSET (1..(m - 1))
    <3>1. m \in Nat
      OBVIOUS
    <3>2. t # {} => Max(t) \in t /\ \A x \in t : x <= Max(t)
      BY <3>1, MaxIs
    <3>3. \A x \in t : x \in Nat /\ 1 <= x /\ x <= m
      OBVIOUS
    <3>4. ASSUME m \in t PROVE Max(t) = m
      <4>1. t # {}
        BY <3>4
      <4>2. Max(t) \in t /\ m <= Max(t)
        BY <3>2, <3>4, <4>1
      <4>3. Max(t) \in Nat /\ Max(t) <= m
        BY <3>3, <4>2
      <4>4. QED
        BY <3>1, <4>2, <4>3
    <3>5. \A x \in t : x # m => x \in 1..(m - 1)
      BY <3>3
    <3>6. QED
      BY <3>2, <3>4, <3>5
  <2>4. h \in [SUBSET (1..m) -> V]
    <3>1. ASSUME NEW t \in SUBSET (1..m) PROVE h[t] \in V
      BY <2>2, <2>3
    <3>2. QED
      BY <3>1
  <2>5. ASSUME NEW t \in SUBSET (1..m)
        PROVE  h[t] = IF t = {} THEN base ELSE F[<<h[t \ {Max(t)}], s[Max(t)]>>]
    <3>1. CASE m \in t
      <4>1. h[t \ {m}] = g[t \ {m}]
        BY <2>3
      <4>2. QED
        BY <3>1, <4>1, <2>3
    <3>2. CASE m \notin t
      <4>1. h[t] = g[t] /\ h[t \ {Max(t)}] = g[t \ {Max(t)}]
        BY <3>2, <2>3
      <4>2. g[t] = IF t = {} THEN base ELSE F[<<g[t \ {Max(t)}], s[Max(t)]>>]
        BY <2>1, <2>3, <3>2
      <4>3. QED
        BY <4>1, <4>2
    <3>3. QED
      BY <3>1, <3>2
  <2> HIDE DEF h
  <2>6. QED
    BY <2>4, <2>5
<1>3. Len(s) \in Nat /\ DOMAIN s = 1..Len(s)
  OBVIOUS
<1>4. \A k \in 0..Len(s) : k \in K
  <2>1. 0 \in K /\ \A k \in 1..Len(s) : k - 1 \in K => k \in K
    <3> HIDE DEF Good
    <3>1. \A k \in 1..Len(s) : k \in Nat
      BY <1>3
    <3>2. QED
      BY <1>1, <1>2, <3>1
  <2> HIDE DEF K
  <2>2. QED
    BY <1>3, <2>1, AllIndices
<1>5. Good(Len(s))
  <2> HIDE DEF Good
  <2>1. Len(s) \in K
    BY <1>3, <1>4
  <2>2. QED
    BY <2>1
<1>6. QED
  BY <1>3, <1>5 DEF Iteration

\* Its values along the prefixes stay in V.
LEMMA FoldChain ==
  ASSUME NEW V, NEW D, NEW base, NEW F, NEW s, Foldable(F, V, D, base, s),
         NEW h, Chained(h, F, V, base, s)
  PROVE  \A k \in 0..Len(s) : h[1..k] \in V
<1>a. base \in V /\ F \in [V \X D -> V] /\ s \in Seq(D)
  BY DEF Foldable
<1>b. h[{}] = base
  BY <1>a, Subsets DEF Chained
<1>c. ASSUME NEW k \in 1..Len(s), h[1..(k - 1)] \in V PROVE h[1..k] = F[<<h[1..(k - 1)], s[k]>>]
  <2>1. /\ 1..k \in SUBSET DOMAIN s /\ 1..k # {}
        /\ Max(1..k) = k /\ (1..k) \ {k} = 1..(k - 1)
    BY <1>a, Subsets
  <2>2. QED
    BY <1>c, <2>1 DEF Chained
<1> USE <1>a, <1>b, <1>c
<1> DEFINE K == {k \in Nat : h[1..k] \in V}
<1>1. 0 \in K
  <2>1. 1..0 = {}
    OBVIOUS
  <2>2. QED
    BY <2>1
<1>2. ASSUME NEW k \in 1..Len(s), k - 1 \in K PROVE k \in K
  <2>1. s[k] \in D /\ k \in Nat
    OBVIOUS
  <2>2. h[1..(k - 1)] \in V
    BY <1>2
  <2>3. h[1..k] = F[<<h[1..(k - 1)], s[k]>>]
    BY <2>2
  <2>4. QED
    BY <2>1, <2>2, <2>3
<1>3. \A k \in 0..Len(s) : k \in K
  <2> HIDE DEF K
  <2>1. Len(s) \in Nat
    OBVIOUS
  <2> QED
    BY <1>1, <1>2, <2>1, AllIndices
<1>4. QED
  BY <1>3

\* So a fold has a trail.
LEMMA FoldTrail ==
  ASSUME NEW V, NEW D, NEW base, NEW F, NEW s, Foldable(F, V, D, base, s),
         NEW h, Chained(h, F, V, base, s)
  PROVE  \E r \in [0..Len(s) -> V] : r[Len(s)] = h[DOMAIN s] /\ Trail(r, F, base, s)
<1>a. base \in V /\ F \in [V \X D -> V] /\ s \in Seq(D)
  BY DEF Foldable
<1>b. h[{}] = base
  BY <1>a, Subsets DEF Chained
<1>c. ASSUME NEW k \in 1..Len(s), h[1..(k - 1)] \in V PROVE h[1..k] = F[<<h[1..(k - 1)], s[k]>>]
  <2>1. /\ 1..k \in SUBSET DOMAIN s /\ 1..k # {}
        /\ Max(1..k) = k /\ (1..k) \ {k} = 1..(k - 1)
    BY <1>a, Subsets
  <2>2. QED
    BY <1>c, <2>1 DEF Chained
<1> USE <1>a, <1>b, <1>c
<1> DEFINE r == [k \in 0..Len(s) |-> h[1..k]]
<1>1. r \in [0..Len(s) -> V]
  <2>1. \A k \in 0..Len(s) : h[1..k] \in V
    BY FoldChain
  <2>2. QED
    BY <2>1
<1>2. r[0] = base /\ r[Len(s)] = h[DOMAIN s]
  <2>1. 1..0 = {} /\ Len(s) \in Nat /\ DOMAIN s = 1..Len(s)
    OBVIOUS
  <2>2. QED
    BY <2>1
<1>3. ASSUME NEW k \in 1..Len(s) PROVE r[k] = F[<<r[k - 1], s[k]>>]
  <2>1. k \in 0..Len(s) /\ k - 1 \in 0..Len(s)
    OBVIOUS
  <2>2. r[k] = h[1..k] /\ r[k - 1] = h[1..(k - 1)] /\ r[k - 1] \in V
    BY <1>1, <2>1
  <2>3. QED
    BY <2>2
<1> HIDE DEF r
<1>4. QED
  BY <1>1, <1>2, <1>3 DEF Trail

\* What an operator needs to know of the iteration to have it for its own: each value is
\* the operator's on a value of V and an element.
Iterated(g, F, V, D, base, s) ==
  /\ g = [t \in SUBSET DOMAIN s |-> g[t]]
  /\ \A t \in SUBSET DOMAIN s :
       IF t = {} THEN g[t] = base
       ELSE /\ g[t \ {Max(t)}] \in V /\ s[Max(t)] \in D
            /\ g[t] = F[<<g[t \ {Max(t)}], s[Max(t)]>>]
LEMMA IterSteps ==
  ASSUME NEW V, NEW D, NEW base, NEW F, NEW s, Foldable(F, V, D, base, s)
  PROVE  \E g : Iterated(g, F, V, D, base, s)
<1>1. PICK g \in [SUBSET DOMAIN s -> V] : Iteration(g, F, base, s)
  BY IterExists
<1>2. s \in Seq(D)
  BY DEF Foldable
<1>3. ASSUME NEW t \in SUBSET DOMAIN s
      PROVE  IF t = {} THEN g[t] = base
             ELSE /\ g[t \ {Max(t)}] \in V /\ s[Max(t)] \in D
                  /\ g[t] = F[<<g[t \ {Max(t)}], s[Max(t)]>>]
  <2>1. g[t] = IF t = {} THEN base ELSE F[<<g[t \ {Max(t)}], s[Max(t)]>>]
    BY <1>1 DEF Iteration
  <2>2. t # {} => t \ {Max(t)} \in SUBSET DOMAIN s /\ s[Max(t)] \in D
    BY <1>2, Subsets
  <2>3. QED
    BY <2>1, <2>2
<1>4. g = [t \in SUBSET DOMAIN s |-> g[t]]
  OBVIOUS
<1>5. QED
  BY <1>3, <1>4 DEF Iterated

\* The trails of a sequence and of the sequence with one element more agree so far.
LEMMA TrailAppend ==
  ASSUME NEW D, NEW s \in Seq(D), NEW x \in D, NEW base, NEW F, NEW r, NEW q,
         Trail(r, F, base, s), Trail(q, F, base, Append(s, x))
  PROVE  q[Len(s)] = r[Len(s)]
<1> DEFINE K == {k \in 0..Len(s) : q[k] = r[k]}
<1>1. Len(s) \in Nat /\ Len(Append(s, x)) = Len(s) + 1 /\ Append(s, x)[Len(s) + 1] = x
      /\ \A k \in 1..Len(s) : Append(s, x)[k] = s[k]
  OBVIOUS
<1>2. 0 \in K
  BY <1>1 DEF Trail
<1>3. ASSUME NEW k \in 1..Len(s), k - 1 \in K PROVE k \in K
  <2>1. k \in 1..(Len(s) + 1) /\ k \in 0..Len(s)
    BY <1>1
  <2>2. QED
    BY <1>1, <1>3, <2>1 DEF Trail
<1>4. \A k \in 0..Len(s) : k \in K
  <2> HIDE DEF K
  <2>1. QED
    BY <1>1, <1>2, <1>3, AllIndices
<1>5. q[Len(s)] = r[Len(s)]
  BY <1>1, <1>4
<1>6. QED
  BY <1>5

\* Trails of one function agree as long as their elements do.
Agree(F, r, q, s, t, n) ==
  /\ r[0] = q[0]
  /\ \A k \in 1..n : r[k] = F[<<r[k - 1], s[k]>>] /\ q[k] = F[<<q[k - 1], t[k]>>] /\ s[k] = t[k]
LEMMA TrailsAgree ==
  ASSUME NEW F, NEW r, NEW q, NEW s, NEW t, NEW n \in Nat, Agree(F, r, q, s, t, n)
  PROVE  \A k \in 0..n : r[k] = q[k]
<1> DEFINE K == {k \in 0..n : r[k] = q[k]}
<1>1. 0 \in K
  BY DEF Agree
<1>2. ASSUME NEW k \in 1..n, k - 1 \in K PROVE k \in K
  <2>1. r[k - 1] = q[k - 1]
    BY <1>2
  <2>2. r[k] = q[k]
    BY <2>1, Zenon DEF Agree
  <2>3. QED
    BY <2>2
<1> HIDE DEF K
<1>3. \A k \in 0..n : k \in K
  BY <1>1, <1>2, AllIndices
<1>4. QED
  BY <1>3 DEF K
===============================================================================
