-------------------------- MODULE Rebalance_proofs --------------------------
(***************************************************************************)
(* Two properties of Rebalance, for any number of instances, any setups,   *)
(* any number of faults and any order of steps: every variable keeps its   *)
(* type and no slot of the start gate is lost, and a round never takes     *)
(* the last worker of a role.                                              *)
(*                                                                         *)
(* The second is about what Plan computes, which is a chain of folds.      *)
(* A fold over 1 .. n exists as a function, by the least n for which it    *)
(* would not; then every phase is a sequence of intermediate results, each *)
(* of which is one step away from the one before it, and what a step keeps *)
(* the phase keeps.                                                        *)
(***************************************************************************)
EXTENDS Rebalance, FiniteSetTheorems, SequenceTheorems, TLAPS

-----------------------------------------------------------------------------
(***************************************************************************)
(* Intervals and folds.                                                    *)
(***************************************************************************)

\* A set of naturals that holds 0, and with each number below n its successor,
\* holds every number up to n.
LEMMA UpTo ==
    ASSUME NEW n \in Nat, NEW Good, 0 \in Good,
           \A k \in 1 .. n : k - 1 \in Good => k \in Good
    PROVE  0 .. n \subseteq Good
  <1>. DEFINE Bad == {k \in 0 .. n : k \notin Good}
  <1>. SUFFICES ASSUME Bad # {}
                PROVE  FALSE
    OBVIOUS
  <1>1. Bad \subseteq Nat
    OBVIOUS
  <1>2. PICK k \in Bad : \A m \in Bad : ~ (<<m, k>> \in OpToRel(<, Nat))
    <2>. HIDE DEF Bad
    <2>. QED BY <1>1, WFMin, NatLessThanWellFounded
  <1>3. \A m \in Bad : ~ (m < k)
    BY <1>1, <1>2 DEF OpToRel
  <1>4. k \in 1 .. n /\ k - 1 \in 0 .. n
    OBVIOUS
  <1>5. k - 1 \notin Bad
    BY <1>3, <1>4
  <1>. QED BY <1>4, <1>5

\* A set of numbers from 1 to n that is not empty has a largest one.
LEMMA Largest ==
    ASSUME NEW n \in Nat, NEW S \in SUBSET (1 .. n), S # {}
    PROVE  Max(S) \in S /\ \A x \in S : x <= Max(S)
  <1>. DEFINE Bound == {b \in Nat : \A x \in S : x <= b}
  <1>1. Bound \subseteq Nat /\ n \in Bound
    OBVIOUS
  <1>2. PICK b \in Bound : \A m \in Bound : ~ (<<m, b>> \in OpToRel(<, Nat))
    <2>. HIDE DEF Bound
    <2>. QED BY <1>1, WFMin, NatLessThanWellFounded
  <1>3. \A m \in Bound : ~ (m < b)
    BY <1>1, <1>2 DEF OpToRel
  <1>4. b \in Nat /\ \A x \in S : x <= b
    OBVIOUS
  <1>5. b \in S
    <2>. SUFFICES ASSUME b \notin S
                  PROVE  FALSE
      OBVIOUS
    <2>1. \A x \in S : x <= b - 1
      BY <1>4
    <2>. PICK x \in S : TRUE
      OBVIOUS
    <2>2. b - 1 \in Nat
      <3>1. x \in Nat /\ x >= 1 /\ x <= b - 1
        BY <2>1
      <3>. QED BY <1>4, <3>1
    <2>3. b - 1 \in Bound
      BY <2>1, <2>2
    <2>. QED BY <1>3, <1>4, <2>3
  <1>6. \E x \in S : \A y \in S : x >= y
    BY <1>4, <1>5
  <1>7. /\ Max(S) \in S
        /\ \A y \in S : Max(S) >= y
    BY <1>6 DEF Max
  <1>. QED BY <1>7

\* The largest number of an interval, and what is left without it.
LEMMA LargestOfInterval ==
    ASSUME NEW n \in Nat, NEW k \in 1 .. n
    PROVE  /\ Max(1 .. k) = k
           /\ (1 .. k) \ {k} = 1 .. (k - 1)
  <1>1. (1 .. k) \in SUBSET (1 .. n) /\ 1 .. k # {} /\ k \in 1 .. k
    OBVIOUS
  <1>2. Max(1 .. k) \in 1 .. k /\ \A x \in 1 .. k : x <= Max(1 .. k)
    BY <1>1, Largest
  <1>3. k <= Max(1 .. k) /\ Max(1 .. k) <= k /\ Max(1 .. k) \in Int
    BY <1>1, <1>2
  <1>. QED BY <1>3

\* it is the function by which a fold over 1 .. n is defined, for the step G.
Unrolled(it, n, A, base, G) ==
    /\ it \in [SUBSET (1 .. n) -> A]
    /\ \A s \in SUBSET (1 .. n) :
          it[s] = IF s = {} THEN base ELSE G[<<Max(s), it[s \ {Max(s)}]>>]

\* The function by which a fold over 1 .. n is defined exists, when every step
\* leads from A to A.
LEMMA FoldExists ==
    ASSUME NEW n \in Nat, NEW A, NEW base \in A, NEW G \in [(1 .. n) \X A -> A]
    PROVE  \E it : Unrolled(it, n, A, base, G)
  <1>. DEFINE Rec(m, it) ==
                  /\ it \in [SUBSET (1 .. m) -> A]
                  /\ \A s \in SUBSET (1 .. m) :
                        it[s] = IF s = {} THEN base ELSE G[<<Max(s), it[s \ {Max(s)}]>>]
              Good == {m \in 0 .. n : \E it : Rec(m, it)}
  <1>1. 0 \in Good
    <2>. DEFINE it == [s \in SUBSET (1 .. 0) |-> base]
    <2>1. SUBSET (1 .. 0) = {{}}
      OBVIOUS
    <2>2. Rec(0, it)
      BY <2>1
    <2>3. \E f : Rec(0, f)
      BY <2>2
    <2>. HIDE DEF Rec
    <2>. QED BY <2>3
  <1>2. ASSUME NEW m \in 1 .. n, m - 1 \in Good
        PROVE  m \in Good
    <2>1. PICK h : Rec(m - 1, h)
      BY <1>2
    <2>. DEFINE it == [s \in SUBSET (1 .. m) |->
                          IF m \in s THEN G[<<m, h[s \ {m}]>>] ELSE h[s]]
    <2>2. \A s \in SUBSET (1 .. m) : s \ {m} \in SUBSET (1 .. (m - 1))
      OBVIOUS
    <2>3. \A s \in SUBSET (1 .. m) : m \notin s => s \in SUBSET (1 .. (m - 1))
      OBVIOUS
    <2>4. it \in [SUBSET (1 .. m) -> A]
      <3>1. ASSUME NEW s \in SUBSET (1 .. m)
            PROVE  it[s] \in A
        <4>1. CASE m \in s
          <5>1. h[s \ {m}] \in A
            BY <2>1, <2>2
          <5>2. <<m, h[s \ {m}]>> \in (1 .. n) \X A
            BY <5>1
          <5>. QED BY <4>1, <5>2
        <4>2. CASE m \notin s
          BY <2>1, <2>3, <4>2
        <4>. QED BY <4>1, <4>2
      <3>. QED BY <3>1
    <2>5. ASSUME NEW s \in SUBSET (1 .. m)
          PROVE  it[s] = IF s = {} THEN base ELSE G[<<Max(s), it[s \ {Max(s)}]>>]
      <3>1. CASE m \in s
        <4>1. Max(s) = m
          <5>1. s \in SUBSET (1 .. m) /\ s # {} /\ m \in Nat
            BY <3>1
          <5>2. Max(s) \in s /\ m <= Max(s)
            BY <3>1, <5>1, Largest
          <5>3. Max(s) \in 1 .. m
            BY <5>2
          <5>. QED BY <5>2, <5>3
        <4>2. it[s \ {m}] = h[s \ {m}]
          <5>1. s \ {m} \in SUBSET (1 .. m) /\ m \notin s \ {m}
            OBVIOUS
          <5>. QED BY <5>1
        <4>3. it[s] = G[<<m, h[s \ {m}]>>] /\ s # {}
          BY <3>1
        <4>. QED BY <4>1, <4>2, <4>3
      <3>2. CASE m \notin s
        <4>1. it[s] = h[s] /\ s \in SUBSET (1 .. (m - 1))
          BY <2>3, <3>2
        <4>2. h[s] = IF s = {} THEN base ELSE G[<<Max(s), h[s \ {Max(s)}]>>]
          BY <2>1, <4>1
        <4>3. it[s \ {Max(s)}] = h[s \ {Max(s)}]
          <5>1. s \ {Max(s)} \in SUBSET (1 .. m) /\ m \notin s \ {Max(s)}
            BY <3>2
          <5>. QED BY <5>1
        <4>. QED BY <4>1, <4>2, <4>3
      <3>. QED BY <3>1, <3>2
    <2>6. Rec(m, it)
      BY <2>4, <2>5
    <2>7. \E f : Rec(m, f)
      BY <2>6
    <2>. HIDE DEF Rec
    <2>. QED BY <2>7
  <1>3. 0 .. n \subseteq Good
    <2>. HIDE DEF Good
    <2>. QED BY <1>1, <1>2, UpTo
  <1>4. n \in Good
    <2>1. n \in 0 .. n
      OBVIOUS
    <2>. HIDE DEF Good
    <2>. QED BY <1>3, <2>1
  <1>. QED BY <1>4 DEF Unrolled

-----------------------------------------------------------------------------
(***************************************************************************)
(* Only: what is kept of a sequence.                                       *)
(***************************************************************************)

\* Only is computed from the left, one element after the other.
LEMMA OnlySteps ==
    ASSUME NEW X, NEW s \in Seq(X), NEW S
    PROVE  \E h : /\ h[0] = <<>>
                  /\ \A k \in 1 .. Len(s) :
                        h[k] = IF s[k] \in S THEN Append(h[k - 1], s[k]) ELSE h[k - 1]
                  /\ Only(s, S) = h[Len(s)]
  <1>. DEFINE n == Len(s)
              step(kept, i) == IF i \in S THEN Append(kept, i) ELSE kept
              P(it) == it = [t \in SUBSET (1 .. n) |->
                                IF t = {} THEN <<>> ELSE step(it[t \ {Max(t)}], s[Max(t)])]
              it == CHOOSE it : P(it)
  <1>1. n \in Nat /\ DOMAIN s = 1 .. n /\ \A k \in 1 .. n : s[k] \in X
    OBVIOUS
  <1>2. Only(s, S) = it[1 .. n]
    BY <1>1, Zenon DEF Only, FoldLeft, MapThenFoldSet
  <1>3. \E f : P(f)
    <2>. DEFINE A == Seq(X)
                G == [p \in (1 .. n) \X A |-> step(p[2], s[p[1]])]
    <2>1. G \in [(1 .. n) \X A -> A]
      BY <1>1
    <2>2. <<>> \in A
      OBVIOUS
    <2>3. PICK f : Unrolled(f, n, A, <<>>, G)
      <3>. HIDE DEF A, G, n
      <3>. QED BY <1>1, <2>1, <2>2, FoldExists
    <2>6. \A t \in SUBSET (1 .. n) :
             f[t] = IF t = {} THEN <<>> ELSE G[<<Max(t), f[t \ {Max(t)}]>>]
      BY <2>3 DEF Unrolled
    <2>7. f \in [SUBSET (1 .. n) -> A]
      BY <2>3 DEF Unrolled
    <2>4. ASSUME NEW t \in SUBSET (1 .. n), t # {}
          PROVE  G[<<Max(t), f[t \ {Max(t)}]>>] = step(f[t \ {Max(t)}], s[Max(t)])
      <3>1. Max(t) \in t
        BY <1>1, <2>4, Largest
      <3>2. Max(t) \in 1 .. n /\ f[t \ {Max(t)}] \in Seq(X)
        BY <2>7, <3>1
      <3>. QED BY <3>2
    <2>5. P(f)
      <3>. HIDE DEF G, step, n
      <3>. QED BY <2>4, <2>6, <2>7
    <2>. QED BY <2>5
  <1>4. P(it)
    <2>. HIDE DEF P
    <2>. QED BY <1>3
  <1>. DEFINE h == [k \in 0 .. n |-> it[1 .. k]]
  <1>5. \A t \in SUBSET (1 .. n) : 
           it[t] = IF t = {} THEN <<>> ELSE step(it[t \ {Max(t)}], s[Max(t)])
    <2>. HIDE DEF it, step, n
    <2>. QED BY <1>4
  <1>6. h[0] = <<>>
    <2>1. {} \in SUBSET (1 .. n) /\ 1 .. 0 = {} /\ 0 \in 0 .. n
      BY <1>1
    <2>. HIDE DEF it, step, n
    <2>. QED BY <1>5, <2>1
  <1>7. ASSUME NEW k \in 1 .. n
        PROVE  h[k] = step(h[k - 1], s[k])
    <2>1. (1 .. k) \in SUBSET (1 .. n) /\ 1 .. k # {} /\ k \in 0 .. n /\ k - 1 \in 0 .. n
      <3>. HIDE DEF n
      <3>1. k \in Int /\ 1 <= k /\ k <= n
        BY <1>1
      <3>2. k \in 1 .. k
        BY <3>1
      <3>3. (1 .. k) \subseteq 1 .. n
        BY <1>1, <3>1
      <3>. QED BY <1>1, <3>1, <3>2, <3>3
    <2>2. Max(1 .. k) = k /\ (1 .. k) \ {k} = 1 .. (k - 1)
      BY <1>1, LargestOfInterval
    <2>. HIDE DEF it, step, n
    <2>. QED BY <1>5, <2>1, <2>2
  <1>8. Only(s, S) = h[n]
    <2>1. n \in 0 .. n
      BY <1>1
    <2>. HIDE DEF it
    <2>. QED BY <1>2, <2>1
  <1>. HIDE DEF h
  <1>. QED BY <1>6, <1>7, <1>8

\* The members of S that occur in a sequence, and nothing else.
LEMMA OnlyIs ==
    ASSUME NEW X, NEW s \in Seq(X), NEW S
    PROVE  /\ Only(s, S) \in Seq(X)
           /\ Range(Only(s, S)) = Range(s) \cap S
  <1>. DEFINE n == Len(s)
  <1>1. n \in Nat /\ \A k \in 1 .. n : s[k] \in X
    OBVIOUS
  <1>2. PICK h : /\ h[0] = <<>>
                 /\ \A k \in 1 .. n :
                       h[k] = IF s[k] \in S THEN Append(h[k - 1], s[k]) ELSE h[k - 1]
                 /\ Only(s, S) = h[n]
    BY OnlySteps
  <1>. DEFINE Good == {k \in 0 .. n :
                         /\ h[k] \in Seq(X)
                         /\ \A j \in 1 .. Len(h[k]) :
                               h[k][j] \in S /\ \E i \in 1 .. k : s[i] = h[k][j]
                         /\ \A i \in 1 .. k :
                               s[i] \in S => \E j \in 1 .. Len(h[k]) : h[k][j] = s[i]}
  <1>3. 0 \in Good
    <2>1. 0 \in 0 .. n /\ h[0] \in Seq(X) /\ Len(h[0]) = 0 /\ 1 .. 0 = {}
      BY <1>1, <1>2
    <2>. QED BY <2>1
  <1>4. ASSUME NEW k \in 1 .. n, k - 1 \in Good
        PROVE  k \in Good
    <2>. DEFINE u == h[k - 1]
    <2>1. /\ u \in Seq(X)
          /\ \A j \in 1 .. Len(u) : u[j] \in S /\ \E i \in 1 .. (k - 1) : s[i] = u[j]
          /\ \A i \in 1 .. (k - 1) : s[i] \in S => \E j \in 1 .. Len(u) : u[j] = s[i]
      BY <1>4
    <2>2. k \in 0 .. n /\ k \in 1 .. k /\ (1 .. (k - 1)) \subseteq 1 .. k
      OBVIOUS
    <2>3. \A i \in 1 .. k : i = k \/ i \in 1 .. (k - 1)
      OBVIOUS
    <2>4. CASE s[k] \in S
      <3>1. h[k] = Append(u, s[k])
        BY <1>2, <2>4
      <3>2. s[k] \in X
        BY <1>1
      <3>. HIDE DEF u, n
      <3>3. /\ h[k] \in Seq(X) /\ Len(u) \in Nat /\ Len(h[k]) = Len(u) + 1
            /\ \A j \in 1 .. Len(u) : h[k][j] = u[j]
            /\ h[k][Len(u) + 1] = s[k]
        BY <2>1, <3>1, <3>2, AppendProperties
      <3>4. \A j \in 1 .. Len(h[k]) : j = Len(u) + 1 \/ j \in 1 .. Len(u)
        BY <3>3
      <3>5. ASSUME NEW j \in 1 .. Len(h[k])
            PROVE  h[k][j] \in S /\ \E i \in 1 .. k : s[i] = h[k][j]
        <4>1. CASE j = Len(u) + 1
          BY <2>2, <2>4, <3>3, <4>1
        <4>2. CASE j \in 1 .. Len(u)
          BY <2>1, <2>2, <3>3, <4>2
        <4>. QED BY <3>4, <4>1, <4>2
      <3>6. ASSUME NEW i \in 1 .. k, s[i] \in S
            PROVE  \E j \in 1 .. Len(h[k]) : h[k][j] = s[i]
        <4>1. CASE i = k
          <5>1. Len(u) + 1 \in 1 .. Len(h[k])
            BY <3>3
          <5>. QED BY <3>3, <4>1, <5>1
        <4>2. CASE i \in 1 .. (k - 1)
          <5>1. PICK j \in 1 .. Len(u) : u[j] = s[i]
            BY <2>1, <3>6, <4>2
          <5>2. j \in 1 .. Len(h[k])
            BY <3>3
          <5>. QED BY <3>3, <5>1, <5>2
        <4>. QED BY <2>3, <4>1, <4>2
      <3>. QED BY <2>2, <3>3, <3>5, <3>6
    <2>5. CASE s[k] \notin S
      <3>1. h[k] = u
        BY <1>2, <2>5
      <3>2. ASSUME NEW i \in 1 .. k, s[i] \in S
            PROVE  \E j \in 1 .. Len(h[k]) : h[k][j] = s[i]
        <4>1. i \in 1 .. (k - 1)
          BY <2>3, <2>5, <3>2
        <4>. HIDE DEF u
        <4>. QED BY <2>1, <3>1, <3>2, <4>1
      <3>3. ASSUME NEW j \in 1 .. Len(h[k])
            PROVE  h[k][j] \in S /\ \E i \in 1 .. k : s[i] = h[k][j]
        <4>. HIDE DEF u
        <4>. QED BY <2>1, <2>2, <3>1
      <3>. HIDE DEF u
      <3>. QED BY <2>1, <2>2, <3>1, <3>2, <3>3
    <2>. QED BY <2>4, <2>5
  <1>5. n \in Good
    <2>1. n \in 0 .. n
      BY <1>1
    <2>. HIDE DEF Good, n
    <2>2. 0 .. n \subseteq Good
      BY <1>1, <1>3, <1>4, UpTo
    <2>. QED BY <2>1, <2>2
  <1>. DEFINE o == h[n]
  <1>6. /\ o \in Seq(X)
        /\ \A j \in 1 .. Len(o) : o[j] \in S /\ \E i \in 1 .. n : s[i] = o[j]
        /\ \A i \in 1 .. n : s[i] \in S => \E j \in 1 .. Len(o) : o[j] = s[i]
    BY <1>5
  <1>7. DOMAIN o = 1 .. Len(o) /\ DOMAIN s = 1 .. n
    BY <1>6
  <1>8. Range(o) = Range(s) \cap S
    <2>1. Range(o) = {o[i] : i \in 1 .. Len(o)} /\ Range(s) = {s[i] : i \in 1 .. n}
      BY <1>6, RangeEquality
    <2>. HIDE DEF o, n
    <2>2. ASSUME NEW x \in Range(o)
          PROVE  x \in Range(s) \cap S
      BY <1>6, <2>1
    <2>3. ASSUME NEW x \in Range(s) \cap S
          PROVE  x \in Range(o)
      BY <1>6, <2>1
    <2>. QED BY <2>2, <2>3
  <1>. QED BY <1>2, <1>6, <1>8

\* What is left over is empty only if nothing of S occurs.
LEMMA OnlyEmpty ==
    ASSUME NEW X, NEW s \in Seq(X), NEW S
    PROVE  /\ Only(s, S) = <<>> <=> Range(s) \cap S = {}
           /\ Only(s, S) # <<>> => Only(s, S)[1] \in Range(s) \cap S
  <1>. DEFINE o == Only(s, S)
  <1>1. o \in Seq(X) /\ Range(o) = Range(s) \cap S
    BY OnlyIs
  <1>. HIDE DEF o
  <1>2. Range(o) = {o[i] : i \in 1 .. Len(o)} /\ Len(o) \in Nat
    BY <1>1, RangeEquality
  <1>3. o = <<>> => Range(o) = {}
    BY <1>2
  <1>4. o # <<>> => 1 \in 1 .. Len(o)
    BY <1>1, EmptySeq
  <1>5. o # <<>> => o[1] \in Range(o)
    BY <1>2, <1>4
  <1>. QED BY <1>1, <1>3, <1>5 DEF o

-----------------------------------------------------------------------------
(***************************************************************************)
(* Sorted: a set of numbers in ascending order.                            *)
(***************************************************************************)

\* A finite set of numbers, sorted, is a sequence of its members that holds each of
\* them.
LEMMA SortedIs ==
    ASSUME NEW S, S \subseteq Nat, IsFiniteSet(S)
    PROVE  /\ Sorted(S) \in Seq(S)
           /\ Len(Sorted(S)) = Cardinality(S)
           /\ Range(Sorted(S)) = S
  <1>. DEFINE n == Cardinality(S)
              below(i) == {j \in S : j < i}
              rank(i) == Cardinality(below(i))
              f == [i \in S |-> rank(i) + 1]
  <1>1. n \in Nat
    BY FS_CardinalityType
  <1>2. ASSUME NEW i \in S
        PROVE  /\ IsFiniteSet(below(i)) /\ rank(i) \in Nat
               /\ rank(i) < n
    <2>1. below(i) \in SUBSET (S \ {i})
      OBVIOUS
    <2>2. IsFiniteSet(S \ {i}) /\ Cardinality(S \ {i}) = n - 1
      BY FS_RemoveElement
    <2>. HIDE DEF below
    <2>3. IsFiniteSet(below(i)) /\ Cardinality(below(i)) <= n - 1
      BY <2>1, <2>2, FS_Subset
    <2>. HIDE DEF n
    <2>. QED BY <1>1, <2>3, FS_CardinalityType
  <1>3. ASSUME NEW i \in S, NEW j \in S, i < j
        PROVE  rank(i) < rank(j)
    <2>1. below(i) \cup {i} \in SUBSET below(j)
      <3>1. i \in Nat /\ j \in Nat
        OBVIOUS
      <3>2. ASSUME NEW x \in S, x < i
            PROVE  x < j
        <4>1. x \in Nat
          OBVIOUS
        <4>. QED BY <1>3, <3>1, <3>2, <4>1
      <3>. QED BY <1>3, <3>2
    <2>2. i \notin below(i)
      OBVIOUS
    <2>3. IsFiniteSet(below(i)) /\ IsFiniteSet(below(j)) /\ rank(i) \in Nat /\ rank(j) \in Nat
      BY <1>2
    <2>. HIDE DEF below
    <2>4. Cardinality(below(i) \cup {i}) = Cardinality(below(i)) + 1
      BY <2>2, <2>3, FS_AddElement
    <2>5. Cardinality(below(i) \cup {i}) <= Cardinality(below(j))
      BY <2>1, <2>3, FS_Subset
    <2>. QED BY <2>3, <2>4, <2>5
  <1>. HIDE DEF rank, n
  <1>4. ASSUME NEW i \in S, NEW j \in S, rank(i) = rank(j)
        PROVE  i = j
    <2>1. rank(i) \in Nat
      BY <1>2
    <2>2. ~ (i < j)
      BY <1>3, <1>4, <2>1
    <2>3. ~ (j < i)
      BY <1>3, <1>4, <2>1
    <2>. QED BY <2>2, <2>3
  <1>5. f \in [S -> 1 .. n]
    <2>1. ASSUME NEW i \in S
          PROVE  rank(i) + 1 \in 1 .. n
      <3>1. rank(i) \in Nat /\ rank(i) < n
        BY <1>2
      <3>. QED BY <1>1, <3>1
    <2>. QED BY <2>1
  <1>6. f \in Injection(S, 1 .. n)
    <2>1. \A i, j \in S : f[i] = f[j] => i = j
      <3>1. ASSUME NEW i \in S, NEW j \in S, f[i] = f[j]
            PROVE  i = j
        <4>1. rank(i) + 1 = rank(j) + 1 /\ rank(i) \in Nat /\ rank(j) \in Nat
          BY <1>2, <3>1
        <4>2. rank(i) = rank(j)
          BY <4>1
        <4>. QED BY <1>4, <4>2
      <3>. QED BY <3>1
    <2>2. DOMAIN f = S
      OBVIOUS
    <2>. HIDE DEF f
    <2>. QED BY <1>5, <2>1, <2>2 DEF Injection, IsInjective
  <1>7. f \in Surjection(S, 1 .. n)
    <2>1. IsFiniteSet(1 .. n) /\ Cardinality(1 .. n) = n
      BY <1>1, FS_Interval
    <2>2. Cardinality(S) = Cardinality(1 .. n)
      BY <2>1 DEF n
    <2>. HIDE DEF f
    <2>. QED BY <1>6, <2>1, <2>2, FS_Injection
  <1>8. ASSUME NEW k \in 1 .. n
        PROVE  \E i \in S : rank(i) = k - 1
    <2>1. PICK i \in S : f[i] = k
      <3>. HIDE DEF f
      <3>. QED BY <1>7 DEF Surjection
    <2>2. rank(i) + 1 = k /\ rank(i) \in Nat
      BY <1>2, <2>1
    <2>3. rank(i) = k - 1
      BY <2>2
    <2>. QED BY <2>3
  <1>. DEFINE t == [k \in 1 .. n |-> CHOOSE i \in S : rank(i) = k - 1]
  <1>9. Sorted(S) = t
    BY DEF Sorted, rank, n
  <1>10. ASSUME NEW k \in 1 .. n
         PROVE  t[k] \in S /\ rank(t[k]) = k - 1
    BY <1>8
  <1>11. t \in Seq(S) /\ Len(t) = n
    <2>1. t \in [1 .. n -> S]
      BY <1>10
    <2>. HIDE DEF t
    <2>2. t \in Seq(S)
      BY <1>1, <2>1, SeqDef
    <2>3. DOMAIN t = 1 .. n /\ Len(t) \in Nat /\ DOMAIN t = 1 .. Len(t)
      BY <2>1, <2>2, LenProperties
    <2>. QED BY <1>1, <2>2, <2>3
  <1>12. ASSUME NEW i \in S
         PROVE  \E k \in 1 .. n : t[k] = i
    <2>1. rank(i) + 1 \in 1 .. n /\ (rank(i) + 1) - 1 = rank(i)
      <3>1. rank(i) \in Nat /\ rank(i) < n
        BY <1>2
      <3>. QED BY <1>1, <3>1
    <2>2. t[rank(i) + 1] \in S /\ rank(t[rank(i) + 1]) = rank(i)
      <3>. HIDE DEF t
      <3>. QED BY <1>10, <2>1
    <2>3. t[rank(i) + 1] = i
      <3>. HIDE DEF t
      <3>. QED BY <1>4, <2>2
    <2>. QED BY <2>1, <2>3
  <1>13. Range(t) = S
    <2>1. Range(t) = {t[k] : k \in 1 .. n}
      <3>. HIDE DEF t
      <3>. QED BY <1>11, RangeEquality
    <2>. HIDE DEF t
    <2>. QED BY <1>10, <1>12, <2>1
  <1>. QED BY <1>9, <1>11, <1>13 DEF n

-----------------------------------------------------------------------------
(***************************************************************************)
(* What a round is given, and what it may plan.                            *)
(***************************************************************************)

-----------------------------------------------------------------------------
(***************************************************************************)
(* What a round plans, given a population it can meet.                     *)
(***************************************************************************)

\* The workers a round may drain or convert.
Workers(in) == DOMAIN in.role

Population ==
    {in \in [conf : Conf, mode : Mode, gear : Gear, load : Load,
             role : UNION {[W -> PDRoles] : W \in SUBSET Instance},
             order : Seq(Instance), held : SUBSET Instance, idle : SUBSET Instance,
             recovering : SUBSET Instance, provisioning : Nat] :
        /\ Range(in.order) = Workers(in)
        /\ in.idle \cap Workers(in) = {}}

\* The actions a round can carry out: what it assigns is idle, what it drains,
\* converts or releases is in the table.
Doable(in) ==
    {a \in Action : /\ a.kind = "ASSIGN" => a.id \in in.idle /\ a.role \in PDRoles
                    /\ a.kind \in {"DRAIN", "REASSIGN", "RELEASE"} => a.id \in Instance}

Count == [prefill : Int, decode : Int]
Acc(in) == [acts : Seq(Doable(in)), n : Count]

\* What a population is made of, piece by piece.
LEMMA PopulationParts ==
    ASSUME NEW in \in Population
    PROVE  /\ in.conf \in Conf /\ in.mode \in Mode /\ in.gear \in Gear /\ in.load \in Load
           /\ Workers(in) \subseteq Instance /\ in.role \in [Workers(in) -> PDRoles]
           /\ in.order \in Seq(Instance) /\ Range(in.order) = Workers(in)
           /\ in.held \subseteq Instance /\ in.idle \subseteq Instance
           /\ in.idle \cap Workers(in) = {}
           /\ in.conf.maxChange \in Nat /\ in.conf.maxChange > 0 /\ in.conf.maxServing \in Nat
  <1>1. PICK W \in SUBSET Instance : in.role \in [W -> PDRoles]
    BY DEF Population
  <1>2. W = Workers(in)
    BY <1>1 DEF Workers
  <1>3. in.conf \in Conf
    BY DEF Population
  <1>4. in.conf.maxChange \in Nat \ {0} /\ in.conf.maxServing \in Nat
    BY <1>3 DEF Conf
  <1>. QED BY <1>1, <1>2, <1>3, <1>4 DEF Population

\* The instances are finitely many numbers, none of them 0.
LEMMA InstancesFinite ==
    /\ IsFiniteSet(Instance) /\ Instance \subseteq Nat /\ 0 \notin Instance
    /\ \A S \in SUBSET Instance : IsFiniteSet(S) /\ Cardinality(S) \in Nat
  BY RebalanceAssumption, FS_Subset, FS_CardinalityType

\* Reading one of the two counts, and writing it.
LEMMA CountRead ==
    ASSUME NEW n \in Count, NEW r \in PD
    PROVE  n[r] \in Int /\ Other(r) \in PD /\ n[Other(r)] \in Int /\ r \in PDRoles
  <1>1. CASE r = "prefill"
    BY <1>1 DEF Count, PD, Other, PDRoles
  <1>2. CASE r = "decode"
    BY <1>2 DEF Count, PD, Other, PDRoles
  <1>. QED BY <1>1, <1>2 DEF PD

\* The other count stays what it is when one is written.
LEMMA CountWritten ==
    ASSUME NEW n \in Count, NEW r \in PD, NEW v \in Int
    PROVE  /\ [n EXCEPT ![r] = v] \in Count
           /\ [n EXCEPT ![r] = v][r] = v
           /\ [n EXCEPT ![r] = v][Other(r)] = n[Other(r)]
           /\ Other(r) # r
           /\ r = "prefill" => /\ [n EXCEPT ![r] = v].prefill = v
                               /\ [n EXCEPT ![r] = v].decode = n.decode
                               /\ n[r] = n.prefill
           /\ r = "decode" => /\ [n EXCEPT ![r] = v].decode = v
                              /\ [n EXCEPT ![r] = v].prefill = n.prefill
                              /\ n[r] = n.decode
  <1>1. CASE r = "prefill"
    BY <1>1 DEF Count, PD, Other
  <1>2. CASE r = "decode"
    BY <1>2 DEF Count, PD, Other
  <1>. QED BY <1>1, <1>2 DEF PD

\* The workers from which a round chooses: those in order that are not held, not
\* touched yet, and of the role it is looking for.
LEMMA MovableIs ==
    ASSUME NEW in \in Population
    PROVE  movable(in) \in Seq(Instance) /\ Range(movable(in)) = Workers(in) \ in.held
  <1>1. /\ Only(in.order, DOMAIN in.role \ in.held) \in Seq(Instance)
        /\ Range(Only(in.order, DOMAIN in.role \ in.held)) = Range(in.order) \cap (DOMAIN in.role \ in.held)
    BY PopulationParts, OnlyIs
  <1>. QED BY <1>1, PopulationParts DEF movable, Workers

\* The workers a round may still move.
LEMMA UntouchedIs ==
    ASSUME NEW in \in Population, NEW acts
    PROVE  /\ Untouched(in, acts) \in Seq(Instance)
           /\ Range(Untouched(in, acts)) = {i \in Workers(in) \ in.held : ~Touched(acts, i)}
  <1>. DEFINE S == {i \in DOMAIN in.role : ~Touched(acts, i)}
  <1>1. /\ Only(movable(in), S) \in Seq(Instance)
        /\ Range(Only(movable(in), S)) = Range(movable(in)) \cap S
    <2>. HIDE DEF S
    <2>. QED BY MovableIs, OnlyIs
  <1>. QED BY <1>1, MovableIs DEF Untouched, Workers

\* The workers of one role a round may still move.
LEMMA NextConversionIs ==
    ASSUME NEW in \in Population, NEW acts, NEW from
    PROVE  /\ nextConversion(in, acts, from) \in Seq(Instance)
           /\ Range(nextConversion(in, acts, from)) =
                 {i \in Workers(in) \ in.held : in.role[i] = from /\ ~Touched(acts, i)}
  <1>. DEFINE S == {i \in DOMAIN in.role : in.role[i] = from /\ ~Touched(acts, i)}
  <1>1. /\ Only(movable(in), S) \in Seq(Instance)
        /\ Range(Only(movable(in), S)) = Range(movable(in)) \cap S
    <2>. HIDE DEF S
    <2>. QED BY MovableIs, OnlyIs
  <1>. QED BY <1>1, MovableIs DEF nextConversion, Workers

\* The head of a sequence that is not empty is one of its members.
LEMMA FirstOf ==
    ASSUME NEW X, NEW s \in Seq(X)
    PROVE  /\ s # <<>> => s[1] \in Range(s)
           /\ s = <<>> <=> Range(s) = {}
  <1>1. Range(s) = {s[i] : i \in 1 .. Len(s)} /\ Len(s) \in Nat
    BY RangeEquality
  <1>2. s = <<>> => Len(s) = 0
    OBVIOUS
  <1>3. s = <<>> => Range(s) = {}
    BY <1>1, <1>2
  <1>4. s # <<>> => 1 \in 1 .. Len(s)
    BY EmptySeq
  <1>. QED BY <1>1, <1>3, <1>4

\* The actions a round plans about instances in the table.
LEMMA ActIs ==
    ASSUME NEW in \in Population, NEW i \in Workers(in), NEW to \in PDRoles
    PROVE  /\ Act("DRAIN", i, in.role[i]) \in Doable(in)
           /\ Act("REASSIGN", i, to) \in Doable(in)
           /\ Act("RELEASE", i, to) \in Doable(in)
  <1>1. i \in Instance /\ in.role[i] \in PDRoles
    BY PopulationParts
  <1>. QED BY <1>1 DEF Act, Doable, Action

\* The actions a round plans about idle instances.
LEMMA AssignIs ==
    ASSUME NEW in \in Population, NEW i \in in.idle, NEW r \in PDRoles
    PROVE  Act("ASSIGN", i, r) \in Doable(in) /\ Act("RELEASE", i, "none") \in Doable(in)
  <1>1. i \in Instance
    BY PopulationParts
  <1>. QED BY <1>1 DEF Act, Doable, Action

-----------------------------------------------------------------------------
(***************************************************************************)
(* Sizes, targets and the single steps of the phases.                      *)
(***************************************************************************)

\* The sizes a round computes with, and the number of workers it aims at.
LEMMA CardinalityParts ==
    ASSUME NEW in \in Population
    PROVE  /\ IsFiniteSet(Workers(in)) /\ Cardinality(Workers(in)) \in Nat
           /\ IsFiniteSet(in.idle) /\ Cardinality(in.idle) \in Nat
           /\ \A r : Number(in, r) \in Nat
           /\ ServingPD(in) \in Nat /\ Total(in) \in Nat
           /\ Total(in) = IF in.conf.maxServing = 0 \/ in.conf.maxServing >= ServingPD(in) + Cardinality(in.idle)
                          THEN ServingPD(in) + Cardinality(in.idle) ELSE in.conf.maxServing
  <1>1. IsFiniteSet(Workers(in)) /\ Cardinality(Workers(in)) \in Nat
        /\ IsFiniteSet(in.idle) /\ Cardinality(in.idle) \in Nat
    BY PopulationParts, InstancesFinite
  <1>2. ASSUME NEW r
        PROVE  Number(in, r) \in Nat
    <2>1. {i \in DOMAIN in.role : in.role[i] = r} \in SUBSET Instance
      BY PopulationParts DEF Workers
    <2>. QED BY <2>1, InstancesFinite DEF Number
  <1>3. ServingPD(in) \in Nat
    BY <1>2 DEF ServingPD
  <1>4. in.conf.maxServing \in Nat
    BY PopulationParts
  <1>5. ASSUME NEW a \in Nat, NEW b \in Nat
        PROVE  Min({a, b}) = IF b >= a THEN a ELSE b
    <2>1. \E x \in {a, b} : \A y \in {a, b} : x <= y
      OBVIOUS
    <2>2. Min({a, b}) \in {a, b} /\ \A y \in {a, b} : Min({a, b}) <= y
      BY <2>1 DEF Min
    <2>. QED BY <2>2
  <1>. DEFINE a == ServingPD(in) + Cardinality(in.idle)
              b == in.conf.maxServing
  <1>6. Total(in) = IF b = 0 THEN a ELSE Min({a, b})
    BY DEF Total, Capped
  <1>7. a \in Nat
    BY <1>1, <1>3
  <1>8. Total(in) = IF b = 0 \/ b >= a THEN a ELSE b
    <2>. HIDE DEF a, b
    <2>. QED BY <1>4, <1>5, <1>6, <1>7 DEF b
  <1>. QED BY <1>1, <1>2, <1>3, <1>4, <1>7, <1>8

\* The smaller and the larger of two numbers.
LEMMA MinMax ==
    ASSUME NEW a \in Int, NEW b \in Int
    PROVE  /\ Min({a, b}) = IF a <= b THEN a ELSE b
           /\ Max({a, b}) = IF a >= b THEN a ELSE b
  <1>1. \E x \in {a, b} : \A y \in {a, b} : x <= y
    OBVIOUS
  <1>2. Min({a, b}) \in {a, b} /\ \A y \in {a, b} : Min({a, b}) <= y
    BY <1>1 DEF Min
  <1>3. \E x \in {a, b} : \A y \in {a, b} : x >= y
    OBVIOUS
  <1>4. Max({a, b}) \in {a, b} /\ \A y \in {a, b} : Max({a, b}) >= y
    BY <1>3 DEF Max
  <1>. QED BY <1>2, <1>4

\* Both roles are wanted as soon as there are two workers.
LEMMA TargetIs ==
    ASSUME NEW in \in Population, NEW g \in Gear
    PROVE  /\ Target(in, g) \in Count
           /\ Target(in, g).prefill + Target(in, g).decode = Total(in)
           /\ Total(in) >= 2 => Target(in, g).prefill >= 1 /\ Target(in, g).decode >= 1
  <1>. DEFINE T == Total(in)
              share == (T * Gears[g].p) \div Gears[g].of
              tp == TargetPrefill(T, g)
  <1>1. T \in Nat
    BY CardinalityParts
  <1>2. share \in Int
    <2>1. g \in 1 .. 3 /\ Gears[g].p \in 1 .. 2 /\ Gears[g].of \in 2 .. 3
      BY DEF Gear, Gears
    <2>. DEFINE x == T * Gears[g].p
                y == Gears[g].of
    <2>2. x \in Int /\ y \in Int /\ y > 0
      BY <1>1, <2>1
    <2>. HIDE DEF x, y
    <2>3. x \div y \in Int
      BY <2>2
    <2>. QED BY <2>3 DEF x, y
  <1>3. tp = IF T >= 2 THEN Max({1, Min({T - 1, share})}) ELSE share
    BY DEF TargetPrefill
  <1>. HIDE DEF share, T
  <1>4. Min({T - 1, share}) \in Int /\ Min({T - 1, share}) <= T - 1
    BY <1>1, <1>2, MinMax
  <1>5. tp \in Int /\ (T >= 2 => tp >= 1 /\ T - tp >= 1)
    <2>. DEFINE m == Min({T - 1, share})
    <2>. HIDE DEF m
    <2>1. m \in Int /\ m <= T - 1
      BY <1>4 DEF m
    <2>2. Max({1, m}) = IF 1 >= m THEN 1 ELSE m
      <3>1. 1 \in Int
        OBVIOUS
      <3>. QED BY <2>1, <3>1, MinMax, Zenon
    <2>3. tp = IF T >= 2 THEN Max({1, m}) ELSE share
      BY <1>3 DEF m
    <2>. HIDE DEF tp
    <2>. QED BY <1>1, <1>2, <2>1, <2>2, <2>3
  <1>6. Target(in, g) = [prefill |-> tp, decode |-> T - tp]
    BY DEF Target, T
  <1>. HIDE DEF tp
  <1>7. tp + (T - tp) = T /\ T - tp \in Int
    BY <1>1, <1>5
  <1>. QED BY <1>5, <1>6, <1>7 DEF T, Count

-----------------------------------------------------------------------------
(***************************************************************************)
(* The steps of a round keep its actions within what can be carried out.   *)
(***************************************************************************)

\* What a round has accumulated, piece by piece, and put together.
LEMMA AccParts ==
    ASSUME NEW in, NEW acc \in Acc(in)
    PROVE  acc.acts \in Seq(Doable(in)) /\ acc.n \in Count /\ Len(acc.acts) \in Nat
  BY DEF Acc

\* A sequence of actions and a pair of counts are an accumulated result.
LEMMA AccMade ==
    ASSUME NEW in, NEW acc \in Acc(in), NEW a \in Doable(in), NEW n \in Count
    PROVE  /\ [acts |-> Append(acc.acts, a), n |-> n] \in Acc(in)
           /\ [acc EXCEPT !.n = n] \in Acc(in)
  BY AccParts, AppendProperties DEF Acc

\* A drain to the cap leads from one accumulated result to another.
LEMMA DrainOneType ==
    ASSUME NEW in \in Population, NEW target, NEW acc \in Acc(in)
    PROVE  DrainOne(in, target, acc) \in Acc(in)
  <1>. DEFINE free == Untouched(in, acc.acts)
              S == {i \in DOMAIN in.role : in.role[i] \in PD /\ acc.n[in.role[i]] > target[in.role[i]]}
              over == Only(free, S)
              i == IF over # <<>> THEN over[1] ELSE free[1]
              r == IF in.role[i] = "prefill" THEN "prefill" ELSE "decode"
  <1>1. CASE Full(in, acc.acts) \/ free = <<>>
    BY <1>1 DEF DrainOne
  <1>2. CASE ~ (Full(in, acc.acts) \/ free = <<>>)
    <2>1. free \in Seq(Instance) /\ Range(free) \subseteq Workers(in)
      BY UntouchedIs
    <2>2. over \in Seq(Instance) /\ Range(over) \subseteq Range(free)
      <3>. HIDE DEF free, S
      <3>. QED BY <2>1, OnlyIs
    <2>3. i \in Workers(in)
      <3>. HIDE DEF free, over
      <3>1. free[1] \in Range(free) /\ (over # <<>> => over[1] \in Range(over))
        BY <1>2, <2>1, <2>2, FirstOf
      <3>. QED BY <2>1, <2>2, <3>1
    <2>4. Act("DRAIN", i, in.role[i]) \in Doable(in)
      <3>. HIDE DEF i
      <3>1. PDRoles # {}
        BY DEF PDRoles
      <3>. QED BY <2>3, <3>1, ActIs
    <2>5. r \in PD
      BY DEF PD
    <2>6. [acc.n EXCEPT ![r] = @ - 1] \in Count
      <3>. HIDE DEF r
      <3>1. acc.n \in Count /\ acc.n[r] - 1 \in Int
        <4>1. acc.n \in Count
          BY AccParts
        <4>2. acc.n[r] \in Int
          BY <2>5, <4>1, CountRead
        <4>. QED BY <4>1, <4>2
      <3>. QED BY <2>5, <3>1, CountWritten
    <2>7. DrainOne(in, target, acc) =
              [acts |-> Append(acc.acts, Act("DRAIN", i, in.role[i])), n |-> [acc.n EXCEPT ![r] = @ - 1]]
      BY <1>2 DEF DrainOne
    <2>. HIDE DEF i, r
    <2>. QED BY <2>4, <2>6, <2>7, AccMade
  <1>. QED BY <1>1, <1>2

\* So does an assignment,
LEMMA AssignOneType ==
    ASSUME NEW in \in Population, NEW target, NEW acc \in Acc(in), NEW i \in in.idle
    PROVE  AssignOne(in, target, acc, i) \in Acc(in)
  <1>. DEFINE r == IF acc.n.prefill < target.prefill THEN "prefill" ELSE "decode"
  <1>1. CASE Full(in, acc.acts) \/ acc.n.prefill + acc.n.decode >= Total(in)
    BY <1>1 DEF AssignOne
  <1>2. CASE ~ (Full(in, acc.acts) \/ acc.n.prefill + acc.n.decode >= Total(in))
    <2>1. r \in PD /\ r \in PDRoles
      BY DEF PD, PDRoles
    <2>2. [acc.n EXCEPT ![r] = @ + 1] \in Count
      <3>. HIDE DEF r
      <3>1. acc.n \in Count /\ acc.n[r] + 1 \in Int
        BY <2>1, AccParts, CountRead
      <3>. QED BY <2>1, <3>1, CountWritten
    <2>3. AssignOne(in, target, acc, i) =
              [acts |-> Append(acc.acts, Act("ASSIGN", i, r)), n |-> [acc.n EXCEPT ![r] = @ + 1]]
      BY <1>2 DEF AssignOne
    <2>. HIDE DEF r
    <2>. QED BY <2>1, <2>2, <2>3, AccMade, AssignIs
  <1>. QED BY <1>1, <1>2

\* a conversion to a given role,
LEMMA ConvertType ==
    ASSUME NEW in \in Population, NEW target \in Count, NEW acc \in Acc(in), NEW to \in PD
    PROVE  Convert(in, target, acc, to) \in Acc(in)
  <1>. DEFINE from == Other(to)
              free == nextConversion(in, acc.acts, from)
  <1>1. acc.n \in Count /\ from \in PD /\ to \in PDRoles /\ target[to] \in Int
    BY AccParts, CountRead
  <1>2. CASE free # <<>> /\ acc.n[from] > 1
    <2>1. free[1] \in Workers(in)
      <3>1. free \in Seq(Instance) /\ Range(free) \subseteq Workers(in)
        BY NextConversionIs
      <3>. HIDE DEF free
      <3>. QED BY <1>2, <3>1, FirstOf
    <2>2. Act("REASSIGN", free[1], to) \in Doable(in)
      <3>. HIDE DEF free
      <3>. QED BY <1>1, <2>1, ActIs
    <2>. DEFINE n1 == [acc.n EXCEPT ![to] = @ + 1]
                n2 == [n1 EXCEPT ![from] = @ - 1]
    <2>3. n1 \in Count
      <3>1. acc.n[to] + 1 \in Int
        BY <1>1, CountRead
      <3>. QED BY <1>1, <3>1, CountWritten
    <2>4. n2 \in Count
      <3>. HIDE DEF n1, from
      <3>1. n1[from] - 1 \in Int
        BY <1>1, <2>3, CountRead
      <3>. QED BY <1>1, <2>3, <3>1, CountWritten
    <2>5. Convert(in, target, acc, to) =
              [acts |-> Append(acc.acts, Act("REASSIGN", free[1], to)), n |-> n2]
      BY <1>2 DEF Convert
    <2>. HIDE DEF n2, free
    <2>. QED BY <2>2, <2>4, <2>5, AccMade
  <1>3. CASE ~ (free # <<>> /\ acc.n[from] > 1)
    <2>1. Convert(in, target, acc, to) = [acc EXCEPT !.n = [acc.n EXCEPT ![to] = target[to]]]
      <3>1. Convert(in, target, acc, to) = [acc EXCEPT !.n[to] = target[to]]
        BY <1>3 DEF Convert
      <3>. QED BY <3>1
    <2>2. [acc.n EXCEPT ![to] = target[to]] \in Count
      BY <1>1, CountWritten
    <2>. QED BY <2>1, <2>2, AccParts DEF Acc
  <1>. QED BY <1>2, <1>3

\* and a conversion to whichever role lacks workers.
LEMMA ConvertOneType ==
    ASSUME NEW in \in Population, NEW target \in Count, NEW acc \in Acc(in)
    PROVE  ConvertOne(in, target, acc) \in Acc(in)
  <1>1. "prefill" \in PD /\ "decode" \in PD
    BY DEF PD
  <1>2. /\ Convert(in, target, acc, "prefill") \in Acc(in)
        /\ Convert(in, target, acc, "decode") \in Acc(in)
    BY <1>1, ConvertType
  <1>. QED BY <1>2 DEF ConvertOne

-----------------------------------------------------------------------------
(***************************************************************************)
(* The phases, step by step.                                               *)
(***************************************************************************)

\* How many places a pool is above its cap.
Surplus(in) == IF ServingPD(in) > Total(in) THEN ServingPD(in) - Total(in) ELSE 0

\* The drains are computed one after the other, and every intermediate result is typed.
LEMMA DrainedSteps ==
    ASSUME NEW in \in Population, NEW target, NEW start \in Acc(in)
    PROVE  \E h : /\ h[0] = start
                  /\ \A k \in 0 .. Surplus(in) : h[k] \in Acc(in)
                  /\ \A k \in 1 .. Surplus(in) : h[k] = DrainOne(in, target, h[k - 1])
                  /\ Drained(in, target, start) = h[Surplus(in)]
  <1>. DEFINE n == Surplus(in)
              A == Acc(in)
              step(a, k) == DrainOne(in, target, a)
              P(it) == it = [t \in SUBSET (1 .. n) |->
                                IF t = {} THEN start ELSE step(it[t \ {Max(t)}], Max(t))]
              it == CHOOSE it : P(it)
  <1>1. /\ n \in Nat /\ start \in A
        /\ \A a \in A, k \in 1 .. n : step(a, k) \in A
    <2>1. n \in Nat
      BY CardinalityParts DEF Surplus
    <2>. QED BY <2>1, DrainOneType
  <1>2. Drained(in, target, start) = it[1 .. n]
    <2>1. 1 .. (ServingPD(in) - Total(in)) = 1 .. n
      BY CardinalityParts DEF Surplus
    <2>. DEFINE m == ServingPD(in) - Total(in)
                seq == [k \in 1 .. m |-> k]
    <2>2. DOMAIN seq = 1 .. n
      BY <2>1
    <2>3. Drained(in, target, start) =
            LET iter == CHOOSE iter : iter = [t \in SUBSET (DOMAIN seq) |->
                                IF t = {} THEN start ELSE DrainOne(in, target, iter[t \ {Max(t)}])]
            IN  iter[DOMAIN seq]
      BY Zenon DEF Drained, Repeat, FoldLeft, MapThenFoldSet
    <2>. HIDE DEF seq, n
    <2>. QED BY <2>2, <2>3, Zenon
  <1>3. \E f : P(f)
    <2>. DEFINE G == [p \in (1 .. n) \X A |-> step(p[2], p[1])]
    <2>1. G \in [(1 .. n) \X A -> A]
      <3>. HIDE DEF n, A, step
      <3>. QED BY <1>1
    <2>2. PICK f : Unrolled(f, n, A, start, G)
      <3>. HIDE DEF A, G, n
      <3>. QED BY <1>1, <2>1, FoldExists
    <2>3. /\ f \in [SUBSET (1 .. n) -> A]
          /\ \A t \in SUBSET (1 .. n) :
                f[t] = IF t = {} THEN start ELSE G[<<Max(t), f[t \ {Max(t)}]>>]
      BY <2>2 DEF Unrolled
    <2>4. ASSUME NEW t \in SUBSET (1 .. n), t # {}
          PROVE  G[<<Max(t), f[t \ {Max(t)}]>>] = step(f[t \ {Max(t)}], Max(t))
      <3>. HIDE DEF n, A, step
      <3>1. Max(t) \in t
        BY <1>1, <2>4, Largest
      <3>2. Max(t) \in 1 .. n /\ f[t \ {Max(t)}] \in A
        BY <2>3, <3>1
      <3>. QED BY <3>2
    <2>5. P(f)
      <3>. HIDE DEF G, step, n, A
      <3>. QED BY <2>3, <2>4
    <2>. QED BY <2>5
  <1>4. P(it)
    <2>. HIDE DEF P
    <2>. QED BY <1>3
  <1>. DEFINE h == [k \in 0 .. n |-> it[1 .. k]]
  <1>5. \A t \in SUBSET (1 .. n) :
           it[t] = IF t = {} THEN start ELSE step(it[t \ {Max(t)}], Max(t))
    <2>. HIDE DEF it, step, n
    <2>. QED BY <1>4
  <1>6. h[0] = start
    <2>. HIDE DEF it, step, n
    <2>1. {} \in SUBSET (1 .. n) /\ 1 .. 0 = {} /\ 0 \in 0 .. n
      BY <1>1
    <2>. QED BY <1>5, <2>1
  <1>7. ASSUME NEW k \in 1 .. n
        PROVE  h[k] = step(h[k - 1], k)
    <2>. HIDE DEF it, step, n
    <2>1. k \in Int /\ 1 <= k /\ k <= n
      BY <1>1
    <2>2. (1 .. k) \in SUBSET (1 .. n) /\ k \in 1 .. k /\ k \in 0 .. n /\ k - 1 \in 0 .. n
      BY <1>1, <2>1
    <2>3. Max(1 .. k) = k /\ (1 .. k) \ {k} = 1 .. (k - 1)
      BY <1>1, LargestOfInterval
    <2>. QED BY <1>5, <2>2, <2>3
  <1>8. Drained(in, target, start) = h[n]
    <2>1. n \in 0 .. n
      <3>. HIDE DEF n
      <3>. QED BY <1>1
    <2>. HIDE DEF it, n
    <2>. QED BY <1>2, <2>1
  <1>9. 0 .. n \subseteq {k \in 0 .. n : h[k] \in A}
    <2>. HIDE DEF h, step, n, A
    <2>1. 0 \in {k \in 0 .. n : h[k] \in A}
      BY <1>1, <1>6
    <2>2. ASSUME NEW k \in 1 .. n, k - 1 \in {j \in 0 .. n : h[j] \in A}
          PROVE  k \in {j \in 0 .. n : h[j] \in A}
      BY <1>1, <1>7, <2>2
    <2>. DEFINE Good == {k \in 0 .. n : h[k] \in A}
    <2>3. 0 \in Good /\ \A k \in 1 .. n : k - 1 \in Good => k \in Good
      BY <2>1, <2>2
    <2>. HIDE DEF Good
    <2>4. 0 .. n \subseteq Good
      BY <1>1, <2>3, UpTo
    <2>. QED BY <2>4 DEF Good
  <1>10. \A k \in 0 .. n : h[k] \in A
    <2>. HIDE DEF h, n, A
    <2>. QED BY <1>9
  <1>. HIDE DEF h
  <1>. QED BY <1>6, <1>7, <1>8, <1>10

\* The idle instances in ascending order.
LEMMA SortedIdle ==
    ASSUME NEW in \in Population
    PROVE  /\ DOMAIN Sorted(in.idle) = 1 .. Cardinality(in.idle)
           /\ \A k \in 1 .. Cardinality(in.idle) : Sorted(in.idle)[k] \in in.idle
  <1>1. in.idle \subseteq Nat /\ IsFiniteSet(in.idle)
    BY PopulationParts, InstancesFinite
  <1>2. Sorted(in.idle) \in Seq(in.idle) /\ Len(Sorted(in.idle)) = Cardinality(in.idle)
    BY <1>1, SortedIs
  <1>. QED BY <1>2, LenProperties

\* So are the assignments.
LEMMA AssignedSteps ==
    ASSUME NEW in \in Population, NEW target, NEW start \in Acc(in)
    PROVE  \E h : /\ h[0] = start
                  /\ \A k \in 0 .. Cardinality(in.idle) : h[k] \in Acc(in)
                  /\ \A k \in 1 .. Cardinality(in.idle) : h[k] = AssignOne(in, target, h[k - 1], Sorted(in.idle)[k])
                  /\ Assigned(in, target, start) = h[Cardinality(in.idle)]
  <1>. DEFINE n == Cardinality(in.idle)
              A == Acc(in)
              step(a, k) == AssignOne(in, target, a, Sorted(in.idle)[k])
              P(it) == it = [t \in SUBSET (1 .. n) |->
                                IF t = {} THEN start ELSE step(it[t \ {Max(t)}], Max(t))]
              it == CHOOSE it : P(it)
  <1>1. /\ n \in Nat /\ start \in A
        /\ \A a \in A, k \in 1 .. n : step(a, k) \in A
    <2>1. n \in Nat
      BY CardinalityParts
    <2>2. ASSUME NEW k \in 1 .. n
          PROVE  Sorted(in.idle)[k] \in in.idle
      BY SortedIdle
    <2>. QED BY <2>1, <2>2, AssignOneType
  <1>2. Assigned(in, target, start) = it[1 .. n]
    <2>. DEFINE seq == Sorted(in.idle)
    <2>1. DOMAIN seq = 1 .. n
      BY SortedIdle
    <2>2. Assigned(in, target, start) =
            LET iter == CHOOSE iter : iter = [t \in SUBSET (DOMAIN seq) |->
                                IF t = {} THEN start
                                ELSE AssignOne(in, target, iter[t \ {Max(t)}], seq[Max(t)])]
            IN  iter[DOMAIN seq]
      BY Zenon DEF Assigned, FoldLeft, MapThenFoldSet
    <2>. HIDE DEF n
    <2>. QED BY <2>1, <2>2, Zenon
  <1>3. \E f : P(f)
    <2>. DEFINE G == [p \in (1 .. n) \X A |-> step(p[2], p[1])]
    <2>1. G \in [(1 .. n) \X A -> A]
      <3>. HIDE DEF n, A, step
      <3>. QED BY <1>1
    <2>2. PICK f : Unrolled(f, n, A, start, G)
      <3>. HIDE DEF A, G, n
      <3>. QED BY <1>1, <2>1, FoldExists
    <2>3. /\ f \in [SUBSET (1 .. n) -> A]
          /\ \A t \in SUBSET (1 .. n) :
                f[t] = IF t = {} THEN start ELSE G[<<Max(t), f[t \ {Max(t)}]>>]
      BY <2>2 DEF Unrolled
    <2>4. ASSUME NEW t \in SUBSET (1 .. n), t # {}
          PROVE  G[<<Max(t), f[t \ {Max(t)}]>>] = step(f[t \ {Max(t)}], Max(t))
      <3>. HIDE DEF n, A, step
      <3>1. Max(t) \in t
        BY <1>1, <2>4, Largest
      <3>2. Max(t) \in 1 .. n /\ f[t \ {Max(t)}] \in A
        BY <2>3, <3>1
      <3>. QED BY <3>2
    <2>5. P(f)
      <3>. HIDE DEF G, step, n, A
      <3>. QED BY <2>3, <2>4
    <2>. QED BY <2>5
  <1>4. P(it)
    <2>. HIDE DEF P
    <2>. QED BY <1>3
  <1>. DEFINE h == [k \in 0 .. n |-> it[1 .. k]]
  <1>5. \A t \in SUBSET (1 .. n) :
           it[t] = IF t = {} THEN start ELSE step(it[t \ {Max(t)}], Max(t))
    <2>. HIDE DEF it, step, n
    <2>. QED BY <1>4
  <1>6. h[0] = start
    <2>. HIDE DEF it, step, n
    <2>1. {} \in SUBSET (1 .. n) /\ 1 .. 0 = {} /\ 0 \in 0 .. n
      BY <1>1
    <2>. QED BY <1>5, <2>1
  <1>7. ASSUME NEW k \in 1 .. n
        PROVE  h[k] = step(h[k - 1], k)
    <2>. HIDE DEF it, step, n
    <2>1. k \in Int /\ 1 <= k /\ k <= n
      BY <1>1
    <2>2. (1 .. k) \in SUBSET (1 .. n) /\ k \in 1 .. k /\ k \in 0 .. n /\ k - 1 \in 0 .. n
      BY <1>1, <2>1
    <2>3. Max(1 .. k) = k /\ (1 .. k) \ {k} = 1 .. (k - 1)
      BY <1>1, LargestOfInterval
    <2>. QED BY <1>5, <2>2, <2>3
  <1>8. Assigned(in, target, start) = h[n]
    <2>1. n \in 0 .. n
      <3>. HIDE DEF n
      <3>. QED BY <1>1
    <2>. HIDE DEF it, n
    <2>. QED BY <1>2, <2>1
  <1>9. 0 .. n \subseteq {k \in 0 .. n : h[k] \in A}
    <2>. HIDE DEF h, step, n, A
    <2>1. 0 \in {k \in 0 .. n : h[k] \in A}
      BY <1>1, <1>6
    <2>2. ASSUME NEW k \in 1 .. n, k - 1 \in {j \in 0 .. n : h[j] \in A}
          PROVE  k \in {j \in 0 .. n : h[j] \in A}
      BY <1>1, <1>7, <2>2
    <2>. DEFINE Good == {k \in 0 .. n : h[k] \in A}
    <2>3. 0 \in Good /\ \A k \in 1 .. n : k - 1 \in Good => k \in Good
      BY <2>1, <2>2
    <2>. HIDE DEF Good
    <2>4. 0 .. n \subseteq Good
      BY <1>1, <2>3, UpTo
    <2>. QED BY <2>4 DEF Good
  <1>10. \A k \in 0 .. n : h[k] \in A
    <2>. HIDE DEF h, n, A
    <2>. QED BY <1>9
  <1>. HIDE DEF h
  <1>. QED BY <1>6, <1>7, <1>8, <1>10

\* And the conversions.
LEMMA ConvertedSteps ==
    ASSUME NEW in \in Population, NEW target \in Count, NEW start \in Acc(in)
    PROVE  \E h : /\ h[0] = start
                  /\ \A k \in 0 .. Conversions(in) : h[k] \in Acc(in)
                  /\ \A k \in 1 .. Conversions(in) : h[k] = ConvertOne(in, target, h[k - 1])
                  /\ Converted(in, target, start) = h[Conversions(in)]
  <1>. DEFINE n == Conversions(in)
              A == Acc(in)
              step(a, k) == ConvertOne(in, target, a)
              P(it) == it = [t \in SUBSET (1 .. n) |->
                                IF t = {} THEN start ELSE step(it[t \ {Max(t)}], Max(t))]
              it == CHOOSE it : P(it)
  <1>1. /\ n \in Nat /\ start \in A
        /\ \A a \in A, k \in 1 .. n : step(a, k) \in A
    <2>1. n \in Nat
      BY PopulationParts DEF Conversions
    <2>. QED BY <2>1, ConvertOneType
  <1>2. Converted(in, target, start) = it[1 .. n]
    <2>. DEFINE seq == [k \in 1 .. n |-> k]
    <2>2. DOMAIN seq = 1 .. n
      OBVIOUS
    <2>3. Converted(in, target, start) =
            LET iter == CHOOSE iter : iter = [t \in SUBSET (DOMAIN seq) |->
                                IF t = {} THEN start ELSE ConvertOne(in, target, iter[t \ {Max(t)}])]
            IN  iter[DOMAIN seq]
      BY Zenon DEF Converted, Repeat, FoldLeft, MapThenFoldSet
    <2>. HIDE DEF seq, n
    <2>. QED BY <2>2, <2>3, Zenon
  <1>3. \E f : P(f)
    <2>. DEFINE G == [p \in (1 .. n) \X A |-> step(p[2], p[1])]
    <2>1. G \in [(1 .. n) \X A -> A]
      <3>. HIDE DEF n, A, step
      <3>. QED BY <1>1
    <2>2. PICK f : Unrolled(f, n, A, start, G)
      <3>. HIDE DEF A, G, n
      <3>. QED BY <1>1, <2>1, FoldExists
    <2>3. /\ f \in [SUBSET (1 .. n) -> A]
          /\ \A t \in SUBSET (1 .. n) :
                f[t] = IF t = {} THEN start ELSE G[<<Max(t), f[t \ {Max(t)}]>>]
      BY <2>2 DEF Unrolled
    <2>4. ASSUME NEW t \in SUBSET (1 .. n), t # {}
          PROVE  G[<<Max(t), f[t \ {Max(t)}]>>] = step(f[t \ {Max(t)}], Max(t))
      <3>. HIDE DEF n, A, step
      <3>1. Max(t) \in t
        BY <1>1, <2>4, Largest
      <3>2. Max(t) \in 1 .. n /\ f[t \ {Max(t)}] \in A
        BY <2>3, <3>1
      <3>. QED BY <3>2
    <2>5. P(f)
      <3>. HIDE DEF G, step, n, A
      <3>. QED BY <2>3, <2>4
    <2>. QED BY <2>5
  <1>4. P(it)
    <2>. HIDE DEF P
    <2>. QED BY <1>3
  <1>. DEFINE h == [k \in 0 .. n |-> it[1 .. k]]
  <1>5. \A t \in SUBSET (1 .. n) :
           it[t] = IF t = {} THEN start ELSE step(it[t \ {Max(t)}], Max(t))
    <2>. HIDE DEF it, step, n
    <2>. QED BY <1>4
  <1>6. h[0] = start
    <2>. HIDE DEF it, step, n
    <2>1. {} \in SUBSET (1 .. n) /\ 1 .. 0 = {} /\ 0 \in 0 .. n
      BY <1>1
    <2>. QED BY <1>5, <2>1
  <1>7. ASSUME NEW k \in 1 .. n
        PROVE  h[k] = step(h[k - 1], k)
    <2>. HIDE DEF it, step, n
    <2>1. k \in Int /\ 1 <= k /\ k <= n
      BY <1>1
    <2>2. (1 .. k) \in SUBSET (1 .. n) /\ k \in 1 .. k /\ k \in 0 .. n /\ k - 1 \in 0 .. n
      BY <1>1, <2>1
    <2>3. Max(1 .. k) = k /\ (1 .. k) \ {k} = 1 .. (k - 1)
      BY <1>1, LargestOfInterval
    <2>. QED BY <1>5, <2>2, <2>3
  <1>8. Converted(in, target, start) = h[n]
    <2>1. n \in 0 .. n
      <3>. HIDE DEF n
      <3>. QED BY <1>1
    <2>. HIDE DEF it, n
    <2>. QED BY <1>2, <2>1
  <1>9. 0 .. n \subseteq {k \in 0 .. n : h[k] \in A}
    <2>. HIDE DEF h, step, n, A
    <2>1. 0 \in {k \in 0 .. n : h[k] \in A}
      BY <1>1, <1>6
    <2>2. ASSUME NEW k \in 1 .. n, k - 1 \in {j \in 0 .. n : h[j] \in A}
          PROVE  k \in {j \in 0 .. n : h[j] \in A}
      BY <1>1, <1>7, <2>2
    <2>. DEFINE Good == {k \in 0 .. n : h[k] \in A}
    <2>3. 0 \in Good /\ \A k \in 1 .. n : k - 1 \in Good => k \in Good
      BY <2>1, <2>2
    <2>. HIDE DEF Good
    <2>4. 0 .. n \subseteq Good
      BY <1>1, <2>3, UpTo
    <2>. QED BY <2>4 DEF Good
  <1>10. \A k \in 0 .. n : h[k] \in A
    <2>. HIDE DEF h, n, A
    <2>. QED BY <1>9
  <1>. HIDE DEF h
  <1>. QED BY <1>6, <1>7, <1>8, <1>10

-----------------------------------------------------------------------------
(***************************************************************************)
(* An aggregated pool.                                                     *)
(***************************************************************************)

\* The k-th movable worker is a worker.
LEMMA MovableParts ==
    ASSUME NEW in \in Population
    PROVE  /\ Len(movable(in)) \in Nat /\ DOMAIN movable(in) = 1 .. Len(movable(in))
           /\ \A k \in 1 .. Len(movable(in)) : movable(in)[k] \in Workers(in)
  <1>1. movable(in) \in Seq(Instance) /\ Range(movable(in)) \subseteq Workers(in)
    BY MovableIs
  <1>2. Range(movable(in)) = {movable(in)[k] : k \in 1 .. Len(movable(in))}
    BY <1>1, RangeEquality
  <1>. QED BY <1>1, <1>2, LenProperties

RetiredAcc(in) == [acts : Seq(Doable(in)), surplus : Int]

\* An aggregated pool retires one worker after the other.
LEMMA RetireOneType ==
    ASSUME NEW in \in Population, NEW acc \in RetiredAcc(in), NEW i \in Workers(in)
    PROVE  RetireOne(in, acc, i) \in RetiredAcc(in)
  <1>1. Act("DRAIN", i, in.role[i]) \in Doable(in)
    <2>1. PDRoles # {}
      BY DEF PDRoles
    <2>. QED BY <2>1, ActIs
  <1>. DEFINE more == Append(acc.acts, Act("DRAIN", i, in.role[i]))
  <1>2. acc.acts \in Seq(Doable(in)) /\ acc.surplus \in Int
    BY DEF RetiredAcc
  <1>3. more \in Seq(Doable(in))
    BY <1>1, <1>2, AppendProperties
  <1>4. RetireOne(in, acc, i) \in
            {acc, [acts |-> more, surplus |-> acc.surplus - 1], [acc EXCEPT !.acts = more]}
    BY DEF RetireOne
  <1>. HIDE DEF more
  <1>5. [acts |-> more, surplus |-> acc.surplus - 1] \in RetiredAcc(in)
    BY <1>2, <1>3 DEF RetiredAcc
  <1>6. [acc EXCEPT !.acts = more] \in RetiredAcc(in)
    BY <1>3 DEF RetiredAcc
  <1>. QED BY <1>4, <1>5, <1>6

\* And the drains of a pool of regular workers.
LEMMA RetiredSteps ==
    ASSUME NEW in \in Population, NEW start \in RetiredAcc(in)
    PROVE  \E h : /\ h[0] = start
                  /\ \A k \in 0 .. Len(movable(in)) : h[k] \in RetiredAcc(in)
                  /\ \A k \in 1 .. Len(movable(in)) : h[k] = RetireOne(in, h[k - 1], movable(in)[k])
                  /\ Retired(in, start) = h[Len(movable(in))]
  <1>. DEFINE n == Len(movable(in))
              A == RetiredAcc(in)
              step(a, k) == RetireOne(in, a, movable(in)[k])
              P(it) == it = [t \in SUBSET (1 .. n) |->
                                IF t = {} THEN start ELSE step(it[t \ {Max(t)}], Max(t))]
              it == CHOOSE it : P(it)
  <1>1. /\ n \in Nat /\ start \in A
        /\ \A a \in A, k \in 1 .. n : step(a, k) \in A
    <2>1. n \in Nat
      BY MovableParts
    <2>. QED BY <2>1, MovableParts, RetireOneType
  <1>2. Retired(in, start) = it[1 .. n]
    <2>. DEFINE seq == movable(in)
    <2>1. DOMAIN seq = 1 .. n
      BY MovableParts
    <2>2. Retired(in, start) =
            LET iter == CHOOSE iter : iter = [t \in SUBSET (DOMAIN seq) |->
                                IF t = {} THEN start
                                ELSE RetireOne(in, iter[t \ {Max(t)}], seq[Max(t)])]
            IN  iter[DOMAIN seq]
      BY Zenon DEF Retired, FoldLeft, MapThenFoldSet
    <2>. HIDE DEF n
    <2>. QED BY <2>1, <2>2, Zenon
  <1>3. \E f : P(f)
    <2>. DEFINE G == [p \in (1 .. n) \X A |-> step(p[2], p[1])]
    <2>1. G \in [(1 .. n) \X A -> A]
      <3>. HIDE DEF n, A, step
      <3>. QED BY <1>1
    <2>2. PICK f : Unrolled(f, n, A, start, G)
      <3>. HIDE DEF A, G, n
      <3>. QED BY <1>1, <2>1, FoldExists
    <2>3. /\ f \in [SUBSET (1 .. n) -> A]
          /\ \A t \in SUBSET (1 .. n) :
                f[t] = IF t = {} THEN start ELSE G[<<Max(t), f[t \ {Max(t)}]>>]
      BY <2>2 DEF Unrolled
    <2>4. ASSUME NEW t \in SUBSET (1 .. n), t # {}
          PROVE  G[<<Max(t), f[t \ {Max(t)}]>>] = step(f[t \ {Max(t)}], Max(t))
      <3>. HIDE DEF n, A, step
      <3>1. Max(t) \in t
        BY <1>1, <2>4, Largest
      <3>2. Max(t) \in 1 .. n /\ f[t \ {Max(t)}] \in A
        BY <2>3, <3>1
      <3>. QED BY <3>2
    <2>5. P(f)
      <3>. HIDE DEF G, step, n, A
      <3>. QED BY <2>3, <2>4
    <2>. QED BY <2>5
  <1>4. P(it)
    <2>. HIDE DEF P
    <2>. QED BY <1>3
  <1>. DEFINE h == [k \in 0 .. n |-> it[1 .. k]]
  <1>5. \A t \in SUBSET (1 .. n) :
           it[t] = IF t = {} THEN start ELSE step(it[t \ {Max(t)}], Max(t))
    <2>. HIDE DEF it, step, n
    <2>. QED BY <1>4
  <1>6. h[0] = start
    <2>. HIDE DEF it, step, n
    <2>1. {} \in SUBSET (1 .. n) /\ 1 .. 0 = {} /\ 0 \in 0 .. n
      BY <1>1
    <2>. QED BY <1>5, <2>1
  <1>7. ASSUME NEW k \in 1 .. n
        PROVE  h[k] = step(h[k - 1], k)
    <2>. HIDE DEF it, step, n
    <2>1. k \in Int /\ 1 <= k /\ k <= n
      BY <1>1
    <2>2. (1 .. k) \in SUBSET (1 .. n) /\ k \in 1 .. k /\ k \in 0 .. n /\ k - 1 \in 0 .. n
      BY <1>1, <2>1
    <2>3. Max(1 .. k) = k /\ (1 .. k) \ {k} = 1 .. (k - 1)
      BY <1>1, LargestOfInterval
    <2>. QED BY <1>5, <2>2, <2>3
  <1>8. Retired(in, start) = h[n]
    <2>1. n \in 0 .. n
      <3>. HIDE DEF n
      <3>. QED BY <1>1
    <2>. HIDE DEF it, n
    <2>. QED BY <1>2, <2>1
  <1>9. 0 .. n \subseteq {k \in 0 .. n : h[k] \in A}
    <2>. HIDE DEF h, step, n, A
    <2>1. 0 \in {k \in 0 .. n : h[k] \in A}
      BY <1>1, <1>6
    <2>2. ASSUME NEW k \in 1 .. n, k - 1 \in {j \in 0 .. n : h[j] \in A}
          PROVE  k \in {j \in 0 .. n : h[j] \in A}
      BY <1>1, <1>7, <2>2
    <2>. DEFINE Good == {k \in 0 .. n : h[k] \in A}
    <2>3. 0 \in Good /\ \A k \in 1 .. n : k - 1 \in Good => k \in Good
      BY <2>1, <2>2
    <2>. HIDE DEF Good
    <2>4. 0 .. n \subseteq Good
      BY <1>1, <2>3, UpTo
    <2>. QED BY <2>4 DEF Good
  <1>10. \A k \in 0 .. n : h[k] \in A
    <2>. HIDE DEF h, n, A
    <2>. QED BY <1>9
  <1>. HIDE DEF h
  <1>. QED BY <1>6, <1>7, <1>8, <1>10

\* What a round of an aggregated pool plans can be carried out.
LEMMA AggregatedType ==
    ASSUME NEW in \in Population
    PROVE  planAggregated(in) \in Seq(Doable(in))
  <1>. DEFINE target  == TargetRegular(in)
              surplus == Cardinality(DOMAIN in.role) + Cardinality(in.idle) - target
              start == [acts |-> <<>>, surplus |-> surplus]
              retired == Retired(in, start).acts
              regular == Cardinality({i \in DOMAIN in.role : in.role[i] = "regular" /\ ~Touched(retired, i)})
              room == Min({target - regular, in.conf.maxChange - Len(retired), Cardinality(in.idle)})
              places == Max({0, room})
              assigned == [k \in 1 .. places |-> Act("ASSIGN", Sorted(in.idle)[k], "regular")]
  <1>1. target \in Int /\ surplus \in Int
    <2>1. Cardinality(DOMAIN in.role) \in Nat /\ Cardinality(in.idle) \in Nat /\ in.conf.maxServing \in Nat
      BY CardinalityParts, PopulationParts DEF Workers
    <2>. DEFINE a == Cardinality(DOMAIN in.role) + Cardinality(in.idle)
    <2>2. a \in Int
      BY <2>1
    <2>3. target = IF in.conf.maxServing = 0 THEN a ELSE Min({a, in.conf.maxServing})
      BY DEF TargetRegular, Capped
    <2>. HIDE DEF a, target
    <2>4. target \in Int
      BY <2>1, <2>2, <2>3, MinMax
    <2>5. surplus = a - target
      BY <2>1, <2>4 DEF a
    <2>. HIDE DEF surplus
    <2>. QED BY <2>2, <2>4, <2>5
  <1>2. start \in RetiredAcc(in)
    <2>. HIDE DEF surplus
    <2>. QED BY <1>1 DEF RetiredAcc
  <1>3. retired \in Seq(Doable(in))
    <2>. HIDE DEF start
    <2>1. PICK h : /\ \A k \in 0 .. Len(movable(in)) : h[k] \in RetiredAcc(in)
                   /\ Retired(in, start) = h[Len(movable(in))]
      BY <1>2, RetiredSteps
    <2>2. Retired(in, start) \in RetiredAcc(in)
      BY <2>1, MovableParts
    <2>. QED BY <2>2 DEF RetiredAcc
  <1>4. regular \in Int
    <2>1. {i \in DOMAIN in.role : in.role[i] = "regular" /\ ~Touched(retired, i)} \in SUBSET Instance
      BY PopulationParts DEF Workers
    <2>. QED BY <2>1, InstancesFinite
  <1>5. room \in Int /\ room <= Cardinality(in.idle)
    <2>. DEFINE a == target - regular
                b == in.conf.maxChange - Len(retired)
                c == Cardinality(in.idle)
    <2>1. a \in Int /\ b \in Int /\ c \in Int
      <3>. HIDE DEF target, regular, retired
      <3>1. Len(retired) \in Nat /\ c \in Nat /\ in.conf.maxChange \in Nat
        BY <1>3, CardinalityParts, PopulationParts
      <3>. QED BY <1>1, <1>4, <3>1
    <2>2. room = Min({a, b, c})
      OBVIOUS
    <2>. HIDE DEF a, b, c, room
    <2>3. \E x \in {a, b, c} : \A y \in {a, b, c} : x <= y
      <3>1. CASE a <= b /\ a <= c
        BY <2>1, <3>1
      <3>2. CASE b <= a /\ b <= c
        BY <2>1, <3>2
      <3>3. CASE c <= a /\ c <= b
        BY <2>1, <3>3
      <3>. QED BY <2>1, <3>1, <3>2, <3>3
    <2>4. Min({a, b, c}) \in {a, b, c} /\ \A y \in {a, b, c} : Min({a, b, c}) <= y
      BY <2>3 DEF Min
    <2>. QED BY <2>1, <2>2, <2>4 DEF c
  <1>6. places \in Nat /\ places <= Cardinality(in.idle)
    <2>1. Cardinality(in.idle) \in Nat /\ 0 \in Int
      BY CardinalityParts
    <2>. HIDE DEF room
    <2>2. places = IF 0 >= room THEN 0 ELSE room
      BY <1>5, <2>1, MinMax, Zenon
    <2>. HIDE DEF places
    <2>. QED BY <1>5, <2>1, <2>2
  <1>7. assigned \in Seq(Doable(in))
    <2>. HIDE DEF places
    <2>1. ASSUME NEW k \in 1 .. places
          PROVE  Act("ASSIGN", Sorted(in.idle)[k], "regular") \in Doable(in)
      <3>1. k \in 1 .. Cardinality(in.idle)
        BY <1>6, CardinalityParts
      <3>2. Sorted(in.idle)[k] \in in.idle /\ "regular" \in PDRoles
        BY <3>1, SortedIdle DEF PDRoles
      <3>. QED BY <3>2, AssignIs
    <2>2. assigned \in [1 .. places -> Doable(in)]
      BY <2>1
    <2>. HIDE DEF assigned
    <2>. QED BY <1>6, <2>2, SeqDef
  <1>8. planAggregated(in) = retired \o assigned
    BY DEF planAggregated
  <1>. HIDE DEF retired, assigned
  <1>. QED BY <1>3, <1>7, <1>8, ConcatProperties

-----------------------------------------------------------------------------
(***************************************************************************)
(* Drains of regular workers, and the capacity verb.                       *)
(***************************************************************************)

\* The regular workers a round drains first are regular workers, and all that may be
\* moved unless the round is full.
LEMMA DrainRegularsType ==
    ASSUME NEW in \in Population
    PROVE  /\ DrainRegulars(in) \in Seq(Doable(in))
           /\ \A k \in DOMAIN DrainRegulars(in) :
                 /\ DrainRegulars(in)[k].id \in Workers(in)
                 /\ in.role[DrainRegulars(in)[k].id] = "regular"
           /\ \/ Full(in, DrainRegulars(in))
              \/ \A i \in Workers(in) \ in.held :
                    in.role[i] = "regular" => Touched(DrainRegulars(in), i)
  <1>. DEFINE free == nextConversion(in, <<>>, "regular")
              m == Min({Len(free), in.conf.maxChange})
              acts == [k \in 1 .. m |-> Act("DRAIN", free[k], "regular")]
  <1>1. DrainRegulars(in) = acts
    BY DEF DrainRegulars
  <1>2. /\ free \in Seq(Instance)
        /\ Range(free) = {i \in Workers(in) \ in.held : in.role[i] = "regular"}
    <2>1. \A i : ~ Touched(<<>>, i)
      BY DEF Touched, Range
    <2>. QED BY <2>1, NextConversionIs
  <1>. HIDE DEF free
  <1>3. Len(free) \in Nat /\ in.conf.maxChange \in Nat /\ Range(free) = {free[k] : k \in 1 .. Len(free)}
    BY <1>2, PopulationParts, RangeEquality
  <1>4. m = IF Len(free) <= in.conf.maxChange THEN Len(free) ELSE in.conf.maxChange
    <2>1. Len(free) \in Int /\ in.conf.maxChange \in Int
      BY <1>3
    <2>. QED BY <2>1, MinMax, Zenon
  <1>. HIDE DEF m
  <1>5. m \in Nat /\ m <= Len(free)
    BY <1>3, <1>4
  <1>6. ASSUME NEW k \in 1 .. m
        PROVE  /\ Act("DRAIN", free[k], "regular") \in Doable(in)
               /\ free[k] \in Workers(in) /\ in.role[free[k]] = "regular"
    <2>1. k \in 1 .. Len(free)
      BY <1>3, <1>5
    <2>2. free[k] \in Workers(in) /\ in.role[free[k]] = "regular"
      BY <1>2, <1>3, <2>1
    <2>3. Act("DRAIN", free[k], "regular") \in Doable(in)
      <3>1. "regular" \in PDRoles
        BY DEF PDRoles
      <3>. QED BY <2>2, <3>1, ActIs
    <2>. QED BY <2>2, <2>3
  <1>7. acts \in Seq(Doable(in)) /\ Len(acts) = m
    <2>1. acts \in [1 .. m -> Doable(in)]
      BY <1>6
    <2>2. acts \in Seq(Doable(in)) /\ DOMAIN acts = 1 .. m
      <3>. HIDE DEF acts
      <3>. QED BY <1>5, <2>1, SeqDef
    <2>. HIDE DEF acts
    <2>3. Len(acts) \in Nat /\ DOMAIN acts = 1 .. Len(acts)
      BY <2>2, LenProperties
    <2>. QED BY <1>5, <2>2, <2>3
  <1>8. \A k \in 1 .. m : acts[k].id = free[k]
    BY DEF Act
  <1>9. m = in.conf.maxChange \/ m = Len(free)
    BY <1>4
  <1>10. CASE m = in.conf.maxChange
    <2>1. Full(in, acts)
      <3>. HIDE DEF acts
      <3>. QED BY <1>3, <1>7, <1>10 DEF Full
    <2>2. DOMAIN acts = 1 .. m
      OBVIOUS
    <2>. HIDE DEF acts
    <2>. QED BY <1>1, <1>6, <1>7, <1>8, <2>1, <2>2
  <1>11. CASE m = Len(free)
    <2>1. DOMAIN acts = 1 .. m
      OBVIOUS
    <2>2. ASSUME NEW i \in Workers(in) \ in.held, in.role[i] = "regular"
          PROVE  Touched(acts, i)
      <3>1. PICK k \in 1 .. m : free[k] = i
        BY <1>2, <1>3, <1>11, <2>2
      <3>2. acts[k] \in Range(acts) /\ acts[k].id = i
        <4>. HIDE DEF acts
        <4>. QED BY <1>8, <2>1, <3>1 DEF Range
      <3>. HIDE DEF acts
      <3>. QED BY <3>2 DEF Touched
    <2>. HIDE DEF acts
    <2>. QED BY <1>1, <1>6, <1>7, <1>8, <2>1, <2>2
  <1>. QED BY <1>9, <1>10, <1>11

\* A set of instances that is not empty has a smallest one.
LEMMA Smallest ==
    ASSUME NEW S, S \subseteq Nat, S # {}
    PROVE  Min(S) \in S
  <1>1. PICK k \in S : \A m \in S : ~ (<<m, k>> \in OpToRel(<, Nat))
    BY WFMin, NatLessThanWellFounded
  <1>2. \A m \in S : ~ (m < k)
    BY <1>1 DEF OpToRel
  <1>3. \A m \in S : k <= m
    BY <1>2
  <1>. QED BY <1>3 DEF Min

\* What the capacity verbs ask for: nothing, one more instance, an idle instance
\* back, or a worker of a role that has another one.
LEMMA ReleaseType ==
    ASSUME NEW in \in Population, NEW acts
    PROVE  \/ releaseStep(in, acts) = <<>>
           \/ \E i \in in.idle : releaseStep(in, acts) = <<Act("RELEASE", i, "none")>>
           \/ \E i \in Workers(in), r \in PD :
                 /\ releaseStep(in, acts) = <<Act("RELEASE", i, r)>>
                 /\ in.role[i] = r
                 /\ (IF r = "decode" THEN Decodes(in) ELSE Prefills(in)) > 1
  <1>. DEFINE role == LessLoaded(in)
              free == nextConversion(in, acts, role)
  <1>1. CASE ~ Idling(in.load)
    BY <1>1 DEF releaseStep
  <1>2. CASE Idling(in.load) /\ in.idle # {}
    <2>1. releaseStep(in, acts) = <<Act("RELEASE", Min(in.idle), "none")>>
      BY <1>2 DEF releaseStep
    <2>2. Min(in.idle) \in in.idle
      BY <1>2, PopulationParts, InstancesFinite, Smallest
    <2>. QED BY <2>1, <2>2
  <1>3. CASE Idling(in.load) /\ in.idle = {}
    <2>1. role \in PD /\ (role = "decode" \/ role = "prefill")
      BY DEF LessLoaded, PD
    <2>2. \/ releaseStep(in, acts) = <<>>
          \/ /\ releaseStep(in, acts) = <<Act("RELEASE", free[1], role)>>
             /\ (IF role = "decode" THEN Decodes(in) ELSE Prefills(in)) > 1
             /\ free # <<>>
      BY <1>3 DEF releaseStep
    <2>3. free # <<>> => free[1] \in Workers(in) /\ in.role[free[1]] = role
      <3>. HIDE DEF role
      <3>1. /\ free \in Seq(Instance)
            /\ Range(free) = {i \in Workers(in) \ in.held : in.role[i] = role /\ ~Touched(acts, i)}
        BY NextConversionIs
      <3>. HIDE DEF free
      <3>2. free # <<>> => free[1] \in Range(free)
        BY <3>1, FirstOf
      <3>. QED BY <3>1, <3>2
    <2>. HIDE DEF free, role
    <2>. QED BY <2>1, <2>2, <2>3
  <1>. QED BY <1>1, <1>2, <1>3

\* The capacity verb of a round is one request or one release.
LEMMA CapacityType ==
    ASSUME NEW in \in Population, NEW g \in Gear, NEW acts, NEW moved
    PROVE  \/ capacityStep(in, g, acts, moved) = <<>>
           \/ /\ ~ Full(in, acts)
              /\ \/ \E r \in PD : capacityStep(in, g, acts, moved) = <<Act("PROVISION", 0, r)>>
                 \/ capacityStep(in, g, acts, moved) = releaseStep(in, acts)
  <1>1. provisionStep(in, g) = <<>> \/ \E r \in PD : provisionStep(in, g) = <<Act("PROVISION", 0, r)>>
    BY DEF provisionStep, Pressed
  <1>2. capacityStep(in, g, acts, moved) \in {<<>>, releaseStep(in, acts), provisionStep(in, g)}
    BY DEF capacityStep
  <1>3. Full(in, acts) => capacityStep(in, g, acts, moved) = <<>>
    BY DEF capacityStep
  <1>. QED BY <1>1, <1>2, <1>3

-----------------------------------------------------------------------------
(***************************************************************************)
(* Every action that is planned can be carried out.                        *)
(***************************************************************************)

\* What the conversions start from.
Begun(in, g, moved) ==
    [acts |-> DrainRegulars(in) \o
                 (IF in.conf.capacity /\ in.mode = "auto"
                  THEN capacityStep(in, g, DrainRegulars(in), moved) ELSE <<>>),
     n    |-> [prefill |-> Number(in, "prefill"), decode |-> Number(in, "decode")]]

\* It can be carried out.
LEMMA CapacityDoable ==
    ASSUME NEW in \in Population, NEW g \in Gear, NEW acts, NEW moved
    PROVE  capacityStep(in, g, acts, moved) \in Seq(Doable(in))
  <1>1. <<>> \in Seq(Doable(in))
    OBVIOUS
  <1>2. ASSUME NEW r \in PD
        PROVE  <<Act("PROVISION", 0, r)>> \in Seq(Doable(in))
    <2>1. Act("PROVISION", 0, r) \in Doable(in)
      BY DEF Act, Doable, Action, PDRoles
    <2>. QED BY <2>1
  <1>3. releaseStep(in, acts) \in Seq(Doable(in))
    <2>1. ASSUME NEW i \in in.idle
          PROVE  <<Act("RELEASE", i, "none")>> \in Seq(Doable(in))
      <3>1. Act("RELEASE", i, "none") \in Doable(in)
        <4>1. "regular" \in PDRoles
          BY DEF PDRoles
        <4>. QED BY <4>1, AssignIs
      <3>. QED BY <3>1
    <2>2. ASSUME NEW i \in Workers(in), NEW r \in PD
          PROVE  <<Act("RELEASE", i, r)>> \in Seq(Doable(in))
      <3>1. Act("RELEASE", i, r) \in Doable(in)
        <4>1. r \in PDRoles
          BY DEF PDRoles
        <4>. QED BY <4>1, ActIs
      <3>. QED BY <3>1
    <2>3. \/ releaseStep(in, acts) = <<>>
          \/ \E i \in in.idle : releaseStep(in, acts) = <<Act("RELEASE", i, "none")>>
          \/ \E i \in Workers(in), r \in PD : releaseStep(in, acts) = <<Act("RELEASE", i, r)>>
      BY ReleaseType
    <2>. QED BY <1>1, <2>1, <2>2, <2>3, Zenon
  <1>. QED BY <1>1, <1>2, <1>3, CapacityType

\* What a round has accumulated before it drains to the cap.
LEMMA BegunType ==
    ASSUME NEW in \in Population, NEW g \in Gear, NEW moved
    PROVE  Begun(in, g, moved) \in Acc(in)
  <1>. DEFINE capacity == IF in.conf.capacity /\ in.mode = "auto"
                          THEN capacityStep(in, g, DrainRegulars(in), moved) ELSE <<>>
  <1>1. capacity \in Seq(Doable(in))
    <2>1. <<>> \in Seq(Doable(in))
      OBVIOUS
    <2>. QED BY <2>1, CapacityDoable
  <1>2. DrainRegulars(in) \in Seq(Doable(in))
    BY DrainRegularsType
  <1>. HIDE DEF capacity
  <1>3. DrainRegulars(in) \o capacity \in Seq(Doable(in))
    BY <1>1, <1>2, ConcatProperties
  <1>4. [prefill |-> Number(in, "prefill"), decode |-> Number(in, "decode")] \in Count
    <2>1. Number(in, "prefill") \in Int /\ Number(in, "decode") \in Int
      BY CardinalityParts
    <2>. QED BY <2>1 DEF Count
  <1>5. Begun(in, g, moved) =
            [acts |-> DrainRegulars(in) \o capacity,
             n    |-> [prefill |-> Number(in, "prefill"), decode |-> Number(in, "decode")]]
    BY DEF Begun, capacity
  <1>. QED BY <1>3, <1>4, <1>5 DEF Acc

\* A round of a disaggregated pool is its phases one after the other.
LEMMA PlanPDIs ==
    ASSUME NEW in \in Population, NEW g \in Gear, NEW moved
    PROVE  PlanPD(in, g, moved) =
              Converted(in, Target(in, g),
                        Assigned(in, Target(in, g),
                                 Drained(in, Target(in, g), Begun(in, g, moved)))).acts
  BY DEF PlanPD, Begun

\* Each phase leads from one accumulated result to another.
LEMMA PhaseTypes ==
    ASSUME NEW in \in Population, NEW target \in Count, NEW start \in Acc(in)
    PROVE  /\ Drained(in, target, start) \in Acc(in)
           /\ Assigned(in, target, start) \in Acc(in)
           /\ Converted(in, target, start) \in Acc(in)
  <1>1. Drained(in, target, start) \in Acc(in)
    <2>1. PICK h : /\ \A k \in 0 .. Surplus(in) : h[k] \in Acc(in)
                   /\ Drained(in, target, start) = h[Surplus(in)]
      BY DrainedSteps
    <2>2. Surplus(in) \in 0 .. Surplus(in)
      BY CardinalityParts DEF Surplus
    <2>. QED BY <2>1, <2>2
  <1>2. Assigned(in, target, start) \in Acc(in)
    <2>1. PICK h : /\ \A k \in 0 .. Cardinality(in.idle) : h[k] \in Acc(in)
                   /\ Assigned(in, target, start) = h[Cardinality(in.idle)]
      BY AssignedSteps
    <2>2. Cardinality(in.idle) \in 0 .. Cardinality(in.idle)
      BY CardinalityParts
    <2>. QED BY <2>1, <2>2
  <1>3. Converted(in, target, start) \in Acc(in)
    <2>1. PICK h : /\ \A k \in 0 .. Conversions(in) : h[k] \in Acc(in)
                   /\ Converted(in, target, start) = h[Conversions(in)]
      BY ConvertedSteps
    <2>2. Conversions(in) \in 0 .. Conversions(in)
      BY PopulationParts DEF Conversions
    <2>. QED BY <2>1, <2>2
  <1>. QED BY <1>1, <1>2, <1>3

\* Whatever the population is, a round plans what can be carried out.
LEMMA PlanIs ==
    ASSUME NEW in \in Population
    PROVE  Plan(in).acts \in Seq(Doable(in)) /\ Plan(in).gear \in Gear
  <1>. DEFINE g == IF in.mode = "auto" THEN autoStep(in.gear, in.load) ELSE in.gear
  <1>1. g \in Gear
    BY PopulationParts DEF autoStep
  <1>. HIDE DEF g
  <1>2. planAggregated(in) \in Seq(Doable(in))
    BY AggregatedType
  <1>3. PlanPD(in, g, g # in.gear) \in Seq(Doable(in))
    <2>. DEFINE a == Begun(in, g, g # in.gear)
                t == Target(in, g)
                b == Drained(in, t, a)
                c == Assigned(in, t, b)
                d == Converted(in, t, c)
    <2>1. a \in Acc(in) /\ t \in Count
      BY <1>1, BegunType, TargetIs
    <2>. HIDE DEF a, t
    <2>2. b \in Acc(in)
      BY <2>1, PhaseTypes
    <2>. HIDE DEF b
    <2>3. c \in Acc(in)
      BY <2>1, <2>2, PhaseTypes
    <2>. HIDE DEF c
    <2>4. d \in Acc(in)
      BY <2>1, <2>3, PhaseTypes
    <2>5. PlanPD(in, g, g # in.gear) = d.acts
      BY <1>1, PlanPDIs DEF a, b, c, t
    <2>. HIDE DEF d
    <2>. QED BY <2>4, <2>5, AccParts
  <1>4. Plan(in) = [gear |-> g,
                    acts |-> IF in.mode = "aggregated" THEN planAggregated(in)
                             ELSE PlanPD(in, g, g # in.gear)]
    BY DEF Plan, g
  <1>. QED BY <1>1, <1>2, <1>3, <1>4

-----------------------------------------------------------------------------
(***************************************************************************)
(* A round and the last worker of a role.                                  *)
(***************************************************************************)

\* The workers of role r that the actions leave alone.
Remaining(in, acts, r) == {i \in Workers(in) : in.role[i] = r /\ ~Touched(acts, i)}

\* A role that has a worker keeps one.
Present(in, acts) ==
    \A r \in PD : (\E i \in Workers(in) : in.role[i] = r) => Remaining(in, acts, r) # {}

\* The workers of a role that are left alone can be counted.
LEMMA RemainingFinite ==
    ASSUME NEW in \in Population, NEW acts, NEW r
    PROVE  /\ IsFiniteSet(Remaining(in, acts, r))
           /\ Cardinality(Remaining(in, acts, r)) \in Nat
           /\ Cardinality(Remaining(in, acts, r)) = 0 <=> Remaining(in, acts, r) = {}
  <1>1. Remaining(in, acts, r) \in SUBSET Instance
    BY PopulationParts DEF Remaining
  <1>. QED BY <1>1, InstancesFinite, FS_EmptySet

\* An action touches the instance it names.
LEMMA TouchedAppend ==
    ASSUME NEW X, NEW acts \in Seq(X), NEW a \in X, NEW i
    PROVE  Touched(Append(acts, a), i) <=> Touched(acts, i) \/ a.id = i
  <1>1. /\ Append(acts, a) \in Seq(X) /\ Len(acts) \in Nat /\ Len(Append(acts, a)) = Len(acts) + 1
        /\ \A k \in 1 .. Len(acts) : Append(acts, a)[k] = acts[k]
        /\ Append(acts, a)[Len(acts) + 1] = a
    BY AppendProperties
  <1>2. /\ Range(Append(acts, a)) = {Append(acts, a)[k] : k \in 1 .. Len(acts) + 1}
        /\ Range(acts) = {acts[k] : k \in 1 .. Len(acts)}
    BY <1>1, RangeEquality
  <1>3. \A k \in 1 .. Len(acts) + 1 : k = Len(acts) + 1 \/ k \in 1 .. Len(acts)
    BY <1>1
  <1>4. Len(acts) + 1 \in 1 .. Len(acts) + 1 /\ 1 .. Len(acts) \subseteq 1 .. Len(acts) + 1
    BY <1>1
  <1>5. Range(Append(acts, a)) = Range(acts) \cup {a}
    BY <1>1, <1>2, <1>3, <1>4
  <1>. QED BY <1>5 DEF Touched

\* An action planned takes the instance it names from those left alone.
LEMMA RemainingAppend ==
    ASSUME NEW in, NEW X, NEW acts \in Seq(X), NEW a \in X, NEW r
    PROVE  Remaining(in, Append(acts, a), r) = Remaining(in, acts, r) \ {a.id}
  BY TouchedAppend DEF Remaining

\* One worker less of its role, none less of the other.
LEMMA RemainingLess ==
    ASSUME NEW in \in Population, NEW acts \in Seq(Doable(in)), NEW a \in Doable(in),
           a.id \in Workers(in), ~Touched(acts, a.id), NEW r
    PROVE  /\ in.role[a.id] = r =>
                 Cardinality(Remaining(in, Append(acts, a), r)) = Cardinality(Remaining(in, acts, r)) - 1
           /\ in.role[a.id] # r => Remaining(in, Append(acts, a), r) = Remaining(in, acts, r)
  <1>1. Remaining(in, Append(acts, a), r) = Remaining(in, acts, r) \ {a.id}
    BY RemainingAppend
  <1>2. IsFiniteSet(Remaining(in, acts, r))
    BY RemainingFinite
  <1>3. in.role[a.id] = r => a.id \in Remaining(in, acts, r)
    BY DEF Remaining
  <1>4. in.role[a.id] # r => a.id \notin Remaining(in, acts, r)
    BY DEF Remaining
  <1>5. ASSUME in.role[a.id] = r
        PROVE  Cardinality(Remaining(in, Append(acts, a), r)) = Cardinality(Remaining(in, acts, r)) - 1
    <2>. DEFINE S == Remaining(in, acts, r)
                x == a.id
    <2>1. IsFiniteSet(S) /\ x \in S
      BY <1>2, <1>3, <1>5
    <2>. HIDE DEF S, x
    <2>2. Cardinality(S \ {x}) = Cardinality(S) - 1
      BY <2>1, FS_RemoveElement
    <2>. QED BY <1>1, <2>2 DEF S, x
  <1>6. ASSUME in.role[a.id] # r
        PROVE  Remaining(in, Append(acts, a), r) = Remaining(in, acts, r)
    BY <1>1, <1>4, <1>6
  <1>. QED BY <1>5, <1>6

\* An action about an idle instance or about none leaves the workers alone.
LEMMA RemainingSame ==
    ASSUME NEW in \in Population, NEW acts \in Seq(Doable(in)), NEW a \in Doable(in),
           a.id \notin Workers(in), NEW r
    PROVE  Remaining(in, Append(acts, a), r) = Remaining(in, acts, r)
  <1>1. Remaining(in, Append(acts, a), r) = Remaining(in, acts, r) \ {a.id}
    BY RemainingAppend
  <1>. QED BY <1>1 DEF Remaining

(***************************************************************************)
(* A capacity verb has a round for itself, a cap leaves room for both      *)
(* roles, and neither meets a worker that is held.                         *)
(***************************************************************************)
Unmixed(in) ==
    /\ in.conf.capacity => in.conf.maxChange = 1 /\ in.held = {}
    /\ in.conf.maxServing # 0 => in.conf.maxServing >= 2 /\ in.held = {}

\* As long as the round may still change something, the counts are those of the
\* workers it has left alone.
Exact(in, acc) ==
    /\ acc.n.prefill = Cardinality(Remaining(in, acc.acts, "prefill"))
    /\ acc.n.decode = Cardinality(Remaining(in, acc.acts, "decode"))

Draining(in, acc, k) ==
    /\ Present(in, acc.acts)
    /\ \/ Full(in, acc.acts)
       \/ Exact(in, acc) /\ acc.n.prefill + acc.n.decode = ServingPD(in) - k

\* Once idle instances are counted too, a role is counted exactly or is not above
\* its target.
Balanced(in, target, acc) ==
    /\ \/ acc.n.prefill = Cardinality(Remaining(in, acc.acts, "prefill"))
       \/ acc.n.prefill <= target.prefill
    /\ \/ acc.n.decode = Cardinality(Remaining(in, acc.acts, "decode"))
       \/ acc.n.prefill >= target.prefill

Assigning(in, target, acc, k) ==
    /\ Present(in, acc.acts)
    /\ \/ Full(in, acc.acts)
       \/ /\ Balanced(in, target, acc)
          /\ \/ acc.n.prefill + acc.n.decode >= Total(in)
             \/ acc.n.prefill + acc.n.decode = ServingPD(in) + k

Converting(in, target, acc) ==
    /\ Present(in, acc.acts)
    /\ \/ Full(in, acc.acts)
       \/ Balanced(in, target, acc) /\ acc.n.prefill + acc.n.decode >= Total(in)

\* A role of which more than one worker is left may lose one.
LEMMA PresentLess ==
    ASSUME NEW in \in Population, NEW acts \in Seq(Doable(in)), NEW a \in Doable(in),
           a.id \in Workers(in), ~Touched(acts, a.id), Present(in, acts),
           in.role[a.id] \in PD => Cardinality(Remaining(in, acts, in.role[a.id])) > 1
    PROVE  Present(in, Append(acts, a))
  <1>. SUFFICES ASSUME NEW r \in PD, \E i \in Workers(in) : in.role[i] = r
                PROVE  Remaining(in, Append(acts, a), r) # {}
    BY DEF Present
  <1>1. Remaining(in, acts, r) # {}
    BY DEF Present
  <1>2. CASE in.role[a.id] = r
    <2>1. Cardinality(Remaining(in, Append(acts, a), r)) = Cardinality(Remaining(in, acts, r)) - 1
      BY <1>2, RemainingLess
    <2>2. Cardinality(Remaining(in, acts, r)) > 1
      BY <1>2
    <2>3. /\ Cardinality(Remaining(in, acts, r)) \in Nat
          /\ Cardinality(Remaining(in, Append(acts, a), r)) = 0
                <=> Remaining(in, Append(acts, a), r) = {}
      BY RemainingFinite
    <2>. QED BY <2>1, <2>2, <2>3
  <1>3. CASE in.role[a.id] # r
    BY <1>1, <1>3, RemainingLess
  <1>. QED BY <1>2, <1>3

\* An action about an instance that does not work takes nothing from a role.
LEMMA PresentSame ==
    ASSUME NEW in \in Population, NEW acts \in Seq(Doable(in)), NEW a \in Doable(in),
           a.id \notin Workers(in), Present(in, acts)
    PROVE  Present(in, Append(acts, a))
  BY RemainingSame DEF Present

\* Before anything is drained to the cap: the regular workers that had to go do not
\* count, and a capacity verb fills the round.
LEMMA BegunKeeps ==
    ASSUME NEW in \in Population, NEW g \in Gear, NEW moved, Unmixed(in)
    PROVE  Draining(in, Begun(in, g, moved), 0)
  <1>. DEFINE regulars == DrainRegulars(in)
              capacity == IF in.conf.capacity /\ in.mode = "auto"
                          THEN capacityStep(in, g, regulars, moved) ELSE <<>>
              acc == Begun(in, g, moved)
  <1>. SUFFICES Draining(in, acc, 0)
    OBVIOUS
  <1>1. /\ regulars \in Seq(Doable(in))
        /\ \A k \in DOMAIN regulars : /\ regulars[k].id \in Workers(in)
                                      /\ in.role[regulars[k].id] = "regular"
        /\ \/ Full(in, regulars)
           \/ \A i \in Workers(in) \ in.held : in.role[i] = "regular" => Touched(regulars, i)
    BY DrainRegularsType
  <1>2. acc.acts = regulars \o capacity
    BY DEF Begun
  <1>3. ASSUME NEW r \in PD
        PROVE  /\ Remaining(in, regulars, r) = {i \in DOMAIN in.role : in.role[i] = r}
               /\ Cardinality(Remaining(in, regulars, r)) = Number(in, r)
    <2>1. \A i \in Workers(in) : in.role[i] = r => ~Touched(regulars, i)
      <3>1. r # "regular"
        BY DEF PD
      <3>. HIDE DEF regulars
      <3>. QED BY <1>1, <3>1 DEF Touched, Range
    <2>2. Remaining(in, regulars, r) = {i \in DOMAIN in.role : in.role[i] = r}
      BY <2>1 DEF Remaining, Workers
    <2>. HIDE DEF regulars
    <2>. QED BY <2>2 DEF Number
  <1>4. Present(in, regulars)
    BY <1>3 DEF Present, Workers
  <1>5. CASE capacity = <<>>
    <2>1. acc.acts = regulars
      <3>. HIDE DEF regulars, capacity, acc
      <3>. QED BY <1>1, <1>2, <1>5, ConcatEmptySeq
    <2>2. acc.n.prefill = Number(in, "prefill") /\ acc.n.decode = Number(in, "decode")
      BY DEF Begun
    <2>3. "prefill" \in PD /\ "decode" \in PD
      BY DEF PD
    <2>. HIDE DEF regulars, capacity, acc
    <2>4. Exact(in, acc)
      BY <1>3, <2>1, <2>2, <2>3 DEF Exact
    <2>5. acc.n.prefill + acc.n.decode = ServingPD(in) - 0
      BY <2>2, CardinalityParts DEF ServingPD
    <2>. QED BY <1>4, <2>1, <2>4, <2>5 DEF Draining
  <1>6. CASE capacity # <<>>
    <2>1. /\ in.conf.capacity /\ capacity = capacityStep(in, g, regulars, moved)
          /\ capacityStep(in, g, regulars, moved) # <<>>
      BY <1>6
    <2>2. /\ ~ Full(in, regulars)
          /\ \/ \E r \in PD : capacity = <<Act("PROVISION", 0, r)>>
             \/ capacity = releaseStep(in, regulars)
      <3>. HIDE DEF regulars
      <3>. QED BY <2>1, CapacityType
    <2>3. in.conf.maxChange = 1 /\ in.held = {}
      BY <2>1 DEF Unmixed
    <2>. HIDE DEF regulars, capacity, acc
    <2>4. regulars = <<>>
      <3>1. Len(regulars) \in Nat /\ ~ (Len(regulars) >= 1)
        BY <1>1, <2>2, <2>3 DEF Full
      <3>. QED BY <1>1, <3>1
    <2>5. \A i \in Workers(in) : in.role[i] # "regular"
      <3>1. \A i : ~ Touched(<<>>, i)
        BY DEF Touched, Range
      <3>. QED BY <1>1, <2>2, <2>3, <2>4, <3>1
    <2>6. ASSUME NEW a \in Doable(in), capacity = <<a>>
          PROVE  acc.acts = Append(regulars, a) /\ Full(in, acc.acts)
      <3>1. acc.acts = <<a>> /\ Append(regulars, a) = <<a>>
        BY <1>2, <2>4, <2>6
      <3>2. Len(acc.acts) = 1
        BY <3>1
      <3>. QED BY <2>3, <3>1, <3>2 DEF Full
    <2>7. ASSUME NEW a \in Doable(in), capacity = <<a>>, a.id \notin Workers(in)
          PROVE  Draining(in, acc, 0)
      <3>1. Present(in, Append(regulars, a))
        BY <1>1, <1>4, <2>7, PresentSame
      <3>. QED BY <2>6, <2>7, <3>1 DEF Draining
    <2>8. CASE \E r \in PD : capacity = <<Act("PROVISION", 0, r)>>
      <3>1. PICK r \in PD : capacity = <<Act("PROVISION", 0, r)>>
        BY <2>8
      <3>2. Act("PROVISION", 0, r) \in Doable(in) /\ Act("PROVISION", 0, r).id = 0
        BY DEF Act, Doable, Action, PDRoles
      <3>3. 0 \notin Workers(in)
        BY PopulationParts, InstancesFinite
      <3>. QED BY <2>7, <3>1, <3>2, <3>3
    <2>9. CASE capacity = releaseStep(in, regulars)
      <3>1. CASE \E i \in in.idle : releaseStep(in, regulars) = <<Act("RELEASE", i, "none")>>
        <4>1. PICK i \in in.idle : capacity = <<Act("RELEASE", i, "none")>>
          BY <2>9, <3>1
        <4>2. Act("RELEASE", i, "none") \in Doable(in) /\ Act("RELEASE", i, "none").id = i
          <5>1. "regular" \in PDRoles
            BY DEF PDRoles
          <5>. QED BY <5>1, AssignIs DEF Act
        <4>3. i \notin Workers(in)
          BY PopulationParts
        <4>. QED BY <2>7, <4>1, <4>2, <4>3
      <3>2. ASSUME NEW i \in Workers(in), NEW r \in PD,
                   releaseStep(in, regulars) = <<Act("RELEASE", i, r)>>, in.role[i] = r,
                   (IF r = "decode" THEN Decodes(in) ELSE Prefills(in)) > 1
            PROVE  Draining(in, acc, 0)
        <4>. DEFINE a == Act("RELEASE", i, r)
        <4>1. a \in Doable(in) /\ a.id = i
          <5>1. r \in PDRoles
            BY DEF PDRoles
          <5>. QED BY <5>1, ActIs DEF Act
        <4>2. Number(in, r) > 1
          <5>1. CASE r = "prefill"
            BY <3>2, <5>1 DEF Prefills
          <5>2. CASE r = "decode"
            <6>. DEFINE D == {j \in DOMAIN in.role : in.role[j] = "decode"}
                        P == {j \in DOMAIN in.role : in.role[j] = "prefill"}
            <6>1. DOMAIN in.role = D \cup P /\ D \cap P = {}
              BY <2>5, PopulationParts DEF Workers, PDRoles, PD
            <6>2. D \in SUBSET Instance /\ P \in SUBSET Instance
              BY PopulationParts DEF Workers
            <6>3. /\ IsFiniteSet(D) /\ IsFiniteSet(P)
                  /\ Cardinality(D) \in Nat /\ Cardinality(P) \in Nat
              <7>. HIDE DEF D, P
              <7>. QED BY <6>2, InstancesFinite
            <6>4. Cardinality(D \cup P) = Cardinality(D) + Cardinality(P)
              <7>. HIDE DEF D, P
              <7>1. Cardinality(D \cup P) = Cardinality(D) + Cardinality(P) - Cardinality(D \cap P)
                BY <6>3, FS_Union
              <7>2. Cardinality(D \cap P) = 0
                BY <6>1, FS_EmptySet
              <7>. QED BY <6>3, <7>1, <7>2
            <6>5. Decodes(in) = Cardinality(D \cup P) - Cardinality(P)
              <7>1. Decodes(in) = Cardinality(DOMAIN in.role) - Cardinality(P)
                BY DEF Decodes, Prefills, Number
              <7>. HIDE DEF D, P
              <7>. QED BY <6>1, <7>1
            <6>6. Decodes(in) > 1
              BY <3>2, <5>2
            <6>7. Number(in, r) = Cardinality(D)
              BY <5>2 DEF Number
            <6>. HIDE DEF D, P
            <6>. QED BY <6>3, <6>4, <6>5, <6>6, <6>7
          <5>. QED BY <5>1, <5>2 DEF PD
        <4>. HIDE DEF a
        <4>3. capacity = <<a>>
          BY <2>9, <3>2 DEF a
        <4>4. ~ Touched(regulars, a.id)
          BY <2>4 DEF Touched, Range
        <4>5. Present(in, Append(regulars, a))
          <5>1. a.id \in Workers(in) /\ in.role[a.id] = r
            BY <3>2, <4>1
          <5>2. Cardinality(Remaining(in, regulars, in.role[a.id])) > 1
            BY <1>3, <4>2, <5>1
          <5>. QED BY <1>1, <1>4, <4>1, <4>4, <5>1, <5>2, PresentLess
        <4>. QED BY <2>6, <4>1, <4>3, <4>5 DEF Draining
      <3>. QED BY <1>6, <2>9, <3>1, <3>2, ReleaseType
    <2>. QED BY <2>2, <2>8, <2>9
  <1>. QED BY <1>5, <1>6

-----------------------------------------------------------------------------
(***************************************************************************)
(* One step of a phase keeps every role.                                   *)
(***************************************************************************)

\* A count of a role is one of the two counts.
LEMMA CountSides ==
    ASSUME NEW n \in Count, NEW r \in PD
    PROVE  /\ n.prefill \in Int /\ n.decode \in Int
           /\ n[r] = IF r = "prefill" THEN n.prefill ELSE n.decode
  <1>1. CASE r = "prefill"
    BY <1>1 DEF Count
  <1>2. CASE r = "decode"
    BY <1>2 DEF Count
  <1>. QED BY <1>1, <1>2 DEF PD

\* A drain to the cap takes a worker of a role that is above its target, and the
\* target is at least one.
LEMMA DrainOneKeeps ==
    ASSUME NEW in \in Population, Unmixed(in), NEW g \in Gear, NEW acc \in Acc(in),
           NEW k \in 1 .. Surplus(in), Draining(in, acc, k - 1)
    PROVE  Draining(in, DrainOne(in, Target(in, g), acc), k)
  <1>. DEFINE target == Target(in, g)
              free == Untouched(in, acc.acts)
              S == {j \in DOMAIN in.role : in.role[j] \in PD /\ acc.n[in.role[j]] > target[in.role[j]]}
              over == Only(free, S)
  <1>1. acc.acts \in Seq(Doable(in)) /\ acc.n \in Count /\ target \in Count
    BY AccParts, TargetIs
  <1>2. CASE Full(in, acc.acts)
    <2>1. DrainOne(in, target, acc) = acc
      BY <1>2 DEF DrainOne
    <2>. QED BY <1>2, <2>1 DEF Draining
  <1>3. CASE ~ Full(in, acc.acts)
    <2>1. /\ Present(in, acc.acts) /\ Exact(in, acc)
          /\ acc.n.prefill + acc.n.decode = ServingPD(in) - (k - 1)
      BY <1>3 DEF Draining
    <2>2. /\ k \in Int /\ k >= 1 /\ k <= ServingPD(in) - Total(in)
          /\ ServingPD(in) \in Nat /\ Total(in) \in Nat /\ Cardinality(in.idle) \in Nat
      BY CardinalityParts DEF Surplus
    <2>3. Total(in) >= 2 /\ in.held = {}
      <3>1. Total(in) < ServingPD(in) + Cardinality(in.idle)
        BY <2>2
      <3>2. in.conf.maxServing # 0 /\ Total(in) = in.conf.maxServing
        BY <2>2, <3>1, CardinalityParts
      <3>. QED BY <3>2 DEF Unmixed
    <2>4. /\ target.prefill \in Int /\ target.decode \in Int
          /\ acc.n.prefill \in Int /\ acc.n.decode \in Int
          /\ target.prefill + target.decode = Total(in)
          /\ target.prefill >= 1 /\ target.decode >= 1
      <3>1. "prefill" \in PD
        BY DEF PD
      <3>. QED BY <1>1, <2>3, <3>1, TargetIs, CountSides
    <2>5. acc.n.prefill > target.prefill \/ acc.n.decode > target.decode
      <3>1. acc.n.prefill + acc.n.decode > target.prefill + target.decode
        BY <2>1, <2>2, <2>4
      <3>. HIDE DEF target
      <3>. QED BY <2>4, <3>1
    <2>6. ASSUME NEW r \in PD, acc.n[r] > target[r]
          PROVE  /\ acc.n[r] = Cardinality(Remaining(in, acc.acts, r))
                 /\ Cardinality(Remaining(in, acc.acts, r)) > 1
      <3>. HIDE DEF target
      <3>1. acc.n[r] = Cardinality(Remaining(in, acc.acts, r))
        BY <1>1, <2>1, CountSides DEF Exact, PD
      <3>2. target[r] \in Int /\ target[r] >= 1 /\ acc.n[r] \in Int
        <4>1. target[r] = (IF r = "prefill" THEN target.prefill ELSE target.decode)
          BY <1>1, CountSides
        <4>2. acc.n[r] = (IF r = "prefill" THEN acc.n.prefill ELSE acc.n.decode)
          BY <1>1, CountSides
        <4>. QED BY <2>4, <4>1, <4>2
      <3>. QED BY <2>6, <3>1, <3>2
    <2>7. /\ free \in Seq(Instance)
          /\ Range(free) = {j \in Workers(in) : ~Touched(acc.acts, j)}
      BY <2>3, UntouchedIs
    <2>8. PICK r \in PD : acc.n[r] > target[r]
      <3>. HIDE DEF target
      <3>1. "prefill" \in PD /\ "decode" \in PD
        BY DEF PD
      <3>. QED BY <1>1, <2>5, <3>1, CountSides
    <2>9. over # <<>>
      <3>1. Remaining(in, acc.acts, r) # {}
        <4>. HIDE DEF target
        <4>. QED BY <2>6, <2>8, RemainingFinite
      <3>2. PICK j \in Workers(in) : in.role[j] = r /\ ~Touched(acc.acts, j)
        BY <3>1 DEF Remaining
      <3>3. j \in Range(free) \cap S
        BY <2>7, <2>8, <3>2 DEF Workers
      <3>. HIDE DEF free, S
      <3>. QED BY <2>7, <3>3, OnlyEmpty
    <2>. DEFINE i == over[1]
    <2>10. i \in Range(free) \cap S
      <3>. HIDE DEF free, S
      <3>. QED BY <2>7, <2>9, OnlyEmpty
    <2>11. /\ i \in Workers(in) /\ ~Touched(acc.acts, i)
           /\ in.role[i] \in PD /\ acc.n[in.role[i]] > target[in.role[i]]
      <3>. HIDE DEF over, free, target
      <3>. QED BY <2>7, <2>10
    <2>12. free # <<>>
      <3>. HIDE DEF free, S
      <3>. QED BY <2>7, <2>10, FirstOf
    <2>. DEFINE a == Act("DRAIN", i, in.role[i])
                n == [acc.n EXCEPT ![in.role[i]] = @ - 1]
    <2>13. DrainOne(in, target, acc) = [acts |-> Append(acc.acts, a), n |-> n]
      <3>1. in.role[i] = IF in.role[i] = "prefill" THEN "prefill" ELSE "decode"
        BY <2>11 DEF PD
      <3>. QED BY <1>3, <2>9, <2>12, <3>1 DEF DrainOne
    <2>. HIDE DEF i, target
    <2>14. a \in Doable(in) /\ a.id = i
      <3>1. PDRoles # {}
        BY DEF PDRoles
      <3>. QED BY <2>11, <3>1, ActIs DEF Act
    <2>15. PICK q \in PD : q = in.role[i]
      BY <2>11
    <2>16. acc.n[q] - 1 \in Int /\ acc.n[q] = Cardinality(Remaining(in, acc.acts, q))
           /\ Cardinality(Remaining(in, acc.acts, q)) > 1
      <3>1. acc.n[q] \in Int
        BY <1>1, CountRead
      <3>. QED BY <2>6, <2>11, <2>15, <3>1
    <2>17. /\ q = "prefill" => n.prefill = acc.n.prefill - 1 /\ n.decode = acc.n.decode
           /\ q = "decode" => n.decode = acc.n.decode - 1 /\ n.prefill = acc.n.prefill
      <3>. DEFINE v == acc.n[q] - 1
      <3>1. n = [acc.n EXCEPT ![q] = v] /\ v \in Int
        BY <2>15, <2>16
      <3>. HIDE DEF n, v
      <3>2. /\ q = "prefill" => n.prefill = v /\ n.decode = acc.n.decode /\ acc.n[q] = acc.n.prefill
            /\ q = "decode" => n.decode = v /\ n.prefill = acc.n.prefill /\ acc.n[q] = acc.n.decode
        <4>. DEFINE m == acc.n
        <4>1. m \in Count /\ q \in PD /\ v \in Int /\ n = [m EXCEPT ![q] = v]
          BY <1>1, <3>1
        <4>. HIDE DEF m
        <4>2. /\ q = "prefill" => n.prefill = v /\ n.decode = m.decode /\ m[q] = m.prefill
              /\ q = "decode" => n.decode = v /\ n.prefill = m.prefill /\ m[q] = m.decode
          BY <4>1, CountWritten
        <4>. QED BY <4>2 DEF m
      <3>. QED BY <3>2 DEF v
    <2>. HIDE DEF a, n
    <2>18. Present(in, Append(acc.acts, a))
      BY <1>1, <2>1, <2>11, <2>14, <2>15, <2>16, PresentLess
    <2>19. /\ Cardinality(Remaining(in, Append(acc.acts, a), q)) = Cardinality(Remaining(in, acc.acts, q)) - 1
           /\ \A p \in PD : p # q => Remaining(in, Append(acc.acts, a), p) = Remaining(in, acc.acts, p)
      BY <1>1, <2>11, <2>14, <2>15, RemainingLess
    <2>. DEFINE next == [acts |-> Append(acc.acts, a), n |-> n]
    <2>20. next.acts = Append(acc.acts, a) /\ next.n = n
      OBVIOUS
    <2>. HIDE DEF next
    <2>21. Exact(in, next)
      <3>1. CASE q = "prefill"
        <4>1. Remaining(in, Append(acc.acts, a), "decode") = Remaining(in, acc.acts, "decode")
          BY <2>19, <3>1 DEF PD
        <4>. QED BY <2>1, <2>17, <2>19, <2>20, <3>1, <4>1 DEF Exact
      <3>2. CASE q = "decode"
        <4>1. Remaining(in, Append(acc.acts, a), "prefill") = Remaining(in, acc.acts, "prefill")
          BY <2>19, <3>2 DEF PD
        <4>. QED BY <2>1, <2>17, <2>19, <2>20, <3>2, <4>1 DEF Exact
      <3>. QED BY <3>1, <3>2 DEF PD
    <2>22. next.n.prefill + next.n.decode = ServingPD(in) - k
      <3>. DEFINE x == acc.n.prefill
                  y == acc.n.decode
                  s == ServingPD(in)
      <3>3. x \in Int /\ y \in Int /\ s \in Int /\ k \in Int /\ x + y = s - (k - 1)
        BY <2>1, <2>2, <2>4
      <3>1. CASE q = "prefill"
        <4>1. next.n.prefill = x - 1 /\ next.n.decode = y
          BY <2>17, <2>20, <3>1
        <4>. HIDE DEF x, y, s
        <4>. QED BY <3>3, <4>1 DEF s
      <3>2. CASE q = "decode"
        <4>1. next.n.prefill = x /\ next.n.decode = y - 1
          BY <2>17, <2>20, <3>2
        <4>. HIDE DEF x, y, s
        <4>. QED BY <3>3, <4>1 DEF s
      <3>. QED BY <3>1, <3>2 DEF PD
    <2>23. Draining(in, next, k)
      BY <2>18, <2>20, <2>21, <2>22 DEF Draining
    <2>. QED BY <2>13, <2>23 DEF next, target
  <1>. QED BY <1>2, <1>3

\* An assignment of an idle instance leaves the workers alone and does not take a
\* role above its target unless the other one has reached its own.
LEMMA AssignOneKeeps ==
    ASSUME NEW in \in Population, NEW target \in Count, NEW acc \in Acc(in), NEW i \in in.idle,
           NEW k \in Nat, k >= 1, Assigning(in, target, acc, k - 1)
    PROVE  Assigning(in, target, AssignOne(in, target, acc, i), k)
  <1>. DEFINE r == IF acc.n.prefill < target.prefill THEN "prefill" ELSE "decode"
              a == Act("ASSIGN", i, r)
              n == [acc.n EXCEPT ![r] = @ + 1]
  <1>1. acc.acts \in Seq(Doable(in)) /\ acc.n \in Count
    BY AccParts
  <1>2. /\ acc.n.prefill \in Int /\ acc.n.decode \in Int
        /\ target.prefill \in Int /\ target.decode \in Int
        /\ ServingPD(in) \in Nat /\ Total(in) \in Nat
    <2>1. "prefill" \in PD
      BY DEF PD
    <2>. QED BY <1>1, <2>1, CountSides, CardinalityParts
  <1>3. CASE Full(in, acc.acts) \/ acc.n.prefill + acc.n.decode >= Total(in)
    <2>1. AssignOne(in, target, acc, i) = acc
      BY <1>3 DEF AssignOne
    <2>. QED BY <1>3, <2>1 DEF Assigning
  <1>4. CASE ~ (Full(in, acc.acts) \/ acc.n.prefill + acc.n.decode >= Total(in))
    <2>1. /\ Present(in, acc.acts) /\ Balanced(in, target, acc)
          /\ acc.n.prefill + acc.n.decode = ServingPD(in) + (k - 1)
      BY <1>4 DEF Assigning
    <2>. DEFINE next == [acts |-> Append(acc.acts, a), n |-> n]
    <2>2. AssignOne(in, target, acc, i) = next
      BY <1>4 DEF AssignOne
    <2>3. next.acts = Append(acc.acts, a) /\ next.n = n
      OBVIOUS
    <2>4. r \in PD /\ r \in PDRoles
      BY DEF PD, PDRoles
    <2>5. a \in Doable(in) /\ a.id = i /\ i \notin Workers(in)
      <3>. HIDE DEF r
      <3>. QED BY <2>4, AssignIs, PopulationParts DEF Act
    <2>6. /\ r = "prefill" => n.prefill = acc.n.prefill + 1 /\ n.decode = acc.n.decode
          /\ r = "decode" => n.decode = acc.n.decode + 1 /\ n.prefill = acc.n.prefill
      <3>. DEFINE v == acc.n[r] + 1
      <3>1. n = [acc.n EXCEPT ![r] = v]
        OBVIOUS
      <3>. HIDE DEF r
      <3>2. acc.n[r] \in Int
        BY <1>1, <2>4, CountRead
      <3>3. v \in Int
        BY <3>2
      <3>. HIDE DEF n, v
      <3>4. /\ r = "prefill" => n.prefill = v /\ n.decode = acc.n.decode /\ acc.n[r] = acc.n.prefill
            /\ r = "decode" => n.decode = v /\ n.prefill = acc.n.prefill /\ acc.n[r] = acc.n.decode
        BY <1>1, <2>4, <3>1, <3>3, CountWritten
      <3>. QED BY <3>4 DEF v
    <2>7. r = "prefill" => acc.n.prefill < target.prefill
      OBVIOUS
    <2>8. r = "decode" => acc.n.prefill >= target.prefill
      BY <1>2
    <2>. HIDE DEF a, n, r, next
    <2>9. Present(in, next.acts)
      BY <1>1, <2>1, <2>3, <2>5, PresentSame
    <2>10. \A p : Remaining(in, next.acts, p) = Remaining(in, acc.acts, p)
      BY <1>1, <2>3, <2>5, RemainingSame
    <2>11. next.n.prefill + next.n.decode = ServingPD(in) + k
      <3>. DEFINE x == acc.n.prefill
                  y == acc.n.decode
                  s == ServingPD(in)
      <3>3. x \in Int /\ y \in Int /\ s \in Int /\ k \in Int /\ x + y = s + (k - 1)
        BY <1>2, <2>1
      <3>1. CASE r = "prefill"
        <4>1. next.n.prefill = x + 1 /\ next.n.decode = y
          BY <2>3, <2>6, <3>1
        <4>. HIDE DEF x, y, s
        <4>. QED BY <3>3, <4>1 DEF s
      <3>2. CASE r = "decode"
        <4>1. next.n.prefill = x /\ next.n.decode = y + 1
          BY <2>3, <2>6, <3>2
        <4>. HIDE DEF x, y, s
        <4>. QED BY <3>3, <4>1 DEF s
      <3>. QED BY <2>4, <3>1, <3>2 DEF PD
    <2>12. Balanced(in, target, next)
      <3>1. CASE r = "prefill"
        <4>1. next.n.prefill <= target.prefill /\ next.n.decode = acc.n.decode
              /\ next.n.prefill >= acc.n.prefill
          BY <1>2, <2>3, <2>6, <2>7, <3>1
        <4>2. acc.n.prefill < target.prefill
          BY <2>7, <3>1
        <4>3. acc.n.decode = Cardinality(Remaining(in, acc.acts, "decode"))
          BY <1>2, <2>1, <4>2 DEF Balanced
        <4>. QED BY <2>10, <4>1, <4>3 DEF Balanced
      <3>2. CASE r = "decode"
        <4>1. next.n.prefill = acc.n.prefill /\ acc.n.prefill >= target.prefill
          BY <2>3, <2>6, <2>8, <3>2
        <4>. QED BY <2>1, <2>10, <4>1 DEF Balanced
      <3>. QED BY <2>4, <3>1, <3>2 DEF PD
    <2>13. Assigning(in, target, next, k)
      BY <2>9, <2>11, <2>12 DEF Assigning
    <2>. QED BY <2>2, <2>13
  <1>. QED BY <1>3, <1>4

\* A conversion takes a worker that was left alone from the other role, or the
\* deficit is written off.
LEMMA ConvertIs ==
    ASSUME NEW in \in Population, NEW target \in Count, NEW acc \in Acc(in), NEW to \in PD,
           NEW next, next = Convert(in, target, acc, to)
    PROVE  \/ /\ \E a \in Doable(in) :
                    /\ a.id \in Workers(in) /\ ~Touched(acc.acts, a.id)
                    /\ in.role[a.id] = Other(to)
                    /\ next.acts = Append(acc.acts, a)
              /\ acc.n[Other(to)] > 1
              /\ next.n[to] = acc.n[to] + 1
              /\ next.n[Other(to)] = acc.n[Other(to)] - 1
           \/ /\ next.acts = acc.acts
              /\ next.n[to] = target[to]
              /\ next.n[Other(to)] = acc.n[Other(to)]
  <1>. DEFINE from == Other(to)
              free == nextConversion(in, acc.acts, from)
  <1>1. /\ acc.n \in Count /\ from \in PD /\ to \in PDRoles /\ target[to] \in Int
        /\ acc.n[to] \in Int /\ acc.n[from] \in Int
    <2>1. acc.n \in Count
      BY AccParts
    <2>. QED BY <2>1, CountRead
  <1>2. CASE free # <<>> /\ acc.n[from] > 1
    <2>. DEFINE i == free[1]
                a == Act("REASSIGN", i, to)
                n1 == [acc.n EXCEPT ![to] = @ + 1]
                n2 == [n1 EXCEPT ![from] = @ - 1]
    <2>1. i \in Workers(in) /\ in.role[i] = from /\ ~Touched(acc.acts, i)
      <3>1. /\ free \in Seq(Instance)
            /\ Range(free) = {j \in Workers(in) \ in.held : in.role[j] = from /\ ~Touched(acc.acts, j)}
        BY NextConversionIs
      <3>2. free[1] \in Range(free)
        <4>. HIDE DEF free
        <4>. QED BY <1>2, <3>1, FirstOf
      <3>. HIDE DEF free, from
      <3>. QED BY <3>1, <3>2
    <2>2. next = [acts |-> Append(acc.acts, a), n |-> n2]
      <3>1. next = [acts |-> Append(acc.acts, a), n |-> [acc.n EXCEPT ![to] = @ + 1, ![from] = @ - 1]]
        BY <1>2 DEF Convert
      <3>2. [acc.n EXCEPT ![to] = @ + 1, ![from] = @ - 1] = n2
        <4>1. DOMAIN acc.n = {"prefill", "decode"}
          BY <1>1 DEF Count
        <4>. HIDE DEF from, free
        <4>. QED BY <1>1, <4>1 DEF PD
      <3>. HIDE DEF free, a, from, n2
      <3>. QED BY <3>1, <3>2
    <2>3. a \in Doable(in) /\ a.id = i
      <3>. HIDE DEF i
      <3>. QED BY <1>1, <2>1, ActIs DEF Act
    <2>4. /\ n1 \in Count /\ n1[to] = acc.n[to] + 1 /\ n1[from] = acc.n[from]
      <3>. DEFINE v == acc.n[to] + 1
      <3>1. v \in Int /\ n1 = [acc.n EXCEPT ![to] = v]
        BY <1>1
      <3>. HIDE DEF v, n1
      <3>2. n1 \in Count /\ n1[to] = v /\ n1[from] = acc.n[from]
        BY <1>1, <3>1, CountWritten
      <3>. QED BY <3>2 DEF v
    <2>5. n2[from] = acc.n[from] - 1 /\ n2[to] = acc.n[to] + 1
      <3>1. Other(from) = to /\ from \in PD
        BY DEF Other, PD
      <3>. DEFINE v == n1[from] - 1
      <3>2. n2 = [n1 EXCEPT ![from] = v]
        OBVIOUS
      <3>. HIDE DEF n1, from
      <3>3. v \in Int
        BY <1>1, <2>4
      <3>. HIDE DEF v, n2
      <3>4. n2[from] = v /\ n2[to] = n1[to]
        BY <2>4, <3>1, <3>2, <3>3, CountWritten
      <3>. QED BY <2>4, <3>4 DEF v
    <2>6. next.acts = Append(acc.acts, a) /\ next.n = n2
      BY <2>2
    <2>. HIDE DEF a, n2, i
    <2>. QED BY <1>2, <2>1, <2>3, <2>5, <2>6
  <1>3. CASE ~ (free # <<>> /\ acc.n[from] > 1)
    <2>1. next = [acc EXCEPT !.n[to] = target[to]]
      BY <1>3 DEF Convert
    <2>2. next.acts = acc.acts /\ next.n = [acc.n EXCEPT ![to] = target[to]]
      <3>1. acc = [acts |-> acc.acts, n |-> acc.n]
        BY DEF Acc
      <3>. QED BY <2>1, <3>1 DEF Acc
    <2>3. next.n[to] = target[to] /\ next.n[from] = acc.n[from]
      <3>. DEFINE v == target[to]
      <3>. HIDE DEF v
      <3>1. v \in Int /\ next.n = [acc.n EXCEPT ![to] = v]
        BY <1>1, <2>2 DEF v
      <3>2. next.n[to] = v /\ next.n[from] = acc.n[from]
        BY <1>1, <3>1, CountWritten
      <3>. QED BY <3>2 DEF v
    <2>. QED BY <2>2, <2>3
  <1>. QED BY <1>2, <1>3

\* A conversion keeps a worker of the role it takes from, and keeps the counts
\* balanced: a role that is counted above its target is counted exactly.
LEMMA ConvertOneKeeps ==
    ASSUME NEW in \in Population, NEW target \in Count, target.prefill + target.decode = Total(in),
           NEW acc \in Acc(in), Converting(in, target, acc)
    PROVE  Converting(in, target, ConvertOne(in, target, acc))
  <1>1. acc.acts \in Seq(Doable(in)) /\ acc.n \in Count /\ "prefill" \in PD /\ "decode" \in PD
        /\ Other("prefill") = "decode" /\ Other("decode") = "prefill"
    BY AccParts DEF PD, Other
  <1>2. /\ acc.n.prefill \in Int /\ acc.n.decode \in Int
        /\ target.prefill \in Int /\ target.decode \in Int /\ Total(in) \in Nat
        /\ acc.n["prefill"] = acc.n.prefill /\ acc.n["decode"] = acc.n.decode
        /\ target["prefill"] = target.prefill /\ target["decode"] = target.decode
    BY <1>1, CountSides, CardinalityParts
  <1>3. CASE Full(in, acc.acts)
    <2>1. ConvertOne(in, target, acc) = acc
      BY <1>3 DEF ConvertOne
    <2>. QED BY <2>1
  <1>4. CASE ~ Full(in, acc.acts)
    <2>1. /\ Present(in, acc.acts) /\ Balanced(in, target, acc)
          /\ acc.n.prefill + acc.n.decode >= Total(in)
      BY <1>4 DEF Converting
    <2>2. CASE acc.n.prefill < target.prefill
      <3>. DEFINE next == Convert(in, target, acc, "prefill")
      <3>1. ConvertOne(in, target, acc) = next
        BY <1>4, <2>2 DEF ConvertOne
      <3>2. acc.n.decode = Cardinality(Remaining(in, acc.acts, "decode"))
        BY <1>2, <2>1, <2>2 DEF Balanced
      <3>3. next.n \in Count /\ next.n["prefill"] = next.n.prefill /\ next.n["decode"] = next.n.decode
        <4>1. next \in Acc(in)
          BY <1>1, ConvertType
        <4>2. next.n \in Count
          <5>. HIDE DEF next
          <5>. QED BY <4>1, AccParts
        <4>. HIDE DEF next
        <4>. QED BY <1>1, <4>2, CountSides
      <3>4. \/ /\ \E a \in Doable(in) :
                     /\ a.id \in Workers(in) /\ ~Touched(acc.acts, a.id)
                     /\ in.role[a.id] = "decode"
                     /\ next.acts = Append(acc.acts, a)
               /\ acc.n.decode > 1
               /\ next.n.prefill = acc.n.prefill + 1
               /\ next.n.decode = acc.n.decode - 1
            \/ /\ next.acts = acc.acts
               /\ next.n.prefill = target.prefill
               /\ next.n.decode = acc.n.decode
        <4>1. next = Convert(in, target, acc, "prefill")
          OBVIOUS
        <4>. HIDE DEF next
        <4>2. \/ /\ \E a \in Doable(in) :
                        /\ a.id \in Workers(in) /\ ~Touched(acc.acts, a.id)
                        /\ in.role[a.id] = Other("prefill")
                        /\ next.acts = Append(acc.acts, a)
                  /\ acc.n[Other("prefill")] > 1
                  /\ next.n["prefill"] = acc.n["prefill"] + 1
                  /\ next.n[Other("prefill")] = acc.n[Other("prefill")] - 1
              \/ /\ next.acts = acc.acts
                 /\ next.n["prefill"] = target["prefill"]
                 /\ next.n[Other("prefill")] = acc.n[Other("prefill")]
          BY <1>1, <4>1, ConvertIs
        <4>. QED BY <1>1, <1>2, <3>3, <4>2
      <3>. HIDE DEF next
      <3>5. CASE /\ next.acts = acc.acts /\ next.n.prefill = target.prefill
                 /\ next.n.decode = acc.n.decode
        <4>1. target.prefill <= target.prefill /\ target.prefill >= target.prefill
          BY <1>2
        <4>2. Balanced(in, target, next)
          BY <3>5, <4>1 DEF Balanced
        <4>3. next.n.prefill + next.n.decode >= Total(in)
          <5>1. target.prefill + acc.n.decode >= Total(in)
            BY <1>2, <2>1, <2>2
          <5>. QED BY <3>5, <5>1
        <4>. QED BY <2>1, <3>1, <3>5, <4>2, <4>3 DEF Converting
      <3>6. CASE /\ \E a \in Doable(in) :
                       /\ a.id \in Workers(in) /\ ~Touched(acc.acts, a.id)
                       /\ in.role[a.id] = "decode" /\ next.acts = Append(acc.acts, a)
                 /\ acc.n.decode > 1
                 /\ next.n.prefill = acc.n.prefill + 1 /\ next.n.decode = acc.n.decode - 1
        <4>1. PICK a \in Doable(in) : /\ a.id \in Workers(in) /\ ~Touched(acc.acts, a.id)
                                      /\ in.role[a.id] = "decode" /\ next.acts = Append(acc.acts, a)
          BY <3>6
        <4>2. Present(in, next.acts)
          BY <1>1, <2>1, <3>2, <3>6, <4>1, PresentLess
        <4>3. Cardinality(Remaining(in, next.acts, "decode"))
                = Cardinality(Remaining(in, acc.acts, "decode")) - 1
          BY <1>1, <4>1, RemainingLess
        <4>4. next.n.decode = Cardinality(Remaining(in, next.acts, "decode"))
          BY <3>2, <3>6, <4>3
        <4>5. next.n.prefill <= target.prefill
          BY <1>2, <2>2, <3>6
        <4>6. next.n.prefill + next.n.decode >= Total(in)
          <5>1. (acc.n.prefill + 1) + (acc.n.decode - 1) >= Total(in)
            BY <1>2, <2>1
          <5>. QED BY <3>6, <5>1
        <4>7. Balanced(in, target, next)
          BY <4>4, <4>5 DEF Balanced
        <4>. QED BY <3>1, <4>2, <4>6, <4>7 DEF Converting
      <3>. QED BY <3>4, <3>5, <3>6
    <2>3. CASE ~ (acc.n.prefill < target.prefill) /\ acc.n.decode < target.decode
      <3>. DEFINE next == Convert(in, target, acc, "decode")
      <3>1. ConvertOne(in, target, acc) = next
        BY <1>4, <2>3 DEF ConvertOne
      <3>2. acc.n.prefill > target.prefill
        BY <1>2, <2>1, <2>3
      <3>7. acc.n.prefill = Cardinality(Remaining(in, acc.acts, "prefill"))
        BY <1>2, <2>1, <3>2 DEF Balanced
      <3>3. next.n \in Count /\ next.n["prefill"] = next.n.prefill /\ next.n["decode"] = next.n.decode
        <4>1. next \in Acc(in)
          BY <1>1, ConvertType
        <4>2. next.n \in Count
          <5>. HIDE DEF next
          <5>. QED BY <4>1, AccParts
        <4>. HIDE DEF next
        <4>. QED BY <1>1, <4>2, CountSides
      <3>4. \/ /\ \E a \in Doable(in) :
                     /\ a.id \in Workers(in) /\ ~Touched(acc.acts, a.id)
                     /\ in.role[a.id] = "prefill"
                     /\ next.acts = Append(acc.acts, a)
               /\ acc.n.prefill > 1
               /\ next.n.decode = acc.n.decode + 1
               /\ next.n.prefill = acc.n.prefill - 1
            \/ /\ next.acts = acc.acts
               /\ next.n.decode = target.decode
               /\ next.n.prefill = acc.n.prefill
        <4>1. next = Convert(in, target, acc, "decode")
          OBVIOUS
        <4>. HIDE DEF next
        <4>2. \/ /\ \E a \in Doable(in) :
                        /\ a.id \in Workers(in) /\ ~Touched(acc.acts, a.id)
                        /\ in.role[a.id] = Other("decode")
                        /\ next.acts = Append(acc.acts, a)
                  /\ acc.n[Other("decode")] > 1
                  /\ next.n["decode"] = acc.n["decode"] + 1
                  /\ next.n[Other("decode")] = acc.n[Other("decode")] - 1
              \/ /\ next.acts = acc.acts
                 /\ next.n["decode"] = target["decode"]
                 /\ next.n[Other("decode")] = acc.n[Other("decode")]
          BY <1>1, <4>1, ConvertIs
        <4>. QED BY <1>1, <1>2, <3>3, <4>2
      <3>. HIDE DEF next
      <3>5. CASE /\ next.acts = acc.acts /\ next.n.decode = target.decode
                 /\ next.n.prefill = acc.n.prefill
        <4>1. acc.n.prefill >= target.prefill
          BY <1>2, <3>2
        <4>2. Balanced(in, target, next)
          BY <3>5, <3>7, <4>1 DEF Balanced
        <4>3. next.n.prefill + next.n.decode >= Total(in)
          <5>1. acc.n.prefill + target.decode >= Total(in)
            BY <1>2, <2>1, <2>3
          <5>. QED BY <3>5, <5>1
        <4>. QED BY <2>1, <3>1, <3>5, <4>2, <4>3 DEF Converting
      <3>6. CASE /\ \E a \in Doable(in) :
                       /\ a.id \in Workers(in) /\ ~Touched(acc.acts, a.id)
                       /\ in.role[a.id] = "prefill" /\ next.acts = Append(acc.acts, a)
                 /\ acc.n.prefill > 1
                 /\ next.n.decode = acc.n.decode + 1 /\ next.n.prefill = acc.n.prefill - 1
        <4>1. PICK a \in Doable(in) : /\ a.id \in Workers(in) /\ ~Touched(acc.acts, a.id)
                                      /\ in.role[a.id] = "prefill" /\ next.acts = Append(acc.acts, a)
          BY <3>6
        <4>2. Present(in, next.acts)
          BY <1>1, <2>1, <3>7, <3>6, <4>1, PresentLess
        <4>3. Cardinality(Remaining(in, next.acts, "prefill"))
                = Cardinality(Remaining(in, acc.acts, "prefill")) - 1
          BY <1>1, <4>1, RemainingLess
        <4>4. next.n.prefill = Cardinality(Remaining(in, next.acts, "prefill"))
          BY <3>7, <3>6, <4>3
        <4>5. next.n.prefill >= target.prefill
          BY <1>2, <3>2, <3>6
        <4>6. next.n.prefill + next.n.decode >= Total(in)
          <5>1. (acc.n.prefill - 1) + (acc.n.decode + 1) >= Total(in)
            BY <1>2, <2>1
          <5>. QED BY <3>6, <5>1
        <4>7. Balanced(in, target, next)
          BY <4>4, <4>5 DEF Balanced
        <4>. QED BY <3>1, <4>2, <4>6, <4>7 DEF Converting
      <3>. QED BY <3>4, <3>5, <3>6
    <2>4. CASE ~ (acc.n.prefill < target.prefill) /\ ~ (acc.n.decode < target.decode)
      <3>1. ConvertOne(in, target, acc) = acc
        BY <1>4, <2>4 DEF ConvertOne
      <3>. QED BY <3>1
    <2>. QED BY <2>2, <2>3, <2>4
  <1>. QED BY <1>3, <1>4

-----------------------------------------------------------------------------
(***************************************************************************)
(* The phases, and the round.                                              *)
(***************************************************************************)

\* The three phases of a round one after the other.
LEMMA DrainedKeeps ==
    ASSUME NEW in \in Population, Unmixed(in), NEW g \in Gear, NEW start \in Acc(in),
           Draining(in, start, 0)
    PROVE  Draining(in, Drained(in, Target(in, g), start), Surplus(in))
  <1>. DEFINE target == Target(in, g)
              n == Surplus(in)
  <1>1. PICK h : /\ h[0] = start
                 /\ \A k \in 0 .. n : h[k] \in Acc(in)
                 /\ \A k \in 1 .. n : h[k] = DrainOne(in, target, h[k - 1])
                 /\ Drained(in, target, start) = h[n]
    BY DrainedSteps
  <1>. DEFINE Good == {k \in 0 .. n : Draining(in, h[k], k)}
  <1>2. n \in Nat
    BY CardinalityParts DEF Surplus
  <1>3. 0 \in Good
    BY <1>1, <1>2
  <1>4. ASSUME NEW k \in 1 .. n, k - 1 \in Good
        PROVE  k \in Good
    <2>. DEFINE acc == h[k - 1]
    <2>1. k - 1 \in 0 .. n /\ k \in 0 .. n
      BY <1>2
    <2>2. acc \in Acc(in) /\ Draining(in, acc, k - 1)
      BY <1>1, <1>4, <2>1
    <2>3. h[k] = DrainOne(in, Target(in, g), acc)
      BY <1>1
    <2>. HIDE DEF acc
    <2>4. Draining(in, DrainOne(in, Target(in, g), acc), k)
      BY <2>2, DrainOneKeeps
    <2>. QED BY <2>1, <2>3, <2>4
  <1>5. n \in Good
    <2>1. n \in 0 .. n
      BY <1>2
    <2>. HIDE DEF Good, n
    <2>2. 0 .. n \subseteq Good
      BY <1>2, <1>3, <1>4, UpTo
    <2>. QED BY <2>1, <2>2
  <1>. QED BY <1>1, <1>5

\* The idle instances are assigned in their order.
LEMMA AssignedKeeps ==
    ASSUME NEW in \in Population, NEW target \in Count, NEW start \in Acc(in),
           Assigning(in, target, start, 0)
    PROVE  Assigning(in, target, Assigned(in, target, start), Cardinality(in.idle))
  <1>. DEFINE n == Cardinality(in.idle)
              s == Sorted(in.idle)
  <1>1. PICK h : /\ h[0] = start
                 /\ \A k \in 0 .. n : h[k] \in Acc(in)
                 /\ \A k \in 1 .. n : h[k] = AssignOne(in, target, h[k - 1], s[k])
                 /\ Assigned(in, target, start) = h[n]
    BY AssignedSteps
  <1>. DEFINE Good == {k \in 0 .. n : Assigning(in, target, h[k], k)}
  <1>2. n \in Nat /\ \A k \in 1 .. n : s[k] \in in.idle
    BY CardinalityParts, SortedIdle
  <1>3. 0 \in Good
    BY <1>1, <1>2
  <1>4. ASSUME NEW k \in 1 .. n, k - 1 \in Good
        PROVE  k \in Good
    <2>. DEFINE acc == h[k - 1]
                i == s[k]
    <2>1. k - 1 \in 0 .. n /\ k \in 0 .. n /\ k \in Nat /\ k >= 1
      BY <1>2
    <2>2. acc \in Acc(in) /\ Assigning(in, target, acc, k - 1) /\ i \in in.idle
      BY <1>1, <1>2, <1>4, <2>1
    <2>3. h[k] = AssignOne(in, target, acc, i)
      BY <1>1
    <2>. HIDE DEF acc, i
    <2>4. Assigning(in, target, AssignOne(in, target, acc, i), k)
      BY <2>1, <2>2, AssignOneKeeps
    <2>. QED BY <2>1, <2>3, <2>4
  <1>5. n \in Good
    <2>1. n \in 0 .. n
      BY <1>2
    <2>. HIDE DEF Good, n, s
    <2>2. 0 .. n \subseteq Good
      BY <1>2, <1>3, <1>4, UpTo
    <2>. QED BY <2>1, <2>2
  <1>. QED BY <1>1, <1>5

\* The conversions keep every role, as often as they are tried.
LEMMA ConvertedKeeps ==
    ASSUME NEW in \in Population, NEW target \in Count, target.prefill + target.decode = Total(in),
           NEW start \in Acc(in), Converting(in, target, start)
    PROVE  Converting(in, target, Converted(in, target, start))
  <1>. DEFINE n == Conversions(in)
  <1>1. PICK h : /\ h[0] = start
                 /\ \A k \in 0 .. n : h[k] \in Acc(in)
                 /\ \A k \in 1 .. n : h[k] = ConvertOne(in, target, h[k - 1])
                 /\ Converted(in, target, start) = h[n]
    BY ConvertedSteps
  <1>. DEFINE Good == {k \in 0 .. n : Converting(in, target, h[k])}
  <1>2. n \in Nat
    BY PopulationParts DEF Conversions
  <1>3. 0 \in Good
    BY <1>1, <1>2
  <1>4. ASSUME NEW k \in 1 .. n, k - 1 \in Good
        PROVE  k \in Good
    <2>. DEFINE acc == h[k - 1]
    <2>1. k - 1 \in 0 .. n /\ k \in 0 .. n
      BY <1>2
    <2>2. acc \in Acc(in) /\ Converting(in, target, acc)
      BY <1>1, <1>4, <2>1
    <2>3. h[k] = ConvertOne(in, target, acc)
      BY <1>1
    <2>. HIDE DEF acc
    <2>4. Converting(in, target, ConvertOne(in, target, acc))
      BY <2>2, ConvertOneKeeps
    <2>. QED BY <2>1, <2>3, <2>4
  <1>5. n \in Good
    <2>1. n \in 0 .. n
      BY <1>2
    <2>. HIDE DEF Good, n
    <2>2. 0 .. n \subseteq Good
      BY <1>2, <1>3, <1>4, UpTo
    <2>. QED BY <2>1, <2>2
  <1>. QED BY <1>1, <1>5

\* What a round of a disaggregated pool plans leaves every role a worker.
LEMMA PlanKeeps ==
    ASSUME NEW in \in Population, Unmixed(in), in.mode # "aggregated"
    PROVE  Present(in, Plan(in).acts)
  <1>. DEFINE g0 == IF in.mode = "auto" THEN autoStep(in.gear, in.load) ELSE in.gear
              moved0 == g0 # in.gear
  <1>1. g0 \in Gear
    BY PopulationParts DEF autoStep
  <1>2. Plan(in).acts = PlanPD(in, g0, moved0)
    BY DEF Plan
  <1>3. PICK g \in Gear, moved \in BOOLEAN : g = g0 /\ moved = moved0
    BY <1>1
  <1>4. Plan(in).acts = PlanPD(in, g, moved)
    BY <1>2, <1>3
  <1>. HIDE DEF g0, moved0
  <1>. DEFINE target0 == Target(in, g)
              b0 == Begun(in, g, moved)
  <1>5. b0 \in Acc(in) /\ Draining(in, b0, 0) /\ target0 \in Count
        /\ target0.prefill + target0.decode = Total(in)
    BY BegunType, BegunKeeps, TargetIs
  <1>6. PICK target \in Count, b \in Acc(in) : target = target0 /\ b = b0
    BY <1>5
  <1>. DEFINE d0 == Drained(in, target, b)
  <1>7. d0 \in Acc(in) /\ Draining(in, d0, Surplus(in))
    <2>1. d0 \in Acc(in)
      BY PhaseTypes
    <2>2. Draining(in, Drained(in, Target(in, g), b), Surplus(in))
      BY <1>5, <1>6, DrainedKeeps
    <2>. QED BY <1>6, <2>1, <2>2
  <1>8. PICK d \in Acc(in) : d = d0
    BY <1>7
  <1>9. Draining(in, d, Surplus(in)) /\ target.prefill + target.decode = Total(in)
    BY <1>5, <1>6, <1>7, <1>8
  <1>10. /\ ServingPD(in) \in Nat /\ Total(in) \in Nat /\ Cardinality(in.idle) \in Nat
         /\ Total(in) <= ServingPD(in) + Cardinality(in.idle)
    BY CardinalityParts
  <1>11. Assigning(in, target, d, 0)
    <2>1. CASE Full(in, d.acts)
      BY <1>9, <2>1 DEF Draining, Assigning
    <2>2. CASE ~ Full(in, d.acts)
      <3>1. Present(in, d.acts) /\ Exact(in, d)
            /\ d.n.prefill + d.n.decode = ServingPD(in) - Surplus(in)
        BY <1>9, <2>2 DEF Draining
      <3>2. Balanced(in, target, d)
        BY <3>1 DEF Exact, Balanced
      <3>3. d.n.prefill + d.n.decode >= Total(in) \/ d.n.prefill + d.n.decode = ServingPD(in) + 0
        <4>1. \/ Surplus(in) = ServingPD(in) - Total(in)
              \/ Surplus(in) = 0
          BY DEF Surplus
        <4>2. CASE Surplus(in) = 0
          BY <1>10, <3>1, <4>2
        <4>3. CASE Surplus(in) = ServingPD(in) - Total(in)
          <5>1. ServingPD(in) - (ServingPD(in) - Total(in)) >= Total(in)
            BY <1>10
          <5>. QED BY <3>1, <4>3, <5>1
        <4>. QED BY <4>1, <4>2, <4>3
      <3>. QED BY <3>1, <3>2, <3>3 DEF Assigning
    <2>. QED BY <2>1, <2>2
  <1>. DEFINE a0 == Assigned(in, target, d)
  <1>12. a0 \in Acc(in) /\ Assigning(in, target, a0, Cardinality(in.idle))
    BY <1>11, PhaseTypes, AssignedKeeps
  <1>13. PICK a \in Acc(in) : a = a0
    BY <1>12
  <1>14. Converting(in, target, a)
    <2>1. Assigning(in, target, a, Cardinality(in.idle))
      BY <1>12, <1>13
    <2>2. a.n.prefill + a.n.decode = ServingPD(in) + Cardinality(in.idle)
             => a.n.prefill + a.n.decode >= Total(in)
      BY <1>10
    <2>. QED BY <2>1, <2>2 DEF Assigning, Converting
  <1>15. Converting(in, target, Converted(in, target, a))
    BY <1>9, <1>14, ConvertedKeeps
  <1>16. Plan(in).acts = Converted(in, target, a).acts
    <2>1. PlanPD(in, g, moved) =
            Converted(in, Target(in, g),
                      Assigned(in, Target(in, g), Drained(in, Target(in, g), Begun(in, g, moved)))).acts
      BY PlanPDIs
    <2>. QED BY <1>4, <1>6, <1>8, <1>13, <2>1
  <1>. QED BY <1>15, <1>16 DEF Converting

(***************************************************************************)
(* The inductive invariant, one part per group of variables.               *)
(***************************************************************************)
Employed == {"starting", "serving", "draining", "failed", "stranded"}

\* A worker has a role exactly while its service is at work, fails or drains; the
\* workers are the instances in the order of assignment.
Workforce == {i \in Instance : inst[i].role \in PDRoles}

SettingsOK ==
    /\ setup \in Setups /\ mode \in Mode /\ cfgGear \in Gear /\ autoGear \in Gear
    /\ cooling \in BOOLEAN /\ load \in Load /\ outstanding \in Nat

RowsOK ==
    /\ inst \in [Instance -> Row]
    /\ \A i \in Instance : inst[i].role \in PDRoles <=> inst[i].st \in Employed
    /\ order \in Seq(Instance) /\ Range(order) = Workforce
    /\ held \subseteq Workforce
    /\ ~setup.conf.minHold => held = {}

\* What a round hands to CarryOut, and what it collects for Dispatch.
Carriable ==
    {a \in Action : /\ a.kind = "ASSIGN" => a.id \in Instance /\ a.role \in PDRoles
                    /\ a.kind \in {"DRAIN", "REASSIGN", "RELEASE"} => a.id \in Instance}

RoundOK == todo \in Seq(Carriable) /\ hoisted \in Seq({a \in Carriable : a.kind = "ASSIGN"})

InGate == {i \in Instance : job[i].pc \in {"slot", "loading"}}

\* A goroutine waits for a slot once.
GateOK ==
    /\ job \in [Instance -> Job]
    /\ senders \in Seq(Instance)
    /\ \A k, l \in 1 .. Len(senders) : senders[k] = senders[l] => k = l
    /\ Range(senders) = {i \in Instance : job[i].pc = "waiting"}
    /\ slots \in Int /\ slots + Cardinality(InGate) = setup.slots

RebalanceInv == SettingsOK /\ RowsOK /\ RoundOK /\ GateOK

\* The invariant is at least as strong as the type invariant.
LEMMA TypeFollows == RebalanceInv => TypeOK
  <1>. SUFFICES ASSUME RebalanceInv
                PROVE  TypeOK
    OBVIOUS
  <1>1. Range(order) \subseteq Instance /\ held \subseteq Range(order)
    BY DEF RebalanceInv, RowsOK, Workforce
  <1>2. Range(todo) \subseteq Action
    <2>1. todo \in Seq(Carriable)
      BY DEF RebalanceInv, RoundOK
    <2>2. Range(todo) = {todo[k] : k \in 1 .. Len(todo)}
      BY <2>1, RangeEquality
    <2>3. \A k \in 1 .. Len(todo) : todo[k] \in Carriable
      BY <2>1
    <2>. QED BY <2>2, <2>3 DEF Carriable
  <1>3. Range(hoisted) \subseteq Action
    <2>. DEFINE H == {a \in Carriable : a.kind = "ASSIGN"}
    <2>1. hoisted \in Seq(H)
      BY DEF RebalanceInv, RoundOK
    <2>2. H \subseteq Action
      BY DEF Carriable
    <2>. HIDE DEF H
    <2>3. Range(hoisted) = {hoisted[k] : k \in 1 .. Len(hoisted)}
      BY <2>1, RangeEquality
    <2>4. \A k \in 1 .. Len(hoisted) : hoisted[k] \in H
      BY <2>1
    <2>. QED BY <2>2, <2>3, <2>4
  <1>. QED BY <1>1, <1>2, <1>3 DEF RebalanceInv, SettingsOK, RowsOK, GateOK, InGate, TypeOK

\* What a round reads is a population.
LEMMA InputIs ==
    ASSUME SettingsOK, RowsOK
    PROVE  Input \in Population /\ Workers(Input) = Serving
           /\ \A i \in Serving : Input.role[i] = inst[i].role
  <1>1. setup.conf \in Conf
    BY RebalanceAssumption DEF SettingsOK
  <1>2. gear \in Gear
    BY DEF SettingsOK, gear
  <1>3. Serving \subseteq Workforce /\ Serving \subseteq Instance /\ Idle \subseteq Instance
        /\ Recovering \subseteq Instance /\ Idle \cap Serving = {}
    BY DEF RowsOK, Serving, Idle, Recovering, Bucket, Workforce, Employed
  <1>4. [i \in Serving |-> inst[i].role] \in [Serving -> PDRoles]
    BY <1>3 DEF Workforce
  <1>5. Only(order, Serving) \in Seq(Instance) /\ Range(Only(order, Serving)) = Serving
    <2>1. order \in Seq(Instance) /\ Range(order) = Workforce
      BY DEF RowsOK
    <2>2. Only(order, Serving) \in Seq(Instance)
          /\ Range(Only(order, Serving)) = Range(order) \cap Serving
      BY <2>1, OnlyIs
    <2>. QED BY <1>3, <2>1, <2>2
  <1>6. held \subseteq Instance
    BY DEF RowsOK, Workforce
  <1>. DEFINE role == [i \in Serving |-> inst[i].role]
              ord == Only(order, Serving)
  <1>7. Input = [conf |-> setup.conf, mode |-> mode, gear |-> gear, load |-> load,
                 role |-> role, order |-> ord, held |-> held, idle |-> Idle,
                 recovering |-> Recovering, provisioning |-> outstanding]
    BY DEF Input
  <1>8. role \in UNION {[W -> PDRoles] : W \in SUBSET Instance} /\ DOMAIN role = Serving
        /\ \A i \in Serving : role[i] = inst[i].role
    BY <1>3, <1>4
  <1>9. mode \in Mode /\ load \in Load /\ outstanding \in Nat
    BY DEF SettingsOK
  <1>10. /\ Input.role = role /\ Input.order = ord /\ Input.idle = Idle
    BY <1>7
  <1>. HIDE DEF role, ord
  <1>11. Input \in [conf : Conf, mode : Mode, gear : Gear, load : Load,
                    role : UNION {[W -> PDRoles] : W \in SUBSET Instance},
                    order : Seq(Instance), held : SUBSET Instance, idle : SUBSET Instance,
                    recovering : SUBSET Instance, provisioning : Nat]
    <2>. DEFINE R == UNION {[W -> PDRoles] : W \in SUBSET Instance}
                S == SUBSET Instance
                Q == Seq(Instance)
    <2>1. role \in R /\ ord \in Q
      BY <1>5, <1>8 DEF ord
    <2>2. held \in S /\ Idle \in S /\ Recovering \in S
      BY <1>3, <1>6
    <2>. HIDE DEF R, S, Q
    <2>3. Input \in [conf : Conf, mode : Mode, gear : Gear, load : Load, role : R,
                     order : Q, held : S, idle : S, recovering : S, provisioning : Nat]
      BY <1>1, <1>2, <1>7, <1>9, <2>1, <2>2
    <2>. QED BY <2>3 DEF R, S, Q
  <1>12. Workers(Input) = Serving /\ Range(Input.order) = Serving
    BY <1>5, <1>8, <1>10 DEF Workers, ord
  <1>. QED BY <1>3, <1>8, <1>10, <1>11, <1>12 DEF Population

\* What a round plans can be carried out.
LEMMA PlannedCarriable ==
    ASSUME NEW in \in Population
    PROVE  Plan(in).acts \in Seq(Carriable) /\ Plan(in).gear \in Gear
  <1>1. Doable(in) \subseteq Carriable
    BY PopulationParts DEF Doable, Carriable
  <1>. QED BY <1>1, PlanIs

-----------------------------------------------------------------------------
(***************************************************************************)
(* What the actions write.                                                 *)
(***************************************************************************)

\* What an element appended adds to a sequence.
LEMMA RangeAppend ==
    ASSUME NEW X, NEW s \in Seq(X), NEW x \in X
    PROVE  Range(Append(s, x)) = Range(s) \cup {x}
  <1>1. /\ Append(s, x) \in Seq(X) /\ Len(s) \in Nat /\ Len(Append(s, x)) = Len(s) + 1
        /\ \A k \in 1 .. Len(s) : Append(s, x)[k] = s[k]
        /\ Append(s, x)[Len(s) + 1] = x
    BY AppendProperties
  <1>2. /\ Range(Append(s, x)) = {Append(s, x)[k] : k \in 1 .. Len(s) + 1}
        /\ Range(s) = {s[k] : k \in 1 .. Len(s)}
    BY <1>1, RangeEquality
  <1>3. \A k \in 1 .. Len(s) + 1 : k = Len(s) + 1 \/ k \in 1 .. Len(s)
    BY <1>1
  <1>4. 1 .. Len(s) \subseteq 1 .. Len(s) + 1 /\ Len(s) + 1 \in 1 .. Len(s) + 1
    BY <1>1
  <1>. QED BY <1>1, <1>2, <1>3, <1>4

\* A row whose state changes without its service being taken up or laid down.
LEMMA StateWritten ==
    ASSUME RowsOK, NEW i \in Instance, NEW st \in State, st \in Employed <=> inst[i].st \in Employed,
           inst' = [inst EXCEPT ![i].st = st], UNCHANGED <<setup, order, held>>
    PROVE  RowsOK'
  <1>1. inst \in [Instance -> Row]
    BY DEF RowsOK
  <1>2. inst'[i] = [inst[i] EXCEPT !.st = st] /\ \A j \in Instance : j # i => inst'[j] = inst[j]
    BY <1>1
  <1>3. inst[i] \in Row
    BY <1>1
  <1>4. inst'[i] \in Row /\ inst'[i].st = st /\ inst'[i].role = inst[i].role
    BY <1>2, <1>3 DEF Row
  <1>5. inst' \in [Instance -> Row]
    BY <1>1, <1>4
  <1>6. \A j \in Instance : /\ inst'[j].role = inst[j].role
                            /\ inst'[j].st \in Employed <=> inst[j].st \in Employed
    BY <1>2, <1>4
  <1>7. Workforce' = Workforce
    BY <1>6 DEF Workforce
  <1>. QED BY <1>5, <1>6, <1>7 DEF RowsOK

\* A row that is marked for release.
LEMMA ReclaimWritten ==
    ASSUME RowsOK, NEW i \in Instance, NEW b \in BOOLEAN,
           inst' = [inst EXCEPT ![i].reclaim = b], UNCHANGED <<setup, order, held>>
    PROVE  RowsOK'
  <1>1. inst \in [Instance -> Row]
    BY DEF RowsOK
  <1>2. inst'[i] = [inst[i] EXCEPT !.reclaim = b] /\ \A j \in Instance : j # i => inst'[j] = inst[j]
    BY <1>1
  <1>3. inst[i] \in Row
    BY <1>1
  <1>4. inst'[i] \in Row /\ inst'[i].st = inst[i].st /\ inst'[i].role = inst[i].role
    BY <1>2, <1>3 DEF Row
  <1>5. inst' \in [Instance -> Row]
    BY <1>1, <1>4
  <1>6. \A j \in Instance : inst'[j].role = inst[j].role /\ inst'[j].st = inst[j].st
    BY <1>2, <1>4
  <1>7. Workforce' = Workforce
    BY <1>6 DEF Workforce
  <1>. QED BY <1>5, <1>6, <1>7 DEF RowsOK

\* A start writes the role; an instance that gets a new one goes to the end of the
\* order of assignment.
LEMMA StartWritten ==
    ASSUME RowsOK, NEW i \in Instance, NEW r \in PDRoles, StartService(i, r), setup' = setup
    PROVE  RowsOK'
  <1>1. inst \in [Instance -> Row]
    BY DEF RowsOK
  <1>2. inst' = [inst EXCEPT ![i].st = "starting", ![i].role = r]
    BY DEF StartService
  <1>3. inst'[i] = [inst[i] EXCEPT !.st = "starting", !.role = r]
        /\ \A j \in Instance : j # i => inst'[j] = inst[j]
    BY <1>1, <1>2
  <1>4. inst[i] \in Row
    BY <1>1
  <1>5. inst'[i] \in Row /\ inst'[i].st = "starting" /\ inst'[i].role = r
    BY <1>3, <1>4 DEF Row, State
  <1>6. inst' \in [Instance -> Row]
    BY <1>1, <1>2, <1>5
  <1>7. \A j \in Instance : inst'[j].role \in PDRoles <=> inst'[j].st \in Employed
    BY <1>3, <1>5 DEF RowsOK, Employed
  <1>8. Workforce' = Workforce \cup {i}
    BY <1>3, <1>5 DEF Workforce
  <1>9. CASE inst[i].role = r
    <2>1. UNCHANGED <<order, held>> /\ i \in Workforce
      BY <1>9 DEF StartService, Workforce
    <2>. QED BY <1>6, <1>7, <1>8, <2>1 DEF RowsOK
  <1>10. CASE inst[i].role # r
    <2>. DEFINE S == Instance \ {i}
                rest == Only(order, S)
    <2>1. order' = Append(rest, i) /\ held' = IF setup.conf.minHold THEN held \cup {i} ELSE held
      BY <1>10 DEF StartService
    <2>2. rest \in Seq(Instance) /\ Range(rest) = Workforce \ {i}
      <3>1. order \in Seq(Instance) /\ Range(order) = Workforce /\ Workforce \subseteq Instance
        BY DEF RowsOK, Workforce
      <3>2. rest \in Seq(Instance) /\ Range(rest) = Range(order) \cap S
        <4>. HIDE DEF S
        <4>. QED BY <3>1, OnlyIs
      <3>. QED BY <3>1, <3>2
    <2>. HIDE DEF rest
    <2>3. order' \in Seq(Instance) /\ Range(order') = Range(rest) \cup {i}
      BY <2>1, <2>2, RangeAppend
    <2>4. Range(order') = Workforce'
      BY <1>8, <2>2, <2>3
    <2>5. held' \subseteq Workforce' /\ (~setup'.conf.minHold => held' = {})
      BY <1>8, <2>1 DEF RowsOK
    <2>. QED BY <1>6, <1>7, <2>3, <2>4, <2>5 DEF RowsOK
  <1>. QED BY <1>9, <1>10

\* The end of a drain clears the role.
LEMMA DrainEndsRows ==
    ASSUME RowsOK, NEW i \in Instance, DrainEnds(i)
    PROVE  RowsOK'
  <1>1. inst \in [Instance -> Row] /\ setup' = setup
    BY DEF RowsOK, DrainEnds, Others
  <1>. DEFINE st == IF inst[i].reclaim THEN "released" ELSE "idle"
              S == Instance \ {i}
              rest == Only(order, S)
  <1>2. inst' = [inst EXCEPT ![i].st = st, ![i].role = "none"]
    BY DEF DrainEnds
  <1>3. inst'[i] = [inst[i] EXCEPT !.st = st, !.role = "none"]
        /\ \A j \in Instance : j # i => inst'[j] = inst[j]
    BY <1>1, <1>2
  <1>4. inst[i] \in Row /\ st \in State /\ st \notin Employed
    BY <1>1 DEF State, Employed
  <1>. HIDE DEF st
  <1>5. inst'[i] \in Row /\ inst'[i].st = st /\ inst'[i].role = "none"
    BY <1>3, <1>4 DEF Row
  <1>6. inst' \in [Instance -> Row]
    BY <1>1, <1>2, <1>5
  <1>7. "none" \notin PDRoles
    BY DEF PDRoles, PD
  <1>8. \A j \in Instance : inst'[j].role \in PDRoles <=> inst'[j].st \in Employed
    BY <1>3, <1>4, <1>5, <1>7 DEF RowsOK
  <1>9. Workforce' = Workforce \ {i}
    BY <1>3, <1>5, <1>7 DEF Workforce
  <1>10. order' = rest /\ held' = held \ {i}
    BY DEF DrainEnds
  <1>11. rest \in Seq(Instance) /\ Range(rest) = Workforce \ {i}
    <2>1. order \in Seq(Instance) /\ Range(order) = Workforce /\ Workforce \subseteq Instance
      BY DEF RowsOK, Workforce
    <2>2. rest \in Seq(Instance) /\ Range(rest) = Range(order) \cap S
      <3>. HIDE DEF S
      <3>. QED BY <2>1, OnlyIs
    <2>. QED BY <2>1, <2>2
  <1>. HIDE DEF rest
  <1>12. held' \subseteq Workforce' /\ (~setup'.conf.minHold => held' = {})
    BY <1>1, <1>9, <1>10 DEF RowsOK
  <1>. QED BY <1>6, <1>8, <1>9, <1>10, <1>11, <1>12 DEF RowsOK

\* Giving a slot back.
LEMMA LeaveGate ==
    ASSUME GateOK, NEW i \in Instance, job[i].pc \in {"slot", "loading"}, Leave(i), setup' = setup
    PROVE  GateOK'
  <1>1. job \in [Instance -> Job] /\ job' = [job EXCEPT ![i] = NoJob] /\ NoJob.pc = "none"
    BY DEF GateOK, Leave, NoJob
  <1>2. job' \in [Instance -> Job]
    BY <1>1 DEF Job
  <1>3. InGate' = InGate \ {i} /\ i \in InGate
    BY <1>1 DEF InGate
  <1>4. {j \in Instance : job'[j].pc = "waiting"} = {j \in Instance : job[j].pc = "waiting"}
    BY <1>1
  <1>5. InGate \in SUBSET Instance
    BY DEF InGate
  <1>6. Cardinality(InGate') = Cardinality(InGate) - 1 /\ Cardinality(InGate) \in Nat
    BY <1>3, <1>5, InstancesFinite, FS_RemoveElement
  <1>7. slots' = slots + 1 /\ senders' = senders
    BY DEF Leave
  <1>8. slots' \in Int /\ slots' + Cardinality(InGate') = setup'.slots
    <2>. DEFINE c == Cardinality(InGate)
                d == Cardinality(InGate')
    <2>1. slots \in Int /\ slots + c = setup.slots /\ d = c - 1 /\ c \in Nat
      BY <1>6 DEF GateOK
    <2>. HIDE DEF c, d
    <2>2. (slots + 1) + d = slots + c
      BY <2>1
    <2>. QED BY <1>7, <2>1, <2>2 DEF d
  <1>. QED BY <1>2, <1>4, <1>7, <1>8 DEF GateOK

\* A start that goes on to load keeps its slot.
LEMMA LoadingGate ==
    ASSUME GateOK, NEW i \in Instance, job[i].pc = "slot",
           job' = [job EXCEPT ![i].pc = "loading"], UNCHANGED <<setup, senders, slots>>
    PROVE  GateOK'
  <1>1. job \in [Instance -> Job] /\ job[i] \in Job
    BY DEF GateOK
  <1>2. job'[i] = [job[i] EXCEPT !.pc = "loading"] /\ \A j \in Instance : j # i => job'[j] = job[j]
    BY <1>1
  <1>3. job[i].role \in PDRoles /\ job'[i] \in Job /\ job'[i].pc = "loading"
    <2>1. job[i] \in [pc : {"waiting", "slot", "loading"}, role : PDRoles]
      BY <1>1 DEF Job, NoJob
    <2>2. job'[i] \in [pc : {"waiting", "slot", "loading"}, role : PDRoles] /\ job'[i].pc = "loading"
      BY <1>2, <2>1
    <2>. QED BY <2>1, <2>2 DEF Job
  <1>4. job' \in [Instance -> Job]
    BY <1>1, <1>3
  <1>5. InGate' = InGate /\ {j \in Instance : job'[j].pc = "waiting"} = {j \in Instance : job[j].pc = "waiting"}
    BY <1>2, <1>3 DEF InGate
  <1>. QED BY <1>4, <1>5 DEF GateOK

\* Dispatch: an instance with a reservation gets no second goroutine.
LEMMA DispatchGate ==
    ASSUME GateOK, RoundOK, Dispatch
    PROVE  GateOK' /\ RoundOK'
  <1>. DEFINE H == {a \in Carriable : a.kind = "ASSIGN"}
  <1>1. hoisted \in Seq(H) /\ hoisted # <<>> /\ hoisted' = Tail(hoisted) /\ todo' = todo
    BY DEF RoundOK, Dispatch
  <1>. DEFINE x == Head(hoisted)
              fresh == [pc |-> "waiting", role |-> x.role]
  <1>2. Head(hoisted) \in H /\ hoisted' \in Seq(H)
    <2>. HIDE DEF H
    <2>. QED BY <1>1
  <1>3. x.id \in Instance /\ x.role \in PDRoles
    BY <1>2 DEF Carriable
  <1>4. IF job[x.id] = NoJob
        THEN job' = [job EXCEPT ![x.id] = fresh] /\ senders' = Append(senders, x.id)
        ELSE UNCHANGED <<job, senders>>
    BY DEF Dispatch
  <1>5. setup' = setup /\ slots' = slots
    BY DEF Dispatch
  <1>6. RoundOK'
    BY <1>1, <1>2 DEF RoundOK
  <1>7. CASE job[x.id] # NoJob
    <2>1. UNCHANGED <<setup, job, senders, slots>>
      BY <1>4, <1>5, <1>7
    <2>. QED BY <1>6, <2>1 DEF GateOK, InGate
  <1>8. CASE job[x.id] = NoJob
    <2>1. PICK i \in Instance, r \in PDRoles : i = x.id /\ r = x.role
      BY <1>3
    <2>2. job' = [job EXCEPT ![i] = [pc |-> "waiting", role |-> r]] /\ senders' = Append(senders, i)
          /\ job[i].pc = "none"
      BY <1>4, <1>8, <2>1 DEF NoJob
    <2>. HIDE DEF x, H, fresh
    <2>3. job \in [Instance -> Job] /\ senders \in Seq(Instance)
          /\ Range(senders) = {j \in Instance : job[j].pc = "waiting"}
      BY DEF GateOK
    <2>4. [pc |-> "waiting", role |-> r] \in Job
      BY DEF Job
    <2>5. job' \in [Instance -> Job] /\ job'[i].pc = "waiting"
          /\ \A j \in Instance : j # i => job'[j] = job[j]
      BY <2>2, <2>3, <2>4
    <2>6. InGate' = InGate
      BY <2>2, <2>5 DEF InGate
    <2>7. {j \in Instance : job'[j].pc = "waiting"} = Range(senders) \cup {i} /\ i \notin Range(senders)
      BY <2>2, <2>3, <2>5
    <2>8. senders' \in Seq(Instance) /\ Range(senders') = Range(senders) \cup {i}
      BY <2>2, <2>3, RangeAppend
    <2>9. \A k, l \in 1 .. Len(senders') : senders'[k] = senders'[l] => k = l
      <3>1. Len(senders') = Len(senders) + 1 /\ Len(senders) \in Nat
            /\ senders'[Len(senders) + 1] = i
            /\ \A k \in 1 .. Len(senders) : senders'[k] = senders[k]
        BY <2>2, <2>3, AppendProperties
      <3>2. \A k \in 1 .. Len(senders) : senders[k] # i
        BY <2>3, <2>7, RangeEquality
      <3>3. \A k \in 1 .. Len(senders') : k \in 1 .. Len(senders) \/ k = Len(senders) + 1
        BY <3>1
      <3>. QED BY <3>1, <3>2, <3>3 DEF GateOK
    <2>10. slots' \in Int /\ slots' + Cardinality(InGate') = setup'.slots
      BY <1>5, <2>6 DEF GateOK
    <2>11. GateOK'
      BY <2>5, <2>7, <2>8, <2>9, <2>10 DEF GateOK
    <2>. QED BY <1>6, <2>11
  <1>. QED BY <1>7, <1>8

\* The goroutine that waits longest takes a slot.
LEMMA TakeSlotGate ==
    ASSUME GateOK, TakeSlot
    PROVE  GateOK'
  <1>1. /\ job \in [Instance -> Job] /\ senders \in Seq(Instance) /\ senders # <<>>
        /\ \A k, l \in 1 .. Len(senders) : senders[k] = senders[l] => k = l
        /\ Range(senders) = {j \in Instance : job[j].pc = "waiting"}
    BY DEF GateOK, TakeSlot
  <1>2. PICK i \in Instance : i = Head(senders)
    BY <1>1
  <1>3. job' = [job EXCEPT ![i].pc = "slot"] /\ senders' = Tail(senders) /\ slots' = slots - 1 /\ setup' = setup
    BY <1>2 DEF TakeSlot
  <1>4. /\ Len(senders) \in Nat /\ Len(senders) >= 1 /\ i = senders[1]
        /\ senders' \in Seq(Instance) /\ Len(senders') = Len(senders) - 1
        /\ \A k \in 1 .. Len(senders') : senders'[k] = senders[k + 1]
    BY <1>1, <1>2, <1>3, HeadTailProperties, EmptySeq
  <1>5. i \in Range(senders)
    BY <1>1, <1>4, RangeEquality
  <1>6. job[i].pc = "waiting" /\ job[i] \in Job
    BY <1>1, <1>5
  <1>7. job'[i] = [job[i] EXCEPT !.pc = "slot"] /\ \A j \in Instance : j # i => job'[j] = job[j]
    BY <1>1, <1>3
  <1>8. job'[i] \in Job /\ job'[i].pc = "slot"
    <2>1. job[i] \in [pc : {"waiting", "slot", "loading"}, role : PDRoles]
      BY <1>6 DEF Job, NoJob
    <2>2. job'[i] \in [pc : {"waiting", "slot", "loading"}, role : PDRoles] /\ job'[i].pc = "slot"
      BY <1>7, <2>1
    <2>. QED BY <2>2 DEF Job
  <1>9. job' \in [Instance -> Job]
    BY <1>1, <1>3, <1>8
  <1>10. InGate' = InGate \cup {i} /\ i \notin InGate
    BY <1>6, <1>7, <1>8 DEF InGate
  <1>11. {j \in Instance : job'[j].pc = "waiting"} = Range(senders) \ {i}
    BY <1>1, <1>7, <1>8
  <1>12. \A k, l \in 1 .. Len(senders') : senders'[k] = senders'[l] => k = l
    <2>. SUFFICES ASSUME NEW k \in 1 .. Len(senders'), NEW l \in 1 .. Len(senders'), senders'[k] = senders'[l]
                  PROVE  k = l
      OBVIOUS
    <2>1. k + 1 \in 1 .. Len(senders) /\ l + 1 \in 1 .. Len(senders)
      BY <1>4
    <2>2. senders[k + 1] = senders[l + 1]
      BY <1>4
    <2>3. k + 1 = l + 1
      BY <1>1, <2>1, <2>2
    <2>. QED BY <1>4, <2>3
  <1>13. Range(senders') = Range(senders) \ {i}
    <2>1. /\ Range(senders') = {senders'[k] : k \in 1 .. Len(senders')}
          /\ Range(senders) = {senders[k] : k \in 1 .. Len(senders)}
      BY <1>1, <1>4, RangeEquality
    <2>2. ASSUME NEW j \in Range(senders')
          PROVE  j \in Range(senders) \ {i}
      <3>1. PICK k \in 1 .. Len(senders') : j = senders'[k]
        BY <2>1
      <3>2. k + 1 \in 1 .. Len(senders) /\ 1 \in 1 .. Len(senders) /\ k + 1 # 1
        BY <1>4
      <3>3. j = senders[k + 1] /\ senders[k + 1] # senders[1]
        BY <1>1, <1>4, <3>1, <3>2
      <3>. QED BY <1>4, <2>1, <3>2, <3>3
    <2>3. ASSUME NEW j \in Range(senders) \ {i}
          PROVE  j \in Range(senders')
      <3>1. PICK k \in 1 .. Len(senders) : j = senders[k]
        BY <2>1
      <3>2. k # 1
        BY <1>4, <3>1
      <3>3. k - 1 \in 1 .. Len(senders') /\ (k - 1) + 1 = k
        BY <1>4, <3>2
      <3>4. senders'[k - 1] = senders[(k - 1) + 1]
        BY <1>4, <3>3
      <3>. QED BY <2>1, <3>1, <3>3, <3>4
    <2>. QED BY <2>2, <2>3
  <1>14. InGate \in SUBSET Instance
    BY DEF InGate
  <1>15. Cardinality(InGate') = Cardinality(InGate) + 1 /\ Cardinality(InGate) \in Nat
    BY <1>10, <1>14, InstancesFinite, FS_AddElement
  <1>16. slots' \in Int /\ slots' + Cardinality(InGate') = setup'.slots
    <2>. DEFINE c == Cardinality(InGate)
                d == Cardinality(InGate')
    <2>1. slots \in Int /\ slots + c = setup.slots /\ d = c + 1 /\ c \in Nat
      BY <1>15 DEF GateOK
    <2>. HIDE DEF c, d
    <2>2. (slots - 1) + d = slots + c
      BY <2>1
    <2>. QED BY <1>3, <2>1, <2>2 DEF d
  <1>. QED BY <1>4, <1>9, <1>11, <1>12, <1>13, <1>16 DEF GateOK

-----------------------------------------------------------------------------
(***************************************************************************)
(* The invariant is inductive.                                             *)
(***************************************************************************)

\* The pool a setup starts with satisfies the invariant.
LEMMA InitInv == Init => RebalanceInv
  <1>. SUFFICES ASSUME Init
                PROVE  RebalanceInv
    OBVIOUS
  <1>1. /\ setup \in Setups /\ setup.conf \in Conf /\ setup.slots \in Nat
        /\ setup.modes \subseteq Mode /\ setup.gears \subseteq Gear /\ setup.loads \subseteq Load
        /\ \A i \in Instance : setup.pool[i] \in PDRoles \cup {"absent", "preparing", "idle", "released"}
    BY RebalanceAssumption DEF Init
  <1>2. SettingsOK
    BY <1>1 DEF Init, SettingsOK
  <1>3. RowsOK
    <2>. DEFINE S == {i \in Instance : setup.pool[i] \in PDRoles}
    <2>1. ASSUME NEW i \in Instance
          PROVE  inst[i] = IF setup.pool[i] \in PDRoles
                           THEN [st |-> "serving", role |-> setup.pool[i], reclaim |-> FALSE]
                           ELSE [st |-> setup.pool[i], role |-> "none", reclaim |-> FALSE]
      BY DEF Init
    <2>2. ASSUME NEW i \in Instance
          PROVE  /\ inst[i] \in Row
                 /\ inst[i].role \in PDRoles <=> setup.pool[i] \in PDRoles
                 /\ inst[i].role \in PDRoles <=> inst[i].st \in Employed
      <3>1. PICK b \in BOOLEAN : b = FALSE
        OBVIOUS
      <3>2. CASE setup.pool[i] \in PDRoles
        <4>1. inst[i] = [st |-> "serving", role |-> setup.pool[i], reclaim |-> b]
          BY <2>1, <3>1, <3>2
        <4>. QED BY <3>2, <4>1 DEF Row, State, Employed
      <3>3. CASE setup.pool[i] \notin PDRoles
        <4>1. inst[i] = [st |-> setup.pool[i], role |-> "none", reclaim |-> b]
          BY <2>1, <3>1, <3>3
        <4>2. setup.pool[i] \in {"absent", "preparing", "idle", "released"}
          BY <1>1, <3>3
        <4>3. "none" \notin PDRoles
          BY DEF PDRoles, PD
        <4>. QED BY <3>3, <4>1, <4>2, <4>3 DEF Row, State, Employed
      <3>. QED BY <3>2, <3>3
    <2>3. inst \in [Instance -> Row]
      <3>1. /\ inst = [i \in DOMAIN inst |-> inst[i]]
            /\ DOMAIN inst = Instance
        BY DEF Init
      <3>. QED BY <2>2, <3>1
    <2>4. Workforce = S
      BY <2>2 DEF Workforce
    <2>5. S \subseteq Nat /\ IsFiniteSet(S) /\ S \subseteq Instance
      <3>1. S \in SUBSET Instance
        OBVIOUS
      <3>. HIDE DEF S
      <3>. QED BY <3>1, InstancesFinite
    <2>6. order = Sorted(S)
      BY DEF Init
    <2>7. order \in Seq(Instance) /\ Range(order) = S
      <3>. HIDE DEF S
      <3>1. order \in Seq(S) /\ Range(order) = S
        BY <2>5, <2>6, SortedIs
      <3>2. S \subseteq Instance
        BY <2>5
      <3>3. \A X, Y, s : X \subseteq Y /\ s \in Seq(X) => s \in Seq(Y)
        OBVIOUS
      <3>. QED BY <3>1, <3>2, <3>3
    <2>. QED BY <2>2, <2>3, <2>4, <2>7 DEF Init, RowsOK
  <1>4. RoundOK
    BY DEF Init, RoundOK
  <1>5. GateOK
    <2>1. job = [i \in Instance |-> NoJob] /\ senders = <<>> /\ slots = setup.slots
      BY DEF Init
    <2>2. \A i \in Instance : job[i] = NoJob /\ job[i].pc = "none"
      BY <2>1 DEF NoJob
    <2>3. job \in [Instance -> Job]
      BY <2>1 DEF Job
    <2>4. InGate = {} /\ {i \in Instance : job[i].pc = "waiting"} = {}
      BY <2>2 DEF InGate
    <2>5. Cardinality(InGate) = 0
      BY <2>4, FS_EmptySet
    <2>6. senders \in Seq(Instance) /\ Len(senders) = 0 /\ Range(senders) = {}
      <3>1. <<>> \in Seq(Instance) /\ Len(<<>>) = 0
        BY EmptySeq
      <3>2. Range(<<>>) = {}
        BY <3>1, FirstOf
      <3>. QED BY <2>1, <3>1, <3>2
    <2>. QED BY <1>1, <2>1, <2>3, <2>4, <2>5, <2>6 DEF GateOK
  <1>. QED BY <1>2, <1>3, <1>4, <1>5 DEF RebalanceInv

\* Parts of the invariant whose variables a step leaves alone.
LEMMA Untroubled ==
    /\ RowsOK /\ UNCHANGED <<setup, rows>> => RowsOK'
    /\ RoundOK /\ UNCHANGED round => RoundOK'
    /\ GateOK /\ UNCHANGED <<setup, gate>> => GateOK'
  BY DEF RowsOK, RoundOK, GateOK, Workforce, InGate, rows, round, gate

\* A round writes its actions, and moves the ladder.
LEMMA RoundPreserves ==
    ASSUME RebalanceInv, Round
    PROVE  RebalanceInv'
  <1>1. Input \in Population
    BY InputIs DEF RebalanceInv
  <1>. DEFINE decision == Plan(Input)
  <1>2. decision.acts \in Seq(Carriable) /\ decision.gear \in Gear
    BY <1>1, PlannedCarriable
  <1>3. /\ todo' = decision.acts
        /\ autoGear' = IF mode = "auto" THEN decision.gear ELSE autoGear
        /\ cooling' = (setup.conf.cooldown /\ (decision.acts # <<>> \/ decision.gear # gear))
        /\ UNCHANGED <<setup, mode, cfgGear, rows, load, outstanding, hoisted, gate>>
    BY DEF Round
  <1>. HIDE DEF decision
  <1>4. cooling' \in BOOLEAN
    <2>1. cooling' = TRUE \/ cooling' = FALSE
      BY <1>3, RebalanceAssumption, Zenon DEF RebalanceInv, SettingsOK
    <2>. QED BY <2>1
  <1>5. SettingsOK'
    BY <1>2, <1>3, <1>4 DEF RebalanceInv, SettingsOK
  <1>6. RoundOK'
    BY <1>2, <1>3 DEF RebalanceInv, RoundOK
  <1>7. RowsOK' /\ GateOK'
    BY <1>3, Untroubled DEF RebalanceInv
  <1>. QED BY <1>5, <1>6, <1>7 DEF RebalanceInv

\* An action carried out: one of the assignments collected, a drain, a request or a
\* mark for release.
LEMMA CarryOutPreserves ==
    ASSUME RebalanceInv, CarryOut
    PROVE  RebalanceInv'
  <1>. DEFINE a0 == Head(todo)
              H == {x \in Carriable : x.kind = "ASSIGN"}
  <1>1. todo \in Seq(Carriable) /\ todo # <<>> /\ todo' = Tail(todo) /\ hoisted \in Seq(H)
    BY DEF RebalanceInv, RoundOK, CarryOut
  <1>2. a0 \in Carriable /\ todo' \in Seq(Carriable)
    BY <1>1, HeadTailProperties
  <1>3. PICK a \in Carriable : a = a0
    BY <1>2
  <1>4. /\ a.kind = "ASSIGN" =>
              hoisted' = Append(hoisted, a) /\ UNCHANGED <<inst, outstanding, faults>>
        /\ a.kind \in {"REASSIGN", "DRAIN"} => BeginDrain(a.id) /\ UNCHANGED <<hoisted, outstanding>>
        /\ a.kind = "PROVISION" => Provision /\ UNCHANGED <<hoisted, inst>>
        /\ a.kind = "RELEASE" => /\ inst' = [inst EXCEPT ![a.id].reclaim = TRUE]
                                 /\ UNCHANGED <<hoisted, outstanding, faults>>
    BY <1>3 DEF CarryOut
  <1>5. UNCHANGED <<setup, mode, cfgGear, autoGear, cooling, order, held, load, job, senders, slots>>
    BY DEF CarryOut, planner, gate
  <1>6. GateOK'
    BY <1>5, Untroubled DEF RebalanceInv, gate
  <1>7. a.kind \in {"ASSIGN", "REASSIGN", "DRAIN", "PROVISION", "RELEASE"}
        /\ (a.kind \in {"REASSIGN", "DRAIN", "RELEASE"} => a.id \in Instance)
    BY DEF Carriable, Action
  <1>8. CASE a.kind = "ASSIGN"
    <2>1. hoisted' = Append(hoisted, a) /\ UNCHANGED <<inst, outstanding>>
      BY <1>4, <1>8
    <2>2. hoisted' \in Seq(H)
      <3>1. a \in H
        BY <1>8
      <3>. HIDE DEF H
      <3>. QED BY <1>1, <2>1, <3>1
    <2>3. RowsOK'
      BY <1>5, <2>1, Untroubled DEF RebalanceInv, rows
    <2>. QED BY <1>2, <1>5, <1>6, <2>1, <2>2, <2>3 DEF RebalanceInv, SettingsOK, RoundOK
  <1>9. CASE a.kind \in {"REASSIGN", "DRAIN"}
    <2>1. BeginDrain(a.id) /\ UNCHANGED <<hoisted, outstanding>>
      BY <1>4, <1>9
    <2>2. PICK i \in Instance : i = a.id
      BY <1>7, <1>9
    <2>3. \/ /\ inst[i].st \in {"serving", "failed", "stranded"}
             /\ inst' = [inst EXCEPT ![i].st = "draining"]
          \/ UNCHANGED inst
      BY <2>1, <2>2 DEF BeginDrain
    <2>4. RowsOK'
      <3>1. CASE UNCHANGED inst
        BY <1>5, <3>1, Untroubled DEF RebalanceInv, rows
      <3>2. CASE /\ inst[i].st \in {"serving", "failed", "stranded"}
                 /\ inst' = [inst EXCEPT ![i].st = "draining"]
        <4>1. RowsOK /\ "draining" \in State /\ ("draining" \in Employed <=> inst[i].st \in Employed)
          BY <3>2 DEF RebalanceInv, State, Employed
        <4>. QED BY <1>5, <3>2, <4>1, StateWritten
      <3>. QED BY <2>3, <3>1, <3>2
    <2>. QED BY <1>1, <1>2, <1>5, <1>6, <2>1, <2>4 DEF RebalanceInv, SettingsOK, RoundOK
  <1>10. CASE a.kind = "PROVISION"
    <2>1. Provision /\ UNCHANGED <<hoisted, inst>>
      BY <1>4, <1>10
    <2>2. outstanding' \in Nat
      BY <2>1 DEF Provision, RebalanceInv, SettingsOK
    <2>3. RowsOK'
      BY <1>5, <2>1, Untroubled DEF RebalanceInv, rows
    <2>. QED BY <1>1, <1>2, <1>5, <1>6, <2>1, <2>2, <2>3 DEF RebalanceInv, SettingsOK, RoundOK
  <1>11. CASE a.kind = "RELEASE"
    <2>1. inst' = [inst EXCEPT ![a.id].reclaim = TRUE] /\ UNCHANGED <<hoisted, outstanding>>
      BY <1>4, <1>11
    <2>2. PICK i \in Instance, b \in BOOLEAN : i = a.id /\ b = TRUE
      BY <1>7, <1>11
    <2>3. inst' = [inst EXCEPT ![i].reclaim = b]
      BY <2>1, <2>2
    <2>4. RowsOK'
      BY <1>5, <2>3, ReclaimWritten DEF RebalanceInv
    <2>. QED BY <1>1, <1>2, <1>5, <1>6, <2>1, <2>4 DEF RebalanceInv, SettingsOK, RoundOK
  <1>. QED BY <1>7, <1>8, <1>9, <1>10, <1>11

\* The gate.
LEMMA GatePreserves ==
    ASSUME RebalanceInv, Dispatch \/ TakeSlot
    PROVE  RebalanceInv'
  <1>1. CASE Dispatch
    <2>1. UNCHANGED <<setup, planner, rows, load, outstanding>>
      BY <1>1 DEF Dispatch
    <2>2. RoundOK' /\ GateOK'
      BY <1>1, DispatchGate DEF RebalanceInv
    <2>3. RowsOK'
      BY <2>1, Untroubled DEF RebalanceInv
    <2>. QED BY <2>1, <2>2, <2>3 DEF RebalanceInv, SettingsOK, planner
  <1>2. CASE TakeSlot
    <2>1. UNCHANGED <<setup, planner, rows, load, outstanding, round>>
      BY <1>2 DEF TakeSlot
    <2>2. GateOK'
      BY <1>2, TakeSlotGate DEF RebalanceInv
    <2>3. RowsOK' /\ RoundOK'
      BY <2>1, Untroubled DEF RebalanceInv
    <2>. QED BY <2>1, <2>2, <2>3 DEF RebalanceInv, SettingsOK, planner
  <1>. QED BY <1>1, <1>2

\* A start that has its slot begins, or leaves.
LEMMA BeginPreserves ==
    ASSUME RebalanceInv, NEW i \in Instance, Begin(i)
    PROVE  RebalanceInv'
  <1>1. UNCHANGED <<setup, planner, load, outstanding, round>> /\ job[i].pc = "slot"
    BY DEF Begin
  <1>2. RoundOK' /\ SettingsOK'
    BY <1>1, Untroubled DEF RebalanceInv, SettingsOK, planner
  <1>3. CASE Startable(i)
    <2>1. /\ StartService(i, job[i].role) /\ job' = [job EXCEPT ![i].pc = "loading"]
          /\ UNCHANGED <<senders, slots>>
      BY <1>3 DEF Begin
    <2>2. job[i].role \in PDRoles
      <3>1. job[i] \in Job
        BY DEF RebalanceInv, GateOK
      <3>. QED BY <1>1, <3>1 DEF Job, NoJob
    <2>3. PICK r \in PDRoles : r = job[i].role
      BY <2>2
    <2>4. StartService(i, r)
      BY <2>1, <2>3
    <2>5. RowsOK'
      BY <1>1, <2>4, StartWritten DEF RebalanceInv
    <2>6. GateOK'
      BY <1>1, <2>1, LoadingGate DEF RebalanceInv
    <2>. QED BY <1>2, <2>5, <2>6 DEF RebalanceInv
  <1>4. CASE ~ Startable(i)
    <2>1. Leave(i) /\ UNCHANGED rows
      BY <1>4 DEF Begin
    <2>2. GateOK'
      BY <1>1, <2>1, LeaveGate DEF RebalanceInv
    <2>3. RowsOK'
      BY <1>1, <2>1, Untroubled DEF RebalanceInv
    <2>. QED BY <1>2, <2>2, <2>3 DEF RebalanceInv
  <1>. QED BY <1>3, <1>4

\* A retry does not pass the gate.
LEMMA RetryPreserves ==
    ASSUME RebalanceInv, NEW i \in Instance, Retry(i)
    PROVE  RebalanceInv'
  <1>1. /\ UNCHANGED <<setup, planner, load, outstanding, round, gate>>
        /\ inst[i].st = "failed" /\ StartService(i, inst[i].role)
    BY DEF Retry
  <1>2. RoundOK' /\ SettingsOK' /\ GateOK'
    BY <1>1, Untroubled DEF RebalanceInv, SettingsOK, planner
  <1>3. PICK r \in PDRoles : r = inst[i].role
    BY <1>1 DEF RebalanceInv, RowsOK, Employed
  <1>4. StartService(i, r)
    BY <1>1, <1>3
  <1>5. RowsOK'
    BY <1>1, <1>4, StartWritten DEF RebalanceInv
  <1>. QED BY <1>2, <1>5 DEF RebalanceInv

\* The end of a start gives its slot back, if it had one.
LEMMA StartEndsPreserves ==
    ASSUME RebalanceInv, NEW i \in Instance, StartEnds(i)
    PROVE  RebalanceInv'
  <1>1. /\ UNCHANGED <<setup, planner, order, held, load, outstanding, round>>
        /\ inst[i].st = "starting"
    BY DEF StartEnds
  <1>2. RoundOK' /\ SettingsOK'
    BY <1>1, Untroubled DEF RebalanceInv, SettingsOK, planner
  <1>3. GateOK'
    <2>1. CASE job[i].pc = "loading"
      <3>1. Leave(i)
        BY <2>1 DEF StartEnds
      <3>. QED BY <1>1, <2>1, <3>1, LeaveGate DEF RebalanceInv
    <2>2. CASE job[i].pc # "loading"
      <3>1. UNCHANGED gate
        BY <2>2 DEF StartEnds
      <3>. QED BY <1>1, <3>1, Untroubled DEF RebalanceInv
    <2>. QED BY <2>1, <2>2
  <1>4. PICK st \in {"failed", "serving", "stranded"} : inst' = [inst EXCEPT ![i].st = st]
    BY DEF StartEnds
  <1>5. st \in State /\ (st \in Employed <=> inst[i].st \in Employed)
    BY <1>1 DEF State, Employed
  <1>6. RowsOK'
    BY <1>1, <1>4, <1>5, StateWritten DEF RebalanceInv
  <1>. QED BY <1>2, <1>3, <1>6 DEF RebalanceInv

\* The steps of the rest of the control plane.
LEMMA WorldPreserves ==
    ASSUME RebalanceInv, NEW i \in Instance,
           \/ Condemned(i) \/ DrainEnds(i) \/ Reclaim(i)
           \/ Delivered(i) \/ Prepared(i) \/ HoldPasses(i)
    PROVE  RebalanceInv'
  <1>1. UNCHANGED Others
    BY DEF Condemned, DrainEnds, Reclaim, Delivered, Prepared, HoldPasses
  <1>2. UNCHANGED <<setup, planner, load, round, gate>>
    BY <1>1 DEF Others
  <1>3. RoundOK' /\ GateOK'
    BY <1>2, Untroubled DEF RebalanceInv
  <1>4. outstanding' \in Nat
    <2>1. outstanding \in Nat
      BY DEF RebalanceInv, SettingsOK
    <2>2. \/ outstanding' = outstanding
          \/ outstanding > 0 /\ outstanding' = outstanding - 1
      BY DEF Condemned, DrainEnds, Reclaim, Delivered, Prepared, HoldPasses
    <2>. QED BY <2>1, <2>2
  <1>5. SettingsOK'
    BY <1>2, <1>4 DEF RebalanceInv, SettingsOK, planner
  <1>6. RowsOK'
    <2>1. CASE Condemned(i)
      <3>1. UNCHANGED <<setup, order, held>> /\ inst[i].st = "serving"
        BY <1>2, <2>1 DEF Condemned
      <3>2. PICK st \in {"failed", "stranded"} : inst' = [inst EXCEPT ![i].st = st]
        BY <2>1 DEF Condemned
      <3>3. st \in State /\ (st \in Employed <=> inst[i].st \in Employed)
        BY <3>1 DEF State, Employed
      <3>. QED BY <3>1, <3>2, <3>3, StateWritten DEF RebalanceInv
    <2>2. CASE DrainEnds(i)
      BY <2>2, DrainEndsRows DEF RebalanceInv
    <2>3. CASE Reclaim(i)
      <3>1. UNCHANGED <<setup, order, held>> /\ inst[i].st \in {"idle", "serving", "failed", "stranded"}
        BY <1>2, <2>3 DEF Reclaim
      <3>2. PICK st \in {"released", "draining"} :
               /\ inst' = [inst EXCEPT ![i].st = st]
               /\ st = "released" <=> inst[i].st = "idle"
        BY <2>3 DEF Reclaim
      <3>3. st \in State /\ (st \in Employed <=> inst[i].st \in Employed)
        BY <3>1, <3>2 DEF State, Employed
      <3>. QED BY <3>1, <3>2, <3>3, StateWritten DEF RebalanceInv
    <2>4. CASE Delivered(i)
      <3>1. UNCHANGED <<setup, order, held>> /\ inst[i].st = "absent"
            /\ inst' = [inst EXCEPT ![i].st = "preparing"]
        BY <1>2, <2>4 DEF Delivered
      <3>2. "preparing" \in State /\ ("preparing" \in Employed <=> inst[i].st \in Employed)
        BY <3>1 DEF State, Employed
      <3>. QED BY <3>1, <3>2, StateWritten DEF RebalanceInv
    <2>5. CASE Prepared(i)
      <3>1. UNCHANGED <<setup, order, held>> /\ inst[i].st = "preparing"
            /\ inst' = [inst EXCEPT ![i].st = "idle"]
        BY <1>2, <2>5 DEF Prepared
      <3>2. "idle" \in State /\ ("idle" \in Employed <=> inst[i].st \in Employed)
        BY <3>1 DEF State, Employed
      <3>. QED BY <3>1, <3>2, StateWritten DEF RebalanceInv
    <2>6. CASE HoldPasses(i)
      <3>1. UNCHANGED <<setup, inst, order>> /\ held' = held \ {i}
        BY <1>2, <2>6 DEF HoldPasses
      <3>. QED BY <3>1 DEF RebalanceInv, RowsOK, Workforce
    <2>. QED BY <2>1, <2>2, <2>3, <2>4, <2>5, <2>6
  <1>. QED BY <1>3, <1>5, <1>6 DEF RebalanceInv

\* The settings move on their own.
LEMMA SettingsPreserve ==
    ASSUME RebalanceInv, CooldownPasses \/ RequestFails \/ LoadChanges \/ SetGear \/ SetMode
    PROVE  RebalanceInv'
  <1>1. UNCHANGED <<setup, rows, round, gate>>
    BY DEF CooldownPasses, RequestFails, LoadChanges, SetGear, SetMode, Switch, Others
  <1>2. RowsOK' /\ RoundOK' /\ GateOK'
    BY <1>1, Untroubled DEF RebalanceInv
  <1>3. setup.loads \subseteq Load /\ setup.gears \subseteq Gear /\ setup.modes \subseteq Mode
    BY RebalanceAssumption DEF RebalanceInv, SettingsOK
  <1>4. SettingsOK'
    <2>1. CASE CooldownPasses
      BY <2>1 DEF CooldownPasses, RebalanceInv, SettingsOK
    <2>2. CASE RequestFails
      <3>1. outstanding > 0 /\ outstanding' = outstanding - 1 /\ UNCHANGED <<setup, planner, load>>
        BY <2>2 DEF RequestFails, Others
      <3>2. outstanding' \in Nat
        BY <3>1 DEF RebalanceInv, SettingsOK
      <3>. QED BY <3>1, <3>2 DEF RebalanceInv, SettingsOK, planner
    <2>3. CASE LoadChanges
      BY <1>3, <2>3 DEF LoadChanges, RebalanceInv, SettingsOK, planner
    <2>4. CASE SetGear
      BY <1>3, <2>4 DEF SetGear, Switch, RebalanceInv, SettingsOK
    <2>5. CASE SetMode
      BY <1>3, <2>5 DEF SetMode, Switch, RebalanceInv, SettingsOK
    <2>. QED BY <2>1, <2>2, <2>3, <2>4, <2>5
  <1>. QED BY <1>2, <1>4 DEF RebalanceInv

\* Every step keeps the invariant.
LEMMA NextInv == RebalanceInv /\ [Next]_vars => RebalanceInv'
  <1>. SUFFICES ASSUME RebalanceInv, [Next]_vars
                PROVE  RebalanceInv'
    OBVIOUS
  <1>1. CASE Round
    BY <1>1, RoundPreserves
  <1>2. CASE CarryOut
    BY <1>2, CarryOutPreserves
  <1>3. CASE Dispatch \/ TakeSlot
    BY <1>3, GatePreserves
  <1>4. CASE CooldownPasses \/ RequestFails \/ LoadChanges \/ SetGear \/ SetMode
    BY <1>4, SettingsPreserve
  <1>5. CASE \E i \in Instance :
                \/ Begin(i) \/ Retry(i) \/ StartEnds(i)
                \/ Condemned(i) \/ DrainEnds(i) \/ Reclaim(i)
                \/ Delivered(i) \/ Prepared(i) \/ HoldPasses(i)
    <2>1. PICK i \in Instance :
                \/ Begin(i) \/ Retry(i) \/ StartEnds(i)
                \/ Condemned(i) \/ DrainEnds(i) \/ Reclaim(i)
                \/ Delivered(i) \/ Prepared(i) \/ HoldPasses(i)
      BY <1>5
    <2>. QED BY <2>1, BeginPreserves, RetryPreserves, StartEndsPreserves, WorldPreserves
  <1>6. CASE UNCHANGED vars
    <2>1. UNCHANGED <<setup, planner, rows, load, outstanding, round, gate>>
      BY <1>6 DEF vars
    <2>. QED BY <2>1, Untroubled DEF RebalanceInv, SettingsOK, planner
  <1>. QED BY <1>1, <1>2, <1>3, <1>4, <1>5, <1>6 DEF Next

\* The invariant holds of every behaviour.
LEMMA RebalanceInvariant == Spec => []RebalanceInv
  <1>. QED BY InitInv, NextInv, PTL DEF Spec

\* The rows, the round and the gate of rebalance.go are typed in every reachable
\* state, and every slot of the start gate is free or held by a start that has passed
\* it: startGate is never overdrawn and never leaks.
THEOREM RebalanceTyped == Spec => []TypeOK
  <1>. QED BY RebalanceInvariant, TypeFollows, PTL

(***************************************************************************)
(* Tunings for which a round cannot take the last worker of a role.  Each  *)
(* condition is needed: with a larger max_change an idle round releases    *)
(* one worker and converts the other; a cap of one leaves one worker; and  *)
(* while some workers are held, the one that a release or a drain to the   *)
(* cap may move can be the last of its role.                               *)
(***************************************************************************)
Sheltered ==
    \A s \in Setups :
        /\ s.conf.capacity => s.conf.maxChange = 1 /\ ~s.conf.minHold
        /\ s.conf.maxServing # 0 => s.conf.maxServing >= 2 /\ ~s.conf.minHold

\* One round.
LEMMA RoundKeeps ==
    ASSUME Sheltered, RebalanceInv, Round, mode # "aggregated"
    PROVE  \A r \in PD : (\E i \in Serving : inst[i].role = r) => Left(r) # {}
  <1>1. /\ Input \in Population /\ Workers(Input) = Serving
        /\ \A i \in Serving : Input.role[i] = inst[i].role
    BY InputIs DEF RebalanceInv
  <1>2. Input.conf = setup.conf /\ Input.mode = mode /\ Input.held = held
    BY DEF Input
  <1>3. setup \in Setups /\ (~setup.conf.minHold => held = {})
    BY DEF RebalanceInv, SettingsOK, RowsOK
  <1>4. Unmixed(Input)
    BY <1>2, <1>3 DEF Unmixed, Sheltered
  <1>5. todo' = Plan(Input).acts
    BY DEF Round
  <1>6. Present(Input, todo')
    BY <1>1, <1>2, <1>4, <1>5, PlanKeeps
  <1>7. ASSUME NEW r \in PD, \E i \in Serving : inst[i].role = r
        PROVE  Left(r) # {}
    <2>1. Remaining(Input, todo', r) # {}
      BY <1>1, <1>6, <1>7 DEF Present
    <2>2. Remaining(Input, todo', r) = Left(r)
      BY <1>1 DEF Remaining, Left
    <2>. QED BY <2>1, <2>2
  <1>. QED BY <1>7

\* Plan never takes the last worker of a role (planner.go, the guards of drainToCap
\* and convert), whatever the pool, the load, the gear, the cooldowns and the rounds
\* before it, as long as the tuning is sheltered.
THEOREM RebalanceRoundKeepsEachRole ==
    ASSUME Sheltered
    PROVE  Spec => RoundKeepsEachRole
  <1>1. RebalanceInv /\ [Next]_vars =>
          [Round /\ mode # "aggregated" =>
              \A r \in PD : (\E i \in Serving : inst[i].role = r) => Left(r) # {}]_vars
    BY RoundKeeps
  <1>. QED BY <1>1, RebalanceInvariant, PTL DEF Spec, RoundKeepsEachRole
=============================================================================
