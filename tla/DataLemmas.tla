----------------------------- MODULE DataLemmas ------------------------------
(***************************************************************************)
(* For the proofs of the other modules: induction and recursion on natural *)
(* numbers, and sequences.  A property is a SET of numbers or sequences, a *)
(* step of a recursion a FUNCTION, so that the provers can instantiate the *)
(* lemmas.                                                                 *)
(***************************************************************************)
EXTENDS Integers, SequenceTheorems, WellFoundedInduction, TLAPS

\* Every set of natural numbers has a smallest element.
LEMMA LeastNatural ==
  ASSUME NEW S, S \subseteq Nat, S # {}
  PROVE  \E m \in S : \A k \in S : m <= k
<1> DEFINE R == {ss \in Nat \X Nat : ss[1] < ss[2]}
<1>1. IsWellFoundedOn(R, Nat)
  BY NatLessThanWellFounded DEF OpToRel
<1>2. \A x, y \in Nat : x < y => <<x, y>> \in R
  OBVIOUS
<1> HIDE DEF R
<1>3. PICK m \in S : \A k \in S : ~ (<<k, m>> \in R)
  BY <1>1, WFMin
<1>4. \A k \in S : m <= k
  <2> TAKE k \in S
  <2>1. k \in Nat /\ m \in Nat /\ ~(k < m)
    BY <1>2, <1>3
  <2> QED BY <2>1
<1> QED
  BY <1>4

\* Induction up to n: the property holds of the members of S.
LEMMA InductionUpTo ==
  ASSUME NEW n \in Nat, NEW S,
         0 \in S,
         \A i \in 0..(n - 1) : i \in S => i + 1 \in S
  PROVE  0..n \subseteq S
<1> DEFINE Bad == {i \in 0..n : i \notin S}
<1> SUFFICES ASSUME Bad # {}
             PROVE  FALSE
  OBVIOUS
<1>1. Bad \subseteq Nat
  OBVIOUS
<1>2. PICK m \in Bad : \A k \in Bad : m <= k
  <2> HIDE DEF Bad
  <2> QED BY <1>1, LeastNatural
<1>3. m \in 0..n /\ m # 0
  OBVIOUS
<1>4. m - 1 \in 0..(n - 1) /\ m - 1 \in 0..n /\ ~(m <= m - 1) /\ (m - 1) + 1 = m
  BY <1>3
<1>5. m - 1 \in S
  BY <1>2, <1>4
<1> QED
  BY <1>4, <1>5

\* f is the recursion that starts with `first' and goes on with `step': step[i][v] is
\* the value at i when the one before is v.
IsRecursion(f, n, first, step) ==
  f[0] = first /\ \A i \in 1..n : f[i] = step[i][f[i - 1]]

\* A recursion with values in S has a solution.
LEMMA RecursionUpTo ==
  ASSUME NEW n \in Nat, NEW S, NEW first \in S,
         NEW step \in [1..n -> [S -> S]]
  PROVE  \E f \in [0..n -> S] : IsRecursion(f, n, first, step)
<1> DEFINE Good(m, f) == f[0] = first /\ \A i \in 1..m : f[i] = step[i][f[i - 1]]
           Reached == {m \in 0..n : \E f \in [0..n -> S] : Good(m, f)}
<1>1. 0 \in Reached
  <2> DEFINE f == [i \in 0..n |-> first]
  <2>1. f \in [0..n -> S]
    OBVIOUS
  <2>2. f[0] = first /\ 0 \in 0..n /\ 1..0 = {}
    OBVIOUS
  <2> HIDE DEF f
  <2> QED BY <2>1, <2>2
<1>2. \A m \in 0..(n - 1) : m \in Reached => m + 1 \in Reached
  <2> SUFFICES ASSUME NEW m \in 0..(n - 1), m \in Reached
               PROVE  m + 1 \in Reached
    OBVIOUS
  <2>1. PICK f \in [0..n -> S] : Good(m, f)
    OBVIOUS
  <2>2. m + 1 \in 1..n /\ m \in 0..n /\ m + 1 \in 0..n /\ (m + 1) - 1 = m /\ 0 # m + 1
    OBVIOUS
  <2> DEFINE g == [f EXCEPT ![m + 1] = step[m + 1][f[m]]]
  <2>3. g \in [0..n -> S]
    BY <2>2
  <2>4. g[0] = first
    BY <2>1, <2>2
  <2>5. ASSUME NEW i \in 1..(m + 1)
        PROVE  g[i] = step[i][g[i - 1]]
    <3>1. i \in 0..n /\ i - 1 \in 0..n /\ i - 1 # m + 1
      BY <2>2
    <3>2. CASE i = m + 1
      BY <2>2, <3>1, <3>2
    <3>3. CASE i # m + 1
      <4>1. i \in 1..m
        BY <3>3
      <4> QED BY <2>1, <3>1, <3>3, <4>1
    <3> QED BY <3>2, <3>3
  <2> HIDE DEF g
  <2>6. Good(m + 1, g)
    BY <2>4, <2>5
  <2> QED
    BY <2>2, <2>3, <2>6
<1>3. n \in Reached
  <2>1. n \in 0..n
    OBVIOUS
  <2> HIDE DEF Reached
  <2> QED
    BY <1>1, <1>2, <2>1, InductionUpTo
<1>4. PICK f \in [0..n -> S] : Good(n, f)
  BY <1>3
<1> QED
  BY <1>4 DEF IsRecursion

-----------------------------------------------------------------------------
(* Sums.                                                                   *)

\* f[1] + f[2] + ... + f[n]
SumUpTo(f, n) ==
  LET sum[i \in 0..n] == IF i = 0 THEN 0 ELSE sum[i - 1] + f[i]
  IN  sum[n]

\* s[i] is the sum of the first i.
IsSums(s, f, n) == s[0] = 0 /\ \A i \in 1..n : s[i] = s[i - 1] + f[i]

LEMMA SumsExist ==
  ASSUME NEW n \in Nat, NEW f, \A i \in 1..n : f[i] \in Int
  PROVE  \E s \in [0..n -> Int] : IsSums(s, f, n) /\ SumUpTo(f, n) = s[n]
<1> DEFINE P(g) == g = [i \in 0..n |-> IF i = 0 THEN 0 ELSE g[i - 1] + f[i]]
           step == [i \in 1..n |-> [v \in Int |-> v + f[i]]]
<1>1. step \in [1..n -> [Int -> Int]]
  OBVIOUS
<1>2. PICK s \in [0..n -> Int] : IsRecursion(s, n, 0, step)
  <2>1. 0 \in Int
    OBVIOUS
  <2> HIDE DEF step
  <2> QED BY <1>1, <2>1, RecursionUpTo
<1>3. s[0] = 0 /\ \A i \in 1..n : s[i] = s[i - 1] + f[i]
  <2>1. \A i \in 1..n : i - 1 \in 0..n
    OBVIOUS
  <2> QED BY <1>2, <2>1 DEF IsRecursion
<1>4. P(s)
  <2>1. \A i \in 0..n : s[i] = IF i = 0 THEN 0 ELSE s[i - 1] + f[i]
    BY <1>3
  <2> QED BY <2>1
<1> DEFINE c == CHOOSE g : P(g)
<1>5. P(c)
  <2> HIDE DEF P
  <2> QED BY <1>4
<1>6. SumUpTo(f, n) = c[n]
  BY DEF SumUpTo
<1>7. c = s
  <2> DEFINE S == {i \in 0..n : c[i] = s[i]}
  <2>1. \A i \in 0..n : c[i] = IF i = 0 THEN 0 ELSE c[i - 1] + f[i]
    BY <1>5
  <2> HIDE DEF c
  <2>2. 0 \in S
    BY <2>1, <1>3
  <2>3. \A i \in 0..(n - 1) : i \in S => i + 1 \in S
    <3> SUFFICES ASSUME NEW i \in 0..(n - 1), i \in S
                 PROVE  i + 1 \in S
      OBVIOUS
    <3>1. i + 1 \in 0..n /\ i + 1 \in 1..n /\ i + 1 # 0 /\ (i + 1) - 1 = i
      OBVIOUS
    <3> QED BY <3>1, <2>1, <1>3
  <2>4. 0..n \subseteq S
    <3> HIDE DEF S
    <3> QED BY <2>2, <2>3, InductionUpTo
  <2>5. \A i \in 0..n : c[i] = s[i]
    BY <2>4
  <2>6. c = [i \in 0..n |-> c[i]] /\ s = [i \in 0..n |-> s[i]]
    BY <1>5 DEF c
  <2> QED BY <2>5, <2>6
<1>8. n \in 0..n
  OBVIOUS
<1> HIDE DEF c
<1> QED
  BY <1>3, <1>6, <1>7 DEF IsSums

LEMMA SumType ==
  ASSUME NEW n \in Nat, NEW f, \A i \in 1..n : f[i] \in Int
  PROVE  SumUpTo(f, n) \in Int
<1>1. PICK s \in [0..n -> Int] : SumUpTo(f, n) = s[n]
  BY SumsExist
<1> QED BY <1>1

\* A sum of zeros.
LEMMA SumZero ==
  ASSUME NEW n \in Nat, NEW f, \A i \in 1..n : f[i] = 0
  PROVE  SumUpTo(f, n) = 0
<1>1. PICK s \in [0..n -> Int] : IsSums(s, f, n) /\ SumUpTo(f, n) = s[n]
  BY SumsExist
<1> DEFINE S == {i \in 0..n : s[i] = 0}
<1>2. 0 \in S
  BY <1>1 DEF IsSums
<1>3. \A i \in 0..(n - 1) : i \in S => i + 1 \in S
  <2> SUFFICES ASSUME NEW i \in 0..(n - 1), i \in S
               PROVE  i + 1 \in S
    OBVIOUS
  <2>1. i + 1 \in 0..n /\ i + 1 \in 1..n /\ (i + 1) - 1 = i
    OBVIOUS
  <2>2. s[i + 1] = s[i] + f[i + 1] /\ f[i + 1] = 0 /\ s[i] = 0
    BY <2>1, <1>1 DEF IsSums
  <2> QED BY <2>1, <2>2
<1>4. 0..n \subseteq S
  <2> HIDE DEF S
  <2> QED BY <1>2, <1>3, InductionUpTo
<1> QED BY <1>1, <1>4

\* The sum is monotone.
LEMMA SumMonotone ==
  ASSUME NEW n \in Nat, NEW f, NEW g,
         \A i \in 1..n : f[i] \in Int /\ g[i] \in Int /\ f[i] <= g[i]
  PROVE  SumUpTo(f, n) <= SumUpTo(g, n)
<1>1. PICK s \in [0..n -> Int] : IsSums(s, f, n) /\ SumUpTo(f, n) = s[n]
  BY SumsExist
<1>2. PICK r \in [0..n -> Int] : IsSums(r, g, n) /\ SumUpTo(g, n) = r[n]
  BY SumsExist
<1> DEFINE S == {i \in 0..n : s[i] <= r[i]}
<1>3. 0 \in S
  BY <1>1, <1>2 DEF IsSums
<1>4. \A i \in 0..(n - 1) : i \in S => i + 1 \in S
  <2> SUFFICES ASSUME NEW i \in 0..(n - 1), i \in S
               PROVE  i + 1 \in S
    OBVIOUS
  <2>1. i + 1 \in 0..n /\ i + 1 \in 1..n /\ (i + 1) - 1 = i /\ i \in 0..n
    OBVIOUS
  <2>2. s[i + 1] = s[i] + f[i + 1] /\ r[i + 1] = r[i] + g[i + 1]
    BY <2>1, <1>1, <1>2 DEF IsSums
  <2>3. s[i] \in Int /\ r[i] \in Int
    BY <2>1
  <2>4. f[i + 1] \in Int /\ g[i + 1] \in Int /\ f[i + 1] <= g[i + 1] /\ s[i] <= r[i]
    BY <2>1
  <2>5. \A a, b, c, e \in Int : a <= b /\ c <= e => a + c <= b + e
    OBVIOUS
  <2>6. s[i] + f[i + 1] <= r[i] + g[i + 1]
    BY <2>3, <2>4, <2>5
  <2> QED BY <2>1, <2>2, <2>6
<1>5. 0..n \subseteq S
  <2> HIDE DEF S
  <2> QED BY <1>3, <1>4, InductionUpTo
<1> QED BY <1>1, <1>2, <1>5

\* g is f with term k changed by d.
IsChange(f, g, n, k, d) ==
  \A i \in 1..n : f[i] \in Int /\ g[i] = IF i = k THEN f[i] + d ELSE f[i]

LEMMA SumChange ==
  ASSUME NEW n \in Nat, NEW f, NEW g, NEW k \in 1..n, NEW d \in Int, IsChange(f, g, n, k, d)
  PROVE  SumUpTo(g, n) = SumUpTo(f, n) + d
<1> USE DEF IsChange
<1>1. PICK s \in [0..n -> Int] : IsSums(s, f, n) /\ SumUpTo(f, n) = s[n]
  BY SumsExist
<1>2. PICK r \in [0..n -> Int] : IsSums(r, g, n) /\ SumUpTo(g, n) = r[n]
  <2>1. \A i \in 1..n : g[i] \in Int
    OBVIOUS
  <2> QED BY <2>1, SumsExist
<1> DEFINE S == {i \in 0..n : r[i] = IF i >= k THEN s[i] + d ELSE s[i]}
<1>3. 0 \in S
  BY <1>1, <1>2 DEF IsSums
<1>4. \A i \in 0..(n - 1) : i \in S => i + 1 \in S
  <2> SUFFICES ASSUME NEW i \in 0..(n - 1), i \in S
               PROVE  i + 1 \in S
    OBVIOUS
  <2>1. i + 1 \in 0..n /\ i + 1 \in 1..n /\ (i + 1) - 1 = i /\ i \in 0..n
    OBVIOUS
  <2>2. s[i + 1] = s[i] + f[i + 1] /\ r[i + 1] = r[i] + g[i + 1]
    BY <2>1, <1>1, <1>2 DEF IsSums
  <2>3. s[i] \in Int /\ r[i] \in Int
    BY <2>1
  <2>4. r[i] = IF i >= k THEN s[i] + d ELSE s[i]
    OBVIOUS
  <2>5. g[i + 1] = IF i + 1 = k THEN f[i + 1] + d ELSE f[i + 1]
    BY <2>1
  <2>6. f[i + 1] \in Int
    BY <2>1
  <2> HIDE DEF S
  <2>7. r[i + 1] = IF i + 1 >= k THEN s[i + 1] + d ELSE s[i + 1]
    <3>1. i \in Int /\ k \in Int /\ s[i + 1] \in Int
      BY <2>1
    <3>2. CASE i >= k
      <4>1. i + 1 >= k /\ i + 1 # k
        BY <3>1, <3>2
      <4>2. r[i + 1] = (s[i] + d) + f[i + 1] /\ s[i + 1] = s[i] + f[i + 1]
        BY <3>2, <4>1, <2>2, <2>4, <2>5
      <4>3. \A a, b \in Int : (a + d) + b = (a + b) + d
        OBVIOUS
      <4>4. (s[i] + d) + f[i + 1] = (s[i] + f[i + 1]) + d
        BY <4>3, <2>3, <2>6
      <4> QED BY <4>1, <4>2, <4>4
    <3>3. CASE i + 1 = k
      BY <3>1, <3>3, <2>2, <2>3, <2>4, <2>5, <2>6
    <3>4. CASE i + 1 < k
      BY <3>1, <3>4, <2>2, <2>3, <2>4, <2>5, <2>6
    <3> QED BY <3>1, <3>2, <3>3, <3>4
  <2> QED BY <2>1, <2>7 DEF S
<1>5. 0..n \subseteq S
  <2> HIDE DEF S
  <2> QED BY <1>3, <1>4, InductionUpTo
<1> QED BY <1>1, <1>2, <1>5

\* Induction over a sequence: the property holds of the members of P.
LEMMA GrowingSequences ==
  ASSUME NEW S, NEW P, <<>> \in P,
         \A q \in Seq(S), x \in S : q \in P => Append(q, x) \in P
  PROVE  Seq(S) \subseteq P
<1> SUFFICES ASSUME NEW q \in Seq(S) PROVE q \in P
  OBVIOUS
<1> DEFINE T == {i \in 0..Len(q) : SubSeq(q, 1, i) \in P}
<1>1. 0 \in T
  <2>1. SubSeq(q, 1, 0) = <<>> /\ 0 \in 0..Len(q)
    OBVIOUS
  <2> QED BY <2>1
<1>2. \A i \in 0..(Len(q) - 1) : i \in T => i + 1 \in T
  <2> SUFFICES ASSUME NEW i \in 0..(Len(q) - 1), i \in T PROVE i + 1 \in T
    OBVIOUS
  <2>1. SubSeq(q, 1, i) \in Seq(S) /\ q[i + 1] \in S /\ SubSeq(q, 1, i) \in P
    BY SubSeqProperties
  <2>2. SubSeq(q, 1, i + 1) = Append(SubSeq(q, 1, i), q[i + 1])
    <3>1. 1 \in 1..(i + 1) + 1 /\ i + 1 \in 1..Len(q) /\ i \in 0..Len(q) /\ 1 \in 1..i + 1
      OBVIOUS
    <3> QED BY <3>1, SubSeqRecursiveSecond
  <2>3. i + 1 \in 0..Len(q) /\ SubSeq(q, 1, i + 1) \in P
    <3>1. i + 1 \in 0..Len(q)
      BY LenProperties
    <3> QED BY <3>1, <2>1, <2>2
  <2> QED BY <2>3
<1>3. Len(q) \in T
  <2>1. Len(q) \in Nat
    OBVIOUS
  <2>2. 0..Len(q) \subseteq T
    <3> HIDE DEF T
    <3> QED BY <2>1, <1>1, <1>2, InductionUpTo
  <2> QED BY <2>1, <2>2
<1> QED BY <1>3, SubSeqFull

\* The members of a queue, and that it has none of them twice.
Members(q) == {q[k] : k \in 1..Len(q)}
NoneTwice(q) == \A j, k \in 1..Len(q) : j # k => q[j] # q[k]

\* Entering a queue.
LEMMA EntersQueue ==
  ASSUME NEW S, NEW q \in Seq(S), NEW x \in S
  PROVE  /\ Append(q, x) \in Seq(S) /\ Members(Append(q, x)) = Members(q) \cup {x}
         /\ Members(q) \subseteq S
         /\ NoneTwice(q) /\ x \notin Members(q) => NoneTwice(Append(q, x))
<1>1. /\ Append(q, x) \in Seq(S) /\ Len(Append(q, x)) = Len(q) + 1 /\ Len(q) \in Nat
      /\ \A k \in 1..Len(q) : Append(q, x)[k] = q[k]
      /\ Append(q, x)[Len(q) + 1] = x
  BY AppendProperties
<1>2. \A k \in 1..(Len(q) + 1) : k \in 1..Len(q) \/ k = Len(q) + 1
  BY <1>1
<1>3. 1..Len(q) \subseteq 1..(Len(q) + 1) /\ Len(q) + 1 \in 1..(Len(q) + 1)
  BY <1>1
<1>4. Members(q) \subseteq S
  BY ElementOfSeq DEF Members
<1> QED BY <1>1, <1>2, <1>3, <1>4 DEF Members, NoneTwice

\* Leaving it.
LEMMA LeavesQueue ==
  ASSUME NEW S, NEW q \in Seq(S), q # <<>>
  PROVE  /\ Head(q) \in Members(q) /\ Tail(q) \in Seq(S)
         /\ Members(q) \subseteq S /\ Members(Tail(q)) \subseteq Members(q)
         /\ NoneTwice(q) => Head(q) \notin Members(Tail(q)) /\ NoneTwice(Tail(q))
<1>1. /\ Tail(q) \in Seq(S) /\ Len(Tail(q)) = Len(q) - 1 /\ Len(q) \in Nat \ {0}
      /\ \A k \in 1..Len(Tail(q)) : Tail(q)[k] = q[k + 1]
      /\ Head(q) = q[1]
  BY HeadTailProperties, EmptySeq
<1>2. \A k \in 1..Len(Tail(q)) : k + 1 \in 1..Len(q) /\ k + 1 # 1
  BY <1>1
<1>3. 1 \in 1..Len(q) /\ \A j, k \in 1..Len(Tail(q)) : j # k => j + 1 # k + 1
  BY <1>1
<1>4. \A k \in 1..Len(q) : q[k] \in S
  BY ElementOfSeq
<1> QED BY <1>1, <1>2, <1>3, <1>4 DEF Members, NoneTwice

\* A sequence is what is before a place and what comes after it.
LEMMA SplitAt ==
  ASSUME NEW S, NEW s \in Seq(S), NEW n \in 0..Len(s)
  PROVE  /\ SubSeq(s, 1, n) \in Seq(S) /\ SubSeq(s, n + 1, Len(s)) \in Seq(S)
         /\ SubSeq(s, 1, n) \o SubSeq(s, n + 1, Len(s)) = s
<1>1. SubSeq(s, 1, n) \o SubSeq(s, n + 1, Len(s)) = SubSeq(s, 1, Len(s))
  <2>1. 1 \in 1..(Len(s) + 1) /\ n \in (1 - 1)..Len(s) /\ Len(s) \in n..Len(s)
    BY LenProperties
  <2> QED BY <2>1, ConcatAdjacentSubSeq
<1>2. SubSeq(s, 1, Len(s)) = s
  BY SubSeqFull
<1>3. SubSeq(s, 1, n) \in Seq(S) /\ SubSeq(s, n + 1, Len(s)) \in Seq(S)
  BY SubSeqProperties
<1> QED BY <1>1, <1>2, <1>3

\* The last place of a sequence that is not empty.
LEMMA LastIn ==
  ASSUME NEW S, NEW s \in Seq(S), s # <<>>
  PROVE  Len(s) \in 1..Len(s) /\ s[Len(s)] \in S
<1>1. Len(s) \in Nat \ {0}
  BY EmptySeq
<1>2. Len(s) \in 1..Len(s)
  BY <1>1
<1> QED BY <1>2, ElementOfSeq

\* The first element of one sequence may as well be the last one of the sequence before.
LEMMA MoveHead ==
  ASSUME NEW S, NEW s \in Seq(S), NEW t \in Seq(S), t # <<>>
  PROVE  /\ Append(s, Head(t)) \in Seq(S) /\ Tail(t) \in Seq(S) /\ Head(t) \in S
         /\ Append(s, Head(t)) \o Tail(t) = s \o t
<1>1. Head(t) \in S /\ Tail(t) \in Seq(S) /\ Append(s, Head(t)) \in Seq(S)
  BY HeadTailProperties, AppendProperties
<1>2. Append(s, Head(t)) = s \o <<Head(t)>> /\ <<Head(t)>> \in Seq(S)
  BY <1>1, AppendIsConcat
<1>3. <<Head(t)>> \o Tail(t) = t
  <2>1. 1 \in 1..Len(t) /\ Len(t) \in 1..Len(t) /\ Head(t) = t[1]
    BY EmptySeq
  <2>2. SubSeq(t, 1, Len(t)) = <<t[1]>> \o SubSeq(t, 1 + 1, Len(t))
    BY <2>1, SubSeqRecursiveFirst
  <2> QED BY <2>1, <2>2, SubSeqFull, TailIsSubSeq
<1>4. (s \o <<Head(t)>>) \o Tail(t) = s \o (<<Head(t)>> \o Tail(t))
  BY <1>1, <1>2, ConcatAssociative
<1> QED BY <1>1, <1>2, <1>3, <1>4

\* What is appended to the second of two sequences comes at the end of both.
LEMMA AppendLast ==
  ASSUME NEW S, NEW s \in Seq(S), NEW t \in Seq(S), NEW x \in S
  PROVE  s \o Append(t, x) = Append(s \o t, x)
<1>1. Append(t, x) = t \o <<x>> /\ <<x>> \in Seq(S)
  BY AppendIsConcat
<1>2. s \o t \in Seq(S)
  BY ConcatProperties
<1>3. Append(s \o t, x) = (s \o t) \o <<x>>
  BY <1>2, AppendIsConcat
<1> QED BY <1>1, <1>3, ConcatAssociative

\* What comes first is a prefix.
LEMMA FirstIsPrefix ==
  ASSUME NEW S, NEW s \in Seq(S), NEW t \in Seq(S)
  PROVE  SubSeq(s \o t, 1, Len(s)) = s /\ Len(s) <= Len(s \o t)
<1>1. Len(s) \in Nat /\ s \o t \in Seq(S) /\ Len(s) <= Len(s \o t)
  BY ConcatProperties, LenProperties
<1>2. CASE Len(s) = 0
  <2>1. s = <<>>
    BY <1>2
  <2> QED BY <1>1, <1>2, <2>1, SubSeqEmpty
<1>3. CASE Len(s) > 0
  <2>1. 1 \in 1..Len(s) /\ Len(s) \in 1..Len(s)
    BY <1>1, <1>3
  <2>2. SubSeq(s \o t, 1, Len(s)) = SubSeq(s, 1, Len(s))
    BY <2>1, SubSeqOfConcat1
  <2> QED BY <1>1, <2>2, SubSeqFull
<1> QED BY <1>1, <1>2, <1>3

\* Passing on in two parts, and at once.
Regrouped(o, a, b) == (o \o a) \o b = o \o (a \o b)

\* What is passed on in two parts arrives as it would in one.
LEMMA SplitFlow ==
  ASSUME NEW S, NEW o \in Seq(S), NEW a \in Seq(S), NEW b \in Seq(S)
  PROVE  o \o a \in Seq(S) /\ a \o b \in Seq(S) /\ Regrouped(o, a, b)
<1>1. Regrouped(o, a, b)
  BY ConcatAssociative DEF Regrouped
<1> QED BY <1>1, ConcatProperties

\* Something appended leaves no empty sequence.
LEMMA AppendNotEmpty ==
  ASSUME NEW S, NEW s \in Seq(S), NEW x
  PROVE  Append(s, x) # <<>>
<1>1. s \in Seq(S \cup {x}) /\ x \in S \cup {x}
  BY SeqMonotonic
<1> QED BY <1>1, AppendProperties
==============================================================================
