----------------------- MODULE InterpreterQueue_proofs -----------------------
(***************************************************************************)
(* Proofs about InterpreterQueue, for any number of states and any bounds  *)
(* of the priorities: each queue keeps what it has to keep, sumWeight      *)
(* keeps up with the list, and what dfsQueue and timeAfterNewCodeQueue do  *)
(* with a fork.                                                            *)
(***************************************************************************)
EXTENDS InterpreterQueue, SequenceTheorems, FiniteSetTheorems, TLAPS

(***************************************************************************)
(* Induction over the natural numbers, on the set of those for which a     *)
(* statement is true: otherwise there is a least one for which it is not.  *)
(***************************************************************************)
LEMMA SetInduction ==
    ASSUME NEW S, 0 \in S, \A n \in Nat : n \in S => n + 1 \in S
    PROVE  Nat \subseteq S
<1> SUFFICES ASSUME NEW n \in Nat, n \notin S PROVE FALSE
  OBVIOUS
<1> DEFINE Upto == [k \in Nat |-> 0 .. k]
           T == {Upto[k] : k \in Nat \ S}
<1>1. IsWellFoundedOn(StrictSubsetOrdering(Nat), FiniteSubsetsOf(Nat))
  BY FS_StrictSubsetOrderingWellFounded
<1>2. T \subseteq FiniteSubsetsOf(Nat)
  <2>1. \A k \in Nat : 0 .. k \in SUBSET Nat /\ IsFiniteSet(0 .. k)
    BY FS_Interval
  <2> QED
    BY <2>1 DEF FiniteSubsetsOf
<1>3. T # {}
  OBVIOUS
<1> HIDE DEF T
<1>4. PICK U \in T : \A V \in T : <<V, U>> \notin StrictSubsetOrdering(Nat)
  BY <1>1, <1>2, <1>3, WFMin
<1> USE DEF T
<1>5. PICK k \in Nat \ S : U = 0 .. k
  OBVIOUS
<1>6. k # 0 /\ k - 1 \in Nat /\ k - 1 \notin S
  <2>1. k # 0
    OBVIOUS
  <2>2. k - 1 \in Nat /\ (k - 1) + 1 = k
    BY <2>1
  <2> QED
    BY <2>1, <2>2
<1>7. 0 .. k - 1 \in T
  BY <1>6
<1>8. <<0 .. k - 1, U>> \in StrictSubsetOrdering(Nat)
  <2>1. 0 .. k - 1 \in SUBSET Nat /\ U \in SUBSET Nat /\ 0 .. k - 1 \subseteq U
    BY <1>5, <1>6
  <2>2. k \in U /\ k \notin 0 .. k - 1
    BY <1>5
  <2> QED
    BY <2>1, <2>2 DEF StrictSubsetOrdering
<1> QED
  BY <1>4, <1>7, <1>8

-----------------------------------------------------------------------------

(* Sums of weights *)

Weighted(S) == \A e \in S : e.weight \in Nat

\* The definition of Sums is a recursive function, which exists.
LEMMA SumsExist ==
    ASSUME NEW S, Weighted(S), NEW q \in Seq(S)
    PROVE  Sums(q) = [k \in 0 .. Len(q) |->
                        IF k = 0 THEN 0 ELSE Sums(q)[k - 1] + q[k].weight]
<1> DEFINE IsSum(s, n) == /\ s \in [0 .. n -> Nat] /\ s[0] = 0
                          /\ \A k \in 1 .. n : s[k] = s[k - 1] + q[k].weight
           T == {n \in Nat : n <= Len(q) => \E s \in [0 .. n -> Nat] : IsSum(s, n)}
<1>1. 0 \in T
  <2>1. IsSum([k \in 0 .. 0 |-> 0], 0)
    OBVIOUS
  <2> QED
    BY <2>1
<1>2. ASSUME NEW n \in Nat, n \in T PROVE n + 1 \in T
  <2> HIDE DEF IsSum
  <2> SUFFICES ASSUME n + 1 <= Len(q)
               PROVE  \E s \in [0 .. n + 1 -> Nat] : IsSum(s, n + 1)
    OBVIOUS
  <2> USE DEF IsSum
  <2>1. PICK s \in [0 .. n -> Nat] : IsSum(s, n)
    BY <1>2
  <2>2. n + 1 \in DOMAIN q /\ q[n + 1].weight \in Nat
    BY DEF Weighted
  <2> DEFINE t == [k \in 0 .. n + 1 |-> IF k = n + 1 THEN s[n] + q[n + 1].weight ELSE s[k]]
  <2>3. t \in [0 .. n + 1 -> Nat] /\ t[0] = 0
    BY <2>1, <2>2
  <2>4. ASSUME NEW k \in 1 .. n + 1 PROVE t[k] = t[k - 1] + q[k].weight
    <3>1. CASE k = n + 1
      BY <2>1, <3>1
    <3>2. CASE k # n + 1
      <4>1. k \in 1 .. n /\ k - 1 \in 0 .. n
        BY <3>2
      <4>2. t[k] = s[k] /\ t[k - 1] = s[k - 1]
        BY <4>1
      <4> QED
        BY <2>1, <4>1, <4>2
    <3> QED
      BY <3>1, <3>2
  <2>5. IsSum(t, n + 1)
    BY <2>3, <2>4
  <2> QED
    BY <2>3, <2>5
<1> HIDE DEF T
<1>3. Nat \subseteq T
  BY <1>1, <1>2, SetInduction
<1>4. PICK s \in [0 .. Len(q) -> Nat] : IsSum(s, Len(q))
  BY <1>3 DEF T
<1>5. s = [k \in 0 .. Len(q) |-> IF k = 0 THEN 0 ELSE s[k - 1] + q[k].weight]
  BY <1>4
<1> QED
  BY <1>5 DEF Sums

LEMMA SumsFacts ==
    ASSUME NEW S, Weighted(S), NEW q \in Seq(S)
    PROVE  /\ Sums(q)[0] = 0
           /\ \A k \in 1 .. Len(q) : Sums(q)[k] = Sums(q)[k - 1] + q[k].weight
           /\ \A k \in 0 .. Len(q) : Sums(q)[k] \in Nat
<1> DEFINE s == Sums(q)
           T == {n \in Nat : n <= Len(q) => s[n] \in Nat}
<1>1. /\ s[0] = 0
      /\ \A k \in 1 .. Len(q) : s[k] = s[k - 1] + q[k].weight
  <2>1. s = [k \in 0 .. Len(q) |-> IF k = 0 THEN 0 ELSE s[k - 1] + q[k].weight]
    BY SumsExist
  <2> HIDE DEF s
  <2> QED
    BY <2>1
<1> HIDE DEF s
<1>2. 0 \in T
  BY <1>1
<1>3. ASSUME NEW n \in Nat, n \in T PROVE n + 1 \in T
  <2> SUFFICES ASSUME n + 1 <= Len(q) PROVE s[n + 1] \in Nat
    OBVIOUS
  <2>1. s[n] \in Nat /\ q[n + 1].weight \in Nat /\ n + 1 \in 1 .. Len(q)
    BY <1>3 DEF Weighted
  <2>2. s[n + 1] = s[n] + q[n + 1].weight
    BY <1>1, <2>1
  <2> QED
    BY <2>1, <2>2
<1> HIDE DEF T
<1>4. Nat \subseteq T
  BY <1>2, <1>3, SetInduction
<1>5. \A k \in 0 .. Len(q) : s[k] \in Nat
  BY <1>4 DEF T
<1> QED
  BY <1>1, <1>5 DEF s

LEMMA SumOfShort ==
    ASSUME NEW S, Weighted(S)
    PROVE  /\ SumOf(<<>>) = 0
           /\ \A e \in S : SumOf(<<e>>) = e.weight
<1>1. SumOf(<<>>) = 0
  <2>1. <<>> \in Seq(S) /\ Len(<<>>) = 0
    OBVIOUS
  <2> QED
    BY <2>1, SumsFacts DEF SumOf
<1>2. ASSUME NEW e \in S PROVE SumOf(<<e>>) = e.weight
  <2> DEFINE q == <<e>>
  <2>1. q \in Seq(S) /\ Len(q) = 1 /\ q[1] = e
    OBVIOUS
  <2> HIDE DEF q
  <2>2. Sums(q)[1] = Sums(q)[1 - 1] + q[1].weight /\ Sums(q)[0] = 0
    BY <2>1, SumsFacts
  <2>3. e.weight \in Nat
    BY DEF Weighted
  <2> QED
    BY <2>1, <2>2, <2>3 DEF SumOf, q
<1> QED
  BY <1>1, <1>2

\* The sum over two lists, one behind the other.
LEMMA SumOfBoth ==
    ASSUME NEW S, Weighted(S), NEW p \in Seq(S), NEW q \in Seq(S)
    PROVE  SumOf(p \o q) = SumOf(p) + SumOf(q)
<1> DEFINE r == p \o q
           m == Len(p)
           T == {k \in Nat : k <= m => Sums(r)[k] = Sums(p)[k]}
           U == {k \in Nat : k <= Len(q) => Sums(r)[m + k] = Sums(p)[m] + Sums(q)[k]}
<1>1. /\ r \in Seq(S) /\ Len(r) = m + Len(q) /\ m \in Nat /\ Len(q) \in Nat
      /\ \A k \in 1 .. m : r[k] = p[k]
      /\ \A k \in 1 .. Len(q) : r[m + k] = q[k]
  OBVIOUS
<1> HIDE DEF r, m
<1>2. /\ Sums(r)[0] = 0 /\ Sums(p)[0] = 0 /\ Sums(q)[0] = 0
      /\ \A k \in 1 .. m + Len(q) : Sums(r)[k] = Sums(r)[k - 1] + r[k].weight
      /\ \A k \in 1 .. m : Sums(p)[k] = Sums(p)[k - 1] + p[k].weight
      /\ \A k \in 1 .. Len(q) : Sums(q)[k] = Sums(q)[k - 1] + q[k].weight
      /\ \A k \in 0 .. Len(q) : Sums(q)[k] \in Nat
      /\ \A k \in 0 .. m : Sums(p)[k] \in Nat
  BY <1>1, SumsFacts DEF m
<1>3. 0 \in T
  BY <1>2
<1>4. ASSUME NEW k \in Nat, k \in T PROVE k + 1 \in T
  <2> SUFFICES ASSUME k + 1 <= m PROVE Sums(r)[k + 1] = Sums(p)[k + 1]
    OBVIOUS
  <2>1. Sums(r)[k] = Sums(p)[k] /\ k + 1 \in 1 .. m /\ k + 1 \in 1 .. m + Len(q)
        /\ (k + 1) - 1 = k
    BY <1>1, <1>4
  <2> QED
    BY <1>1, <1>2, <2>1
<1>5. Nat \subseteq T
  <2> HIDE DEF T
  <2> QED
    BY <1>3, <1>4, SetInduction
<1>6. Sums(r)[m] = Sums(p)[m]
  BY <1>1, <1>5
<1>7. 0 \in U
  BY <1>1, <1>2, <1>6
<1>8. ASSUME NEW k \in Nat, k \in U PROVE k + 1 \in U
  <2> SUFFICES ASSUME k + 1 <= Len(q)
               PROVE  Sums(r)[m + (k + 1)] = Sums(p)[m] + Sums(q)[k + 1]
    OBVIOUS
  <2>1. /\ Sums(r)[m + k] = Sums(p)[m] + Sums(q)[k]
        /\ k + 1 \in 1 .. Len(q) /\ m + (k + 1) \in 1 .. m + Len(q)
        /\ (k + 1) - 1 = k /\ (m + (k + 1)) - 1 = m + k
    BY <1>1, <1>8
  <2>2. Sums(r)[m + (k + 1)] = Sums(r)[m + k] + q[k + 1].weight
    BY <1>1, <1>2, <2>1
  <2>3. Sums(q)[k + 1] = Sums(q)[k] + q[k + 1].weight
    BY <1>2, <2>1
  <2>4. Sums(p)[m] \in Nat /\ Sums(q)[k] \in Nat /\ q[k + 1].weight \in Nat
    <3>1. m \in 0 .. m /\ k \in 0 .. Len(q)
      BY <1>1
    <3>2. q[k + 1] \in S
      BY <2>1
    <3> QED
      BY <1>2, <3>1, <3>2 DEF Weighted
  <2> QED
    BY <2>1, <2>2, <2>3, <2>4
<1>9. Nat \subseteq U
  <2> HIDE DEF U
  <2> QED
    BY <1>7, <1>8, SetInduction
<1>10. Sums(r)[m + Len(q)] = Sums(p)[m] + Sums(q)[Len(q)]
  BY <1>1, <1>9
<1> QED
  BY <1>1, <1>10 DEF SumOf, r, m
-----------------------------------------------------------------------------

(* Lists of entries *)

StatesOf(q) == {q[k].state : k \in DOMAIN q}
Distinct(q) == \A j, k \in DOMAIN q : q[j].state = q[k].state => j = k

LEMMA BothFacts ==
    ASSUME NEW S, NEW p \in Seq(S), NEW q \in Seq(S)
    PROVE  /\ p \o q \in Seq(S) /\ Len(p \o q) = Len(p) + Len(q)
           /\ StatesOf(p \o q) = StatesOf(p) \cup StatesOf(q)
           /\ Distinct(p) /\ Distinct(q) /\ StatesOf(p) \cap StatesOf(q) = {}
                => Distinct(p \o q)
<1> DEFINE r == p \o q
           m == Len(p)
           n == Len(q)
<1>1. /\ r \in Seq(S) /\ Len(r) = m + n /\ m \in Nat /\ n \in Nat
      /\ \A k \in 1 .. m : r[k] = p[k]
      /\ \A k \in 1 .. n : r[m + k] = q[k]
      /\ DOMAIN p = 1 .. m /\ DOMAIN q = 1 .. n /\ DOMAIN r = 1 .. m + n
  OBVIOUS
<1> HIDE DEF r, m, n
<1>2. \A k \in DOMAIN r : \/ k \in DOMAIN p /\ r[k] = p[k]
                          \/ k - m \in DOMAIN q /\ r[k] = q[k - m] /\ k \notin DOMAIN p
  <2> SUFFICES ASSUME NEW k \in 1 .. m + n
               PROVE  \/ k \in 1 .. m /\ r[k] = p[k]
                      \/ k - m \in 1 .. n /\ r[k] = q[k - m] /\ k \notin 1 .. m
    BY <1>1
  <2>1. CASE k <= m
    BY <1>1, <2>1
  <2>2. CASE k > m
    <3>1. k - m \in 1 .. n /\ m + (k - m) = k
      BY <1>1, <2>2
    <3> QED
      BY <1>1, <2>2, <3>1
  <2> QED
    BY <1>1, <2>1, <2>2
<1>3. StatesOf(r) \subseteq StatesOf(p) \cup StatesOf(q)
  BY <1>2 DEF StatesOf
<1>4. StatesOf(p) \subseteq StatesOf(r)
  BY <1>1 DEF StatesOf
<1>5. StatesOf(q) \subseteq StatesOf(r)
  <2>1. \A k \in DOMAIN q : m + k \in DOMAIN r /\ r[m + k] = q[k]
    BY <1>1
  <2> QED
    BY <2>1 DEF StatesOf
<1>6. ASSUME Distinct(p), Distinct(q), StatesOf(p) \cap StatesOf(q) = {}
      PROVE  Distinct(r)
  <2> SUFFICES ASSUME NEW j \in DOMAIN r, NEW k \in DOMAIN r, r[j].state = r[k].state
               PROVE  j = k
    BY DEF Distinct
  <2>1. \A i \in DOMAIN p : p[i].state \in StatesOf(p)
    BY DEF StatesOf
  <2>2. \A i \in DOMAIN q : q[i].state \in StatesOf(q)
    BY DEF StatesOf
  <2>3. CASE j \in DOMAIN p
    BY <1>2, <1>6, <2>1, <2>2, <2>3 DEF Distinct
  <2>4. CASE k \in DOMAIN p
    BY <1>2, <1>6, <2>1, <2>2, <2>4 DEF Distinct
  <2>5. CASE j \notin DOMAIN p /\ k \notin DOMAIN p
    <3>1. j - m = k - m
      BY <1>2, <1>6, <2>5 DEF Distinct
    <3> QED
      BY <1>1, <3>1
  <2> QED
    BY <2>3, <2>4, <2>5
<1> QED
  BY <1>1, <1>3, <1>4, <1>5, <1>6 DEF r, m, n

LEMMA SplitFacts ==
    ASSUME NEW S, NEW q \in Seq(S), NEW n \in 0 .. Len(q)
    PROVE  LET front == SubSeq(q, 1, n)
               back == SubSeq(q, n + 1, Len(q))
           IN  /\ front \in Seq(S) /\ Len(front) = n
               /\ back \in Seq(S) /\ Len(back) = Len(q) - n
               /\ \A i \in 1 .. n : front[i] = q[i]
               /\ \A i \in 1 .. Len(q) - n : back[i] = q[n + i]
               /\ front \o back = q
<1> DEFINE front == SubSeq(q, 1, n)
           back == SubSeq(q, n + 1, Len(q))
<1>1. Len(q) \in Nat /\ n \in Nat /\ n <= Len(q) /\ \A i \in 1 .. Len(q) : q[i] \in S
  OBVIOUS
<1>2. /\ front \in Seq(S)
      /\ Len(front) = IF 1 <= n THEN n - 1 + 1 ELSE 0
      /\ \A i \in 1 .. n - 1 + 1 : front[i] = q[1 + i - 1]
  <2>1. \A i \in 1 .. n : q[i] \in S
    BY <1>1
  <2>2. 1 \in Int /\ n \in Int
    BY <1>1
  <2> QED
    BY <2>1, <2>2, SubSeqProperties
<1>3. /\ back \in Seq(S)
      /\ Len(back) = IF n + 1 <= Len(q) THEN Len(q) - (n + 1) + 1 ELSE 0
      /\ \A i \in 1 .. Len(q) - (n + 1) + 1 : back[i] = q[n + 1 + i - 1]
  <2>1. \A i \in n + 1 .. Len(q) : q[i] \in S
    BY <1>1
  <2>2. n + 1 \in Int /\ Len(q) \in Int
    BY <1>1
  <2> QED
    BY <2>1, <2>2, SubSeqProperties
<1>4. front \o back = q
  <2>1. 1 \in 1 .. Len(q) + 1 /\ n \in 1 - 1 .. Len(q) /\ Len(q) \in n .. Len(q)
    BY <1>1
  <2>2. SubSeq(q, 1, n) \o SubSeq(q, n + 1, Len(q)) = SubSeq(q, 1, Len(q))
    BY <2>1, ConcatAdjacentSubSeq
  <2> QED
    BY <2>2, SubSeqFull
<1> HIDE DEF front, back
<1>5. Len(front) = n /\ Len(back) = Len(q) - n
  BY <1>1, <1>2, <1>3
<1>6. ASSUME NEW i \in 1 .. n PROVE front[i] = q[i]
  <2>1. n - 1 + 1 = n /\ 1 + i - 1 = i
    BY <1>1
  <2> QED
    BY <1>2, <2>1
<1>7. ASSUME NEW i \in 1 .. Len(q) - n PROVE back[i] = q[n + i]
  <2>1. Len(q) - (n + 1) + 1 = Len(q) - n /\ n + 1 + i - 1 = n + i
    BY <1>1
  <2> QED
    BY <1>3, <2>1
<1> QED
  BY <1>2, <1>3, <1>4, <1>5, <1>6, <1>7 DEF front, back

\* The list without its entry at k, in another order.
LEMMA RotatedFacts ==
    ASSUME NEW S, Weighted(S), NEW q \in Seq(S), NEW k \in DOMAIN q
    PROVE  /\ Rotated(q, k) \in Seq(S)
           /\ Len(Rotated(q, k)) = Len(q) - 1
           /\ SumOf(Rotated(q, k)) = SumOf(q) - q[k].weight
           /\ SumOf(Rotated(q, k)) \in Nat /\ q[k] \in S /\ q[k].weight \in Nat
           /\ StatesOf(q) = StatesOf(Rotated(q, k)) \cup {q[k].state}
           /\ Distinct(q) => /\ Distinct(Rotated(q, k))
                             /\ q[k].state \notin StatesOf(Rotated(q, k))
<1> DEFINE n == Len(q)
           front == SubSeq(q, 1, k - 1)
           rest == SubSeq(q, k, n)
           back == SubSeq(q, k + 1, n)
<1>1. n \in Nat /\ k \in 1 .. n /\ k \in 0 .. n /\ k - 1 \in 0 .. n /\ (k - 1) + 1 = k
  OBVIOUS
<1>2. /\ front \in Seq(S) /\ Len(front) = k - 1
      /\ \A i \in 1 .. k - 1 : front[i] = q[i]
  BY <1>1, SplitFacts
<1>3. /\ back \in Seq(S) /\ Len(back) = n - k
      /\ \A i \in 1 .. n - k : back[i] = q[k + i]
  BY <1>1, SplitFacts
<1>4. rest = <<q[k]>> \o back /\ front \o rest = q
  <2>1. k \in 1 .. Len(q) /\ Len(q) \in k .. Len(q)
    BY <1>1
  <2>2. SubSeq(q, k, Len(q)) = <<q[k]>> \o SubSeq(q, k + 1, Len(q))
    BY <2>1, SubSeqRecursiveFirst
  <2>3. SubSeq(q, 1, k - 1) \o SubSeq(q, (k - 1) + 1, Len(q)) = q
    BY <1>1, SplitFacts
  <2> QED
    BY <1>1, <2>2, <2>3
<1>5. q[k] \in S /\ q[k].weight \in Nat /\ <<q[k]>> \in Seq(S)
  BY <1>1 DEF Weighted
<1>6. Rotated(q, k) = back \o front
  BY DEF Rotated
<1> HIDE DEF front, rest, back, n
<1>7. rest \in Seq(S)
  BY <1>3, <1>4, <1>5, BothFacts
<1>8. /\ SumOf(q) = SumOf(front) + (q[k].weight + SumOf(back))
      /\ SumOf(Rotated(q, k)) = SumOf(back) + SumOf(front)
  <2>1. SumOf(q) = SumOf(front) + SumOf(rest)
    BY <1>2, <1>4, <1>7, SumOfBoth
  <2>2. SumOf(rest) = SumOf(<<q[k]>>) + SumOf(back)
    BY <1>3, <1>4, <1>5, SumOfBoth
  <2>3. SumOf(<<q[k]>>) = q[k].weight
    BY <1>5, SumOfShort
  <2>4. SumOf(Rotated(q, k)) = SumOf(back) + SumOf(front)
    BY <1>2, <1>3, <1>6, SumOfBoth
  <2> QED
    BY <2>1, <2>2, <2>3, <2>4
<1>9. SumOf(front) \in Nat /\ SumOf(back) \in Nat
  <2>1. Len(front) \in 0 .. Len(front) /\ Len(back) \in 0 .. Len(back)
    BY <1>2, <1>3
  <2> QED
    BY <1>2, <1>3, <2>1, SumsFacts DEF SumOf
<1>10. /\ StatesOf(q) = StatesOf(front) \cup StatesOf(rest)
       /\ StatesOf(rest) = StatesOf(<<q[k]>>) \cup StatesOf(back)
       /\ StatesOf(Rotated(q, k)) = StatesOf(back) \cup StatesOf(front)
  <2>1. StatesOf(front \o rest) = StatesOf(front) \cup StatesOf(rest)
    BY <1>2, <1>7, BothFacts
  <2>2. StatesOf(<<q[k]>> \o back) = StatesOf(<<q[k]>>) \cup StatesOf(back)
    BY <1>3, <1>5, BothFacts
  <2>3. StatesOf(back \o front) = StatesOf(back) \cup StatesOf(front)
    BY <1>2, <1>3, BothFacts
  <2> QED
    BY <1>4, <1>6, <2>1, <2>2, <2>3, Zenon
<1>11. StatesOf(<<q[k]>>) = {q[k].state}
  BY DEF StatesOf
<1>12. Len(Rotated(q, k)) = Len(q) - 1 /\ Rotated(q, k) \in Seq(S)
  <2>1. Rotated(q, k) \in Seq(S) /\ Len(Rotated(q, k)) = Len(back) + Len(front)
    BY <1>2, <1>3, <1>6, BothFacts
  <2> QED
    BY <1>1, <1>2, <1>3, <2>1 DEF n
<1>13. ASSUME Distinct(q)
       PROVE  Distinct(Rotated(q, k)) /\ q[k].state \notin StatesOf(Rotated(q, k))
  <2>1. /\ DOMAIN front = 1 .. k - 1 /\ DOMAIN back = 1 .. n - k /\ DOMAIN q = 1 .. n
    BY <1>1, <1>2, <1>3 DEF n
  <2>2. Distinct(front)
    BY <1>1, <1>2, <1>13, <2>1 DEF Distinct
  <2>3. Distinct(back)
    <3> SUFFICES ASSUME NEW i \in DOMAIN back, NEW j \in DOMAIN back,
                        back[i].state = back[j].state
                 PROVE  i = j
      BY DEF Distinct
    <3>1. k + i \in DOMAIN q /\ k + j \in DOMAIN q /\ back[i] = q[k + i] /\ back[j] = q[k + j]
      BY <1>1, <1>3, <2>1
    <3>2. k + i = k + j
      BY <1>13, <3>1 DEF Distinct
    <3> QED
      BY <1>1, <2>1, <3>2
  <2>4. \A i \in DOMAIN front : i \in DOMAIN q /\ i < k /\ front[i] = q[i]
    BY <1>1, <1>2, <2>1
  <2>5. \A i \in DOMAIN back : k + i \in DOMAIN q /\ k + i > k /\ back[i] = q[k + i]
    <3> SUFFICES ASSUME NEW i \in 1 .. n - k
                 PROVE  k + i \in 1 .. n /\ k + i > k /\ back[i] = q[k + i]
      BY <2>1
    <3>1. k + i \in 1 .. n /\ k + i > k
      BY <1>1
    <3> QED
      BY <1>3, <3>1
  <2>6. StatesOf(back) \cap StatesOf(front) = {}
    <3> SUFFICES ASSUME NEW i \in DOMAIN back, NEW j \in DOMAIN front,
                        back[i].state = front[j].state
                 PROVE  FALSE
      BY DEF StatesOf
    <3>1. k + i = j
      BY <1>13, <2>4, <2>5 DEF Distinct
    <3> QED
      BY <1>1, <2>1, <2>4, <2>5, <3>1
  <2>7. Distinct(Rotated(q, k))
    BY <1>2, <1>3, <1>6, <2>2, <2>3, <2>6, BothFacts
  <2>8. q[k].state \notin StatesOf(front)
    <3> SUFFICES ASSUME NEW j \in DOMAIN front, q[k].state = front[j].state PROVE FALSE
      BY DEF StatesOf
    <3>1. j \in DOMAIN q /\ k \in DOMAIN q /\ j < k /\ q[k].state = q[j].state
      BY <1>1, <2>1, <2>4
    <3>2. k = j
      BY <1>13, <3>1 DEF Distinct
    <3> QED
      BY <1>1, <3>1, <3>2
  <2>9. q[k].state \notin StatesOf(back)
    <3> SUFFICES ASSUME NEW j \in DOMAIN back, q[k].state = back[j].state PROVE FALSE
      BY DEF StatesOf
    <3>1. k = k + j
      BY <1>13, <2>5 DEF Distinct
    <3> QED
      BY <1>1, <2>1, <3>1
  <2> QED
    BY <1>10, <2>7, <2>8, <2>9
<1> QED
  BY <1>5, <1>8, <1>9, <1>10, <1>11, <1>12, <1>13

-----------------------------------------------------------------------------

(* What add() does *)

LEMMA DfsWeights == policy = "dfs" => \A a : Weights(a) = {0}
<1>1. policy = "dfs" => /\ policy \in {"dfs", "bfs"}
                        /\ policy # "random"
  OBVIOUS
<1> QED
  BY <1>1, Zenon DEF Weights

LEMMA DfsAdd ==
    ASSUME policy = "dfs", NEW q, NEW e
    PROVE  Add(q, e) = <<e>> \o q
<1>1. policy # "bfs" /\ policy # "timeAfterNewCode" /\ policy \notin Randoms
  BY DEF Randoms
<1> QED
  BY <1>1, Zenon DEF Add

LEMMA DfsCandidates == policy = "dfs" => Candidates = {1}
BY DEF Candidates, Randoms

LEMMA SecondOfBoth ==
    ASSUME NEW S, NEW p \in Seq(S), NEW r \in Seq(S)
    PROVE  \A k \in 1 .. Len(r) : (p \o r)[Len(p) + k] = r[k]
<1> SUFFICES ASSUME NEW k \in 1 .. Len(r)
             PROVE  (p \o r)[Len(p) + k] = r[k]
  OBVIOUS
<1> DEFINE n == Len(p)
           i == n + k
           both == p \o r
<1>1. n \in Nat /\ Len(r) \in Nat
  OBVIOUS
<1>2. \A j \in 1 .. n + Len(r) : both[j] = IF j <= n THEN p[j] ELSE r[j - n]
  BY ConcatProperties
<1> HIDE DEF n, both
<1>3. i \in 1 .. n + Len(r) /\ ~ (i <= n) /\ i - n = k
  BY <1>1
<1> HIDE DEF i
<1>4. both[i] = r[k]
  BY <1>2, <1>3
<1> QED
  BY <1>4 DEF n, both, i

\* The list r has the entries of q, and e.
IsWith(r, S, q, e) ==
    /\ r \in Seq(S) /\ Len(r) = Len(q) + 1
    /\ SumOf(r) = SumOf(q) + e.weight
    /\ StatesOf(r) = StatesOf(q) \cup {e.state}
    /\ Distinct(q) /\ e.state \notin StatesOf(q) => Distinct(r)
    /\ \E k \in DOMAIN r : r[k] = e

LEMMA InsertFacts ==
    ASSUME NEW S, Weighted(S), NEW q \in Seq(S), NEW e \in S, NEW n \in 0 .. Len(q)
    PROVE  IsWith(Insert(q, n, e), S, q, e)
<1> DEFINE front == SubSeq(q, 1, n)
           back == SubSeq(q, n + 1, Len(q))
           one == <<e>>
           part == front \o one
           all == part \o back
<1>1. /\ front \in Seq(S) /\ Len(front) = n
      /\ back \in Seq(S) /\ Len(back) = Len(q) - n
      /\ front \o back = q
  BY SplitFacts
<1>2. /\ one \in Seq(S) /\ Len(one) = 1 /\ one[1] = e /\ SumOf(one) = e.weight
      /\ StatesOf(one) = {e.state} /\ Distinct(one)
  BY SumOfShort DEF StatesOf, Distinct
<1>3. Insert(q, n, e) = all
  BY DEF Insert
<1>4. /\ Distinct(q) => /\ Distinct(front) /\ Distinct(back)
                        /\ StatesOf(front) \cap StatesOf(back) = {}
  <2> SUFFICES ASSUME Distinct(q)
               PROVE  /\ Distinct(front) /\ Distinct(back)
                      /\ StatesOf(front) \cap StatesOf(back) = {}
    OBVIOUS
  <2>1. /\ n \in Nat /\ Len(q) \in Nat /\ n <= Len(q) /\ DOMAIN q = 1 .. Len(q)
        /\ DOMAIN front = 1 .. n /\ DOMAIN back = 1 .. Len(q) - n
        /\ \A i \in 1 .. n : front[i] = q[i]
        /\ \A i \in 1 .. Len(q) - n : back[i] = q[n + i]
    <3>1. /\ \A i \in 1 .. n : front[i] = q[i]
          /\ \A i \in 1 .. Len(q) - n : back[i] = q[n + i]
      BY SplitFacts
    <3> HIDE DEF front, back
    <3> QED
      BY <1>1, <3>1
  <2> HIDE DEF front, back
  <2>2. \A i \in DOMAIN front : i \in DOMAIN q /\ i <= n /\ front[i] = q[i]
    BY <2>1
  <2>3. \A i \in DOMAIN back : n + i \in DOMAIN q /\ n + i > n /\ back[i] = q[n + i]
    <3> SUFFICES ASSUME NEW i \in 1 .. Len(q) - n
                 PROVE  n + i \in 1 .. Len(q) /\ n + i > n /\ back[i] = q[n + i]
      BY <2>1
    <3>1. n + i \in 1 .. Len(q) /\ n + i > n
      BY <2>1
    <3> QED
      BY <2>1, <3>1
  <2>4. Distinct(front)
    BY <2>2 DEF Distinct
  <2>5. Distinct(back)
    <3> SUFFICES ASSUME NEW i \in DOMAIN back, NEW j \in DOMAIN back,
                        back[i].state = back[j].state
                 PROVE  i = j
      BY DEF Distinct
    <3>1. n + i = n + j
      BY <2>3 DEF Distinct
    <3> QED
      BY <2>1, <3>1
  <2>6. StatesOf(front) \cap StatesOf(back) = {}
    <3> SUFFICES ASSUME NEW i \in DOMAIN front, NEW j \in DOMAIN back,
                        front[i].state = back[j].state
                 PROVE  FALSE
      BY DEF StatesOf
    <3>1. i = n + j
      BY <2>2, <2>3 DEF Distinct
    <3> QED
      BY <2>1, <2>2, <2>3, <3>1
  <2> QED
    BY <2>4, <2>5, <2>6
<1> HIDE DEF front, back, one
<1>5. /\ part \in Seq(S) /\ Len(part) = n + 1 /\ SumOf(part) = SumOf(front) + e.weight
      /\ StatesOf(part) = StatesOf(front) \cup {e.state}
      /\ Distinct(front) /\ e.state \notin StatesOf(front) => Distinct(part)
      /\ part[n + 1] = e
  <2>1. part[n + 1] = e
    <3>1. front \in Seq(S) /\ one \in Seq(S)
      BY <1>1, <1>2
    <3>2. \A k \in 1 .. Len(one) : (front \o one)[Len(front) + k] = one[k]
      BY <3>1, SecondOfBoth, Zenon
    <3>3. 1 \in 1 .. Len(one)
      BY <1>2
    <3> QED
      BY <1>1, <1>2, <3>2, <3>3, Zenon
  <2>2. /\ part \in Seq(S) /\ Len(part) = Len(front) + Len(one)
        /\ StatesOf(part) = StatesOf(front) \cup StatesOf(one)
        /\ Distinct(front) /\ Distinct(one) /\ StatesOf(front) \cap StatesOf(one) = {}
             => Distinct(part)
    BY <1>1, <1>2, BothFacts
  <2>3. SumOf(part) = SumOf(front) + SumOf(one)
    BY <1>1, <1>2, SumOfBoth
  <2> HIDE DEF part
  <2> QED
    BY <1>1, <1>2, <2>1, <2>2, <2>3
<1>6. \E k \in DOMAIN all : all[k] = e
  <2> HIDE DEF part
  <2>1. n + 1 \in DOMAIN part /\ DOMAIN part \subseteq DOMAIN all
        /\ \A i \in DOMAIN part : all[i] = part[i]
    BY <1>1, <1>5
  <2> HIDE DEF all
  <2> QED
    BY <1>5, <2>1
<1> HIDE DEF part
<1>7. /\ all \in Seq(S) /\ Len(all) = Len(part) + Len(back)
      /\ StatesOf(all) = StatesOf(part) \cup StatesOf(back)
      /\ Distinct(part) /\ Distinct(back) /\ StatesOf(part) \cap StatesOf(back) = {}
           => Distinct(all)
  BY <1>1, <1>5, BothFacts
<1>8. SumOf(all) = SumOf(part) + SumOf(back)
  BY <1>1, <1>5, SumOfBoth
<1>9. StatesOf(q) = StatesOf(front) \cup StatesOf(back)
  <2>1. StatesOf(front \o back) = StatesOf(front) \cup StatesOf(back)
    BY <1>1, BothFacts
  <2> QED
    BY <1>1, <2>1
<1>10. SumOf(q) = SumOf(front) + SumOf(back)
  BY <1>1, SumOfBoth
<1>11. SumOf(front) \in Nat /\ SumOf(back) \in Nat /\ e.weight \in Nat
  <2>1. Len(front) \in 0 .. Len(front) /\ Len(back) \in 0 .. Len(back)
    BY <1>1
  <2> QED
    BY <1>1, <2>1, SumsFacts DEF SumOf, Weighted
<1> HIDE DEF all
<1>12. Len(all) = Len(q) + 1 /\ SumOf(all) = SumOf(q) + e.weight
  BY <1>1, <1>5, <1>7, <1>8, <1>10, <1>11
<1>13. StatesOf(all) = StatesOf(q) \cup {e.state}
  BY <1>5, <1>7, <1>9
<1>14. ASSUME Distinct(q), e.state \notin StatesOf(q) PROVE Distinct(all)
  BY <1>4, <1>5, <1>7, <1>9, <1>14
<1> QED
  BY <1>3, <1>6, <1>7, <1>12, <1>13, <1>14 DEF IsWith

LEMMA PlaceFacts ==
    ASSUME NEW S, NEW q \in Seq(S), NEW P \in SUBSET DOMAIN q
    PROVE  Cardinality(P) \in 0 .. Len(q)
<1>1. Len(q) \in Nat /\ DOMAIN q = 1 .. Len(q)
  OBVIOUS
<1>2. IsFiniteSet(1 .. Len(q)) /\ Cardinality(1 .. Len(q)) = Len(q)
  <2>1. \A n \in Nat : Cardinality(1 .. n) = n /\ IsFiniteSet(1 .. n)
    <3> TAKE n \in Nat
    <3>1. Cardinality(1 .. n) = (IF 1 > n THEN 0 ELSE n - 1 + 1) /\ IsFiniteSet(1 .. n)
      BY FS_Interval
    <3>2. CASE 1 > n
      BY <3>1, <3>2
    <3>3. CASE ~ (1 > n)
      <4>1. n - 1 + 1 = n
        OBVIOUS
      <4> QED
        BY <3>1, <3>3, <4>1
    <3> QED
      BY <3>2, <3>3
  <2> QED
    BY <1>1, <2>1
<1>3. Cardinality(P) \in Nat /\ Cardinality(P) <= Len(q)
  BY <1>1, <1>2, FS_Subset, FS_CardinalityType
<1> QED
  BY <1>1, <1>3

\* add() of a queue puts the state at some place, or loses it.
LEMMA AddPlaces ==
    ASSUME policy \in Standards \cup Randoms, NEW S, NEW q \in Seq(S), NEW e \in S
    PROVE  \/ \E n \in 0 .. Len(q) : Add(q, e) = Insert(q, n, e)
           \/ /\ policy = "timeAfterNewCode" /\ Add(q, e) = q
              /\ \E k \in DOMAIN q : q[k].weight = e.weight
<1>1. Len(q) \in Nat /\ 0 \in 0 .. Len(q) /\ Len(q) \in 0 .. Len(q)
  OBVIOUS
<1>2. Insert(q, 0, e) = <<e>> \o q
  <2>1. SubSeq(q, 1, 0) = <<>>
    BY SubSeqEmpty
  <2>2. SubSeq(q, 0 + 1, Len(q)) = q
    BY SubSeqFull
  <2>3. <<>> \o <<e>> = <<e>>
    <3>1. <<e>> \in Seq(S)
      OBVIOUS
    <3> QED
      BY <3>1, ConcatEmptySeq
  <2> QED
    BY <2>1, <2>2, <2>3 DEF Insert
<1>3. Insert(q, Len(q), e) = Append(q, e)
  <2>1. SubSeq(q, 1, Len(q)) = q
    BY SubSeqFull
  <2>2. SubSeq(q, Len(q) + 1, Len(q)) = <<>>
    BY <1>1, SubSeqEmpty
  <2>3. q \o <<e>> = Append(q, e)
    BY AppendIsConcat
  <2>4. Append(q, e) \o <<>> = Append(q, e)
    <3>1. Append(q, e) \in Seq(S)
      OBVIOUS
    <3> QED
      BY <3>1, ConcatEmptySeq
  <2> QED
    BY <2>1, <2>2, <2>3, <2>4 DEF Insert
<1>4. CASE policy = "dfs"
  <2>1. Add(q, e) = <<e>> \o q
    BY <1>4, DfsAdd
  <2> QED
    BY <1>1, <1>2, <2>1
<1>5. CASE policy = "bfs" \/ policy \in Randoms
  <2>1. policy # "dfs" /\ policy # "timeAfterNewCode"
    BY <1>5 DEF Randoms
  <2>2. Add(q, e) = Append(q, e)
    BY <1>5, <2>1, Zenon DEF Add
  <2> QED
    BY <1>1, <1>3, <2>2
<1>6. CASE policy = "timeAfterNewCode"
  <2>1. policy # "dfs" /\ policy # "bfs" /\ policy \notin Randoms
    BY <1>6 DEF Randoms
  <2>2. Add(q, e) = InOrder(q, e)
    BY <1>6, <2>1, Zenon DEF Add
  <2>3. Cardinality({k \in DOMAIN q : q[k].weight < e.weight}) \in 0 .. Len(q)
    BY PlaceFacts
  <2> QED
    BY <1>6, <2>2, <2>3, Zenon DEF InOrder
<1> QED
  BY <1>4, <1>5, <1>6 DEF Standards

HasWeight(q, w) == \E k \in DOMAIN q : q[k].weight = w

LEMMA AddFacts ==
    ASSUME policy \in Standards \cup Randoms,
           NEW S, Weighted(S), NEW q \in Seq(S), NEW e \in S
    PROVE  /\ Add(q, e) \in Seq(S)
           /\ Len(Add(q, e)) \in {Len(q), Len(q) + 1}
           /\ SumOf(Add(q, e)) \in Nat /\ SumOf(Add(q, e)) <= SumOf(q) + e.weight
           /\ policy # "timeAfterNewCode" =>
                /\ Len(Add(q, e)) = Len(q) + 1
                /\ SumOf(Add(q, e)) = SumOf(q) + e.weight
                /\ StatesOf(Add(q, e)) = StatesOf(q) \cup {e.state}
                /\ Distinct(q) /\ e.state \notin StatesOf(q) => Distinct(Add(q, e))
           /\ HasWeight(Add(q, e), e.weight)
<1>1. SumOf(q) \in Nat /\ e.weight \in Nat
  <2>1. Len(q) \in 0 .. Len(q)
    OBVIOUS
  <2> QED
    BY <2>1, SumsFacts DEF SumOf, Weighted
<1>2. CASE \E n \in 0 .. Len(q) : Add(q, e) = Insert(q, n, e)
  <2>1. PICK n \in 0 .. Len(q) : Add(q, e) = Insert(q, n, e)
    BY <1>2
  <2> DEFINE r == Add(q, e)
  <2>2. IsWith(r, S, q, e)
    BY <2>1, InsertFacts
  <2>3. /\ r \in Seq(S)
        /\ Len(r) = Len(q) + 1
        /\ SumOf(r) = SumOf(q) + e.weight
        /\ StatesOf(r) = StatesOf(q) \cup {e.state}
        /\ Distinct(q) /\ e.state \notin StatesOf(q) => Distinct(r)
        /\ \E k \in DOMAIN r : r[k] = e
    BY <2>2, Zenon DEF IsWith
  <2> HIDE DEF r
  <2>4. HasWeight(r, e.weight)
    BY <2>3 DEF HasWeight
  <2>5. /\ r \in Seq(S) /\ Len(r) \in {Len(q), Len(q) + 1}
        /\ SumOf(r) \in Nat /\ SumOf(r) <= SumOf(q) + e.weight
    BY <1>1, <2>3
  <2> QED
    BY <2>3, <2>4, <2>5, Zenon DEF r
<1>3. CASE /\ policy = "timeAfterNewCode" /\ Add(q, e) = q
           /\ \E k \in DOMAIN q : q[k].weight = e.weight
  <2>1. SumOf(q) <= SumOf(q) + e.weight
    BY <1>1
  <2> QED
    BY <1>1, <1>3, <2>1, Zenon DEF HasWeight
<1> QED
  BY <1>2, <1>3, AddPlaces

\* A priority that is in the set of timeAfterNewCodeQueue is not added again.
LEMMA AddAgain ==
    ASSUME policy = "timeAfterNewCode", NEW q, NEW e,
           HasWeight(q, e.weight)
    PROVE  Add(q, e) = q
<1>1. policy # "dfs" /\ policy # "bfs" /\ policy \notin Randoms
  BY DEF Randoms
<1>2. Add(q, e) = InOrder(q, e)
  BY <1>1, Zenon DEF Add
<1> QED
  BY <1>2, Zenon DEF InOrder, HasWeight

-----------------------------------------------------------------------------

(* What get() may take *)

\* The first k entries of the list do not weigh less than fewer of them.
LEMMA SumsBefore ==
    ASSUME NEW S, Weighted(S), NEW q \in Seq(S), NEW k \in 0 .. Len(q)
    PROVE  \A j \in 0 .. k : Sums(q)[j] <= Sums(q)[k]
<1> DEFINE n == Len(q)
           T == {i \in Nat : i <= k => Sums(q)[k - i] <= Sums(q)[k]}
<1>1. /\ n \in Nat /\ k \in Nat /\ k <= n
      /\ \A i \in 1 .. n : Sums(q)[i] = Sums(q)[i - 1] + q[i].weight
      /\ \A i \in 0 .. n : Sums(q)[i] \in Nat
      /\ \A i \in 1 .. n : q[i].weight \in Nat
  BY SumsFacts DEF Weighted
<1> HIDE DEF n
<1>2. 0 \in T
  <2>1. k - 0 = k /\ k \in 0 .. n
    BY <1>1
  <2> QED
    BY <1>1, <2>1
<1>3. ASSUME NEW i \in Nat, i \in T PROVE i + 1 \in T
  <2> SUFFICES ASSUME i + 1 <= k PROVE Sums(q)[k - (i + 1)] <= Sums(q)[k]
    OBVIOUS
  <2>1. /\ k - i \in 1 .. n /\ k - (i + 1) = (k - i) - 1
        /\ (k - i) - 1 \in 0 .. n /\ k \in 0 .. n /\ k - i \in 0 .. n
    BY <1>1
  <2>2. Sums(q)[k - i] <= Sums(q)[k]
    BY <1>1, <1>3
  <2>3. Sums(q)[k - i] = Sums(q)[(k - i) - 1] + q[k - i].weight
    BY <1>1, <2>1
  <2>4. /\ Sums(q)[k - i] \in Nat /\ Sums(q)[(k - i) - 1] \in Nat /\ Sums(q)[k] \in Nat
        /\ q[k - i].weight \in Nat
    BY <1>1, <2>1
  <2> QED
    BY <2>1, <2>2, <2>3, <2>4
<1>4. Nat \subseteq T
  <2> HIDE DEF T
  <2> QED
    BY <1>2, <1>3, SetInduction
<1>5. ASSUME NEW j \in 0 .. k PROVE Sums(q)[j] <= Sums(q)[k]
  <2>1. k - j \in Nat /\ k - j <= k /\ k - (k - j) = j
    BY <1>1
  <2>2. k - j \in T
    BY <1>4, <2>1
  <2> QED
    BY <2>1, <2>2
<1> QED
  BY <1>5

LEMMA SelectedIs ==
    ASSUME NEW S, Weighted(S), NEW q \in Seq(S), NEW random \in Nat,
           NEW k \in DOMAIN q, random <= Sums(q)[k],
           \A j \in 1 .. k - 1 : Sums(q)[j] < random
    PROVE  Selected(q, random) = k
<1> DEFINE P(i) == /\ random <= Sums(q)[i]
                   /\ \A j \in 1 .. i - 1 : Sums(q)[j] < random
<1>1. /\ Len(q) \in Nat /\ DOMAIN q = 1 .. Len(q)
      /\ \A i \in 0 .. Len(q) : Sums(q)[i] \in Nat
  BY SumsFacts
<1>2. ASSUME NEW i \in DOMAIN q, P(i) PROVE i = k
  <2>1. i \in 1 .. Len(q) /\ k \in 1 .. Len(q)
    BY <1>1
  <2>2. Sums(q)[i] \in Nat /\ Sums(q)[k] \in Nat
    BY <1>1, <2>1
  <2>3. ~ (i < k)
    <3> SUFFICES ASSUME i < k PROVE FALSE
      OBVIOUS
    <3>1. i \in 1 .. k - 1
      BY <1>1, <2>1
    <3>2. Sums(q)[i] < random
      BY <3>1
    <3> QED
      BY <1>2, <2>2, <3>2
  <2>4. ~ (k < i)
    <3> SUFFICES ASSUME k < i PROVE FALSE
      OBVIOUS
    <3>1. k \in 1 .. i - 1
      BY <1>1, <2>1
    <3>2. Sums(q)[k] < random
      BY <1>2, <3>1
    <3> QED
      BY <2>2, <3>2
  <2> QED
    BY <1>1, <2>1, <2>3, <2>4
<1>3. P(k)
  OBVIOUS
<1> HIDE DEF P
<1>4. (CHOOSE i \in DOMAIN q : P(i)) = k
  BY <1>2, <1>3
<1> QED
  BY <1>4 DEF Selected, P

\* A random number below the sum of the weights selects a state of the list.
LEMMA SelectedFacts ==
    ASSUME NEW S, Weighted(S), NEW q \in Seq(S), NEW random \in 0 .. SumOf(q) - 1
    PROVE  Selected(q, random) \in DOMAIN q
<1> DEFINE n == Len(q)
           P(k) == k \in 1 .. n /\ random <= Sums(q)[k]
           First(k) == P(k) /\ \A j \in 1 .. k - 1 : Sums(q)[j] < random
           T == {i \in Nat : (\E k \in 0 .. i : P(k)) => \E k \in 0 .. i : First(k)}
<1>1. /\ n \in Nat /\ DOMAIN q = 1 .. n
      /\ \A i \in 0 .. n : Sums(q)[i] \in Nat
      /\ Sums(q)[0] = 0 /\ SumOf(q) = Sums(q)[n] /\ random \in Nat
      /\ random <= Sums(q)[n] /\ n # 0
  <2>1. /\ n \in Nat /\ DOMAIN q = 1 .. n
        /\ \A i \in 0 .. n : Sums(q)[i] \in Nat
        /\ Sums(q)[0] = 0 /\ SumOf(q) = Sums(q)[n]
    BY SumsFacts DEF SumOf
  <2> HIDE DEF n
  <2>2. SumOf(q) \in Nat
    BY <2>1
  <2> QED
    BY <2>1, <2>2
<1> HIDE DEF n
<1>2. 0 \in T
  <2>1. \A k \in 0 .. 0 : ~ P(k)
    OBVIOUS
  <2> QED
    BY <2>1
<1>3. ASSUME NEW i \in Nat, i \in T PROVE i + 1 \in T
  <2> SUFFICES ASSUME NEW k \in 0 .. i + 1, P(k) PROVE \E m \in 0 .. i + 1 : First(m)
    OBVIOUS
  <2>1. CASE \E m \in 0 .. i : P(m)
    <3>1. PICK m \in 0 .. i : First(m)
      BY <1>3, <2>1
    <3>2. m \in 0 .. i + 1
      OBVIOUS
    <3> HIDE DEF First
    <3> QED
      BY <3>1, <3>2
  <2>2. CASE ~ \E m \in 0 .. i : P(m)
    <3>1. k = i + 1
      <4>1. k \notin 0 .. i
        BY <2>2
      <4> QED
        BY <4>1
    <3>2. ASSUME NEW j \in 1 .. k - 1 PROVE Sums(q)[j] < random
      <4>1. j \in 0 .. i /\ j \in 1 .. n /\ j \in 0 .. n
        BY <1>1, <3>1
      <4>2. ~ P(j)
        BY <2>2, <4>1
      <4>3. Sums(q)[j] \in Nat
        BY <1>1, <4>1
      <4> QED
        BY <1>1, <4>1, <4>2, <4>3
    <3>3. First(k)
      BY <3>2
    <3> HIDE DEF First
    <3> QED
      BY <3>3
  <2> QED
    BY <2>1, <2>2
<1>4. Nat \subseteq T
  <2> HIDE DEF T
  <2> QED
    BY <1>2, <1>3, SetInduction
<1>5. P(n) /\ n \in 0 .. n
  BY <1>1
<1>6. PICK k \in 0 .. n : First(k)
  <2>1. n \in T
    BY <1>1, <1>4
  <2> HIDE DEF P, First
  <2> QED
    BY <1>5, <2>1
<1>7. k \in DOMAIN q /\ random <= Sums(q)[k] /\ \A j \in 1 .. k - 1 : Sums(q)[j] < random
  BY <1>1, <1>6
<1>8. Selected(q, random) = k
  BY <1>1, <1>7, SelectedIs
<1> QED
  BY <1>7, <1>8

\* When no weight is less than 2, every state of the list is selected by some number.
LEMMA EachIsSelected ==
    ASSUME NEW S, Weighted(S), NEW q \in Seq(S), NEW k \in DOMAIN q, q[k].weight > 1
    PROVE  \E random \in 0 .. SumOf(q) - 1 : Selected(q, random) = k
<1> DEFINE n == Len(q)
           random == Sums(q)[k - 1] + 1
<1>1. /\ n \in Nat /\ k \in 1 .. n /\ k \in 0 .. n /\ k - 1 \in 0 .. n /\ n \in 0 .. n
      /\ \A i \in 0 .. n : Sums(q)[i] \in Nat
      /\ Sums(q)[k] = Sums(q)[k - 1] + q[k].weight
      /\ SumOf(q) = Sums(q)[n] /\ q[k].weight \in Nat
  <2>1. k \in 1 .. n /\ n \in Nat /\ q[k] \in S
    OBVIOUS
  <2>2. /\ \A i \in 0 .. n : Sums(q)[i] \in Nat
        /\ \A i \in 1 .. n : Sums(q)[i] = Sums(q)[i - 1] + q[i].weight
    BY SumsFacts
  <2> HIDE DEF n
  <2> QED
    BY <2>1, <2>2 DEF Weighted, SumOf, n
<1>2. Sums(q)[k] \in Nat /\ Sums(q)[k - 1] \in Nat /\ Sums(q)[n] \in Nat
  BY <1>1
<1>3. Sums(q)[k] <= Sums(q)[n]
  BY <1>1, SumsBefore
<1>4. \A j \in 0 .. k - 1 : Sums(q)[j] <= Sums(q)[k - 1]
  BY <1>1, SumsBefore
<1> HIDE DEF n
<1>5. random \in Nat /\ random \in 0 .. SumOf(q) - 1 /\ random <= Sums(q)[k]
  BY <1>1, <1>2, <1>3
<1>6. ASSUME NEW j \in 1 .. k - 1 PROVE Sums(q)[j] < random
  <2>1. j \in 0 .. k - 1 /\ j \in 0 .. n
    BY <1>1
  <2>2. Sums(q)[j] <= Sums(q)[k - 1] /\ Sums(q)[j] \in Nat
    BY <1>1, <1>4, <2>1
  <2> QED
    BY <1>2, <2>2
<1> HIDE DEF random
<1>7. Selected(q, random) = k
  BY <1>5, <1>6, SelectedIs
<1> QED
  BY <1>5, <1>7

-----------------------------------------------------------------------------

(* The inductive invariant *)

Weighs == IF policy \in Randoms THEN MinPriority .. MaxPriority ELSE 0 .. MaxPriority

EntriesOf(n) == [state : 1 .. n, weight : Weighs]

(***************************************************************************)
(* What a list is worth as the content of the queue: its states are among  *)
(* the first n, its weights add up to at most sum (for sumWeight counts    *)
(* what timeAfterNewCodeQueue did not take, too), where it selects at      *)
(* random to just sum, and where no state gets lost, each of the size      *)
(* states that wait is at one place in it.                                 *)
(***************************************************************************)
IsQueue(q, n, sum, waiting, size) ==
    /\ q \in Seq(EntriesOf(n))
    /\ SumOf(q) \in Nat /\ sum \in Nat /\ SumOf(q) <= sum
    /\ policy \in Randoms => SumOf(q) = sum
    /\ policy # "timeAfterNewCode" =>
          StatesOf(q) = waiting /\ Distinct(q) /\ Len(q) = size

QueueInv ==
    /\ TypeOK
    /\ IsQueue(entries, created, sumWeight, (1 .. created) \ ended,
               created - Cardinality(ended))

LEMMA SeqOfMore ==
    ASSUME NEW S, NEW T, S \subseteq T, NEW q \in Seq(S)
    PROVE  q \in Seq(T)
OBVIOUS

LEMMA EntriesFacts ==
    ASSUME NEW n \in Nat
    PROVE  /\ Weighted(EntriesOf(n)) /\ EntriesOf(n) \subseteq EntriesOf(n + 1)
           /\ EntriesOf(n) \subseteq [state : 1 .. n, weight : 0 .. MaxPriority]
           /\ \A s \in 1 .. n, w \in Weighs : /\ Entry(s, w) \in EntriesOf(n)
                                              /\ Entry(s, w).state = s
                                              /\ Entry(s, w).weight = w
           /\ policy \in Randoms => \A e \in EntriesOf(n) : e.weight > 1
<1>1. /\ Weighs \subseteq 0 .. MaxPriority /\ Weighs \subseteq Nat
      /\ policy \in Randoms => \A w \in Weighs : w > 1
  BY PrioritiesAssumption DEF Weighs
<1>2. 1 .. n \subseteq 1 .. n + 1
  OBVIOUS
<1> QED
  BY <1>1, <1>2 DEF EntriesOf, Weighted, Entry

LEMMA WeightsFacts ==
    ASSUME policy \in Standards \cup Randoms, NEW a \in 0 .. MaxAge
    PROVE  Weights(a) \subseteq Weighs
<1>1. /\ MaxPriority - a \in MinPriority .. MaxPriority
      /\ MinPriority \in MinPriority .. MaxPriority
      /\ MaxPriority \in MinPriority .. MaxPriority
      /\ MinPriority .. MaxPriority \subseteq 0 .. MaxPriority /\ 0 \in 0 .. MaxPriority
  BY PrioritiesAssumption DEF MaxAge
<1>2. CASE policy \in {"dfs", "bfs"}
  <2>1. Weights(a) = {0} /\ policy \notin Randoms
    BY <1>2, Zenon DEF Weights, Randoms
  <2> QED
    BY <1>1, <2>1 DEF Weighs
<1>3. CASE policy = "random"
  <2>1. policy \notin {"dfs", "bfs"} /\ policy \in Randoms
    BY <1>3 DEF Randoms
  <2>2. Weights(a) = {MinPriority, MaxPriority}
    BY <1>3, <2>1, Zenon DEF Weights
  <2> QED
    BY <1>1, <2>1, <2>2 DEF Weighs
<1>4. CASE policy \notin {"dfs", "bfs"} /\ policy # "random"
  <2>1. Weights(a) = {MaxPriority - a}
    BY <1>4, Zenon DEF Weights, NewCodePriority
  <2> QED
    BY <1>1, <2>1 DEF Weighs
<1> QED
  BY <1>2, <1>3, <1>4

LEMMA CandidatesFacts ==
    ASSUME QueueInv
    PROVE  /\ entries # <<>> => Candidates \subseteq DOMAIN entries
           /\ policy \in Randoms => Candidates = DOMAIN entries
<1> DEFINE S == EntriesOf(created)
<1>1. /\ entries \in Seq(S) /\ created \in Nat
      /\ policy \in Randoms => sumWeight = SumOf(entries)
  BY DEF QueueInv, IsQueue, TypeOK, States
<1>2. /\ Weighted(S)
      /\ policy \in Randoms => \A e \in S : e.weight > 1
  BY <1>1, EntriesFacts
<1> HIDE DEF S
<1>3. ASSUME policy \in Randoms PROVE Candidates = DOMAIN entries
  <2>1. Candidates = {Selected(entries, random) : random \in 0 .. SumOf(entries) - 1}
    BY <1>1, <1>3 DEF Candidates
  <2>2. \A random \in 0 .. SumOf(entries) - 1 : Selected(entries, random) \in DOMAIN entries
    BY <1>1, <1>2, SelectedFacts
  <2>3. ASSUME NEW k \in DOMAIN entries
        PROVE  \E random \in 0 .. SumOf(entries) - 1 : Selected(entries, random) = k
    <3>1. entries[k].weight > 1
      BY <1>1, <1>2, <1>3
    <3> QED
      BY <1>1, <1>2, <3>1, EachIsSelected
  <2> QED
    BY <2>1, <2>2, <2>3
<1>4. ASSUME policy \notin Randoms, entries # <<>> PROVE Candidates \subseteq DOMAIN entries
  BY <1>1, <1>4 DEF Candidates
<1> QED
  BY <1>3, <1>4

LEMMA QueueInit == Init => QueueInv
<1> SUFFICES ASSUME Init PROVE QueueInv
  OBVIOUS
<1>1. /\ policy \in Standards \cup Randoms /\ created = 1 /\ ended = {}
      /\ age = [s \in States |-> 0] /\ last = 1
  BY DEF Init
<1>2. 0 \in 0 .. MaxAge
  BY PrioritiesAssumption DEF MaxAge
<1>3. PICK w \in Weighs : entries = <<Entry(1, w)>> /\ sumWeight = w
  <2>1. PICK w \in Weights(0) : entries = <<Entry(1, w)>> /\ sumWeight = w
    BY Zenon DEF Init
  <2>2. w \in Weighs
    BY <1>1, <1>2, <2>1, WeightsFacts
  <2> QED
    BY <2>1, <2>2
<1> DEFINE e == Entry(1, w)
<1>4. /\ e \in EntriesOf(1) /\ e.state = 1 /\ e.weight = w
      /\ Weighted(EntriesOf(1)) /\ w \in Nat
      /\ EntriesOf(1) \subseteq [state : 1 .. 1, weight : 0 .. MaxPriority]
  <2>1. 1 \in Nat /\ 1 \in 1 .. 1
    OBVIOUS
  <2>2. w \in Nat
    BY PrioritiesAssumption DEF Weighs
  <2> QED
    BY <2>1, <2>2, EntriesFacts
<1> HIDE DEF e
<1>5. /\ entries = <<e>> /\ entries \in Seq(EntriesOf(1)) /\ Len(entries) = 1
      /\ entries[1] = e /\ DOMAIN entries = {1}
  BY <1>3, <1>4 DEF e
<1>6. SumOf(entries) = w
  BY <1>4, <1>5, SumOfShort
<1>7. TypeOK
  <2>1. entries \in Seq([state : 1 .. created, weight : 0 .. MaxPriority])
    BY <1>1, <1>4, <1>5, SeqOfMore
  <2>2. created \in States /\ ended \subseteq 1 .. created /\ last \in 1 .. created
    BY <1>1, MaxStatesAssumption DEF States
  <2>3. age \in [States -> 0 .. MaxAge]
    BY <1>1, <1>2
  <2> QED
    BY <1>1, <1>3, <1>4, <2>1, <2>2, <2>3 DEF TypeOK
<1>8. StatesOf(entries) = (1 .. created) \ ended
  BY <1>1, <1>4, <1>5 DEF StatesOf
<1>9. Distinct(entries)
  BY <1>5 DEF Distinct
<1>10. Len(entries) = created - Cardinality(ended)
  BY <1>1, <1>5, FS_EmptySet
<1>11. /\ SumOf(entries) \in Nat /\ sumWeight \in Nat /\ SumOf(entries) <= sumWeight
       /\ SumOf(entries) = sumWeight
  BY <1>3, <1>4, <1>6
<1>12. entries \in Seq(EntriesOf(created))
  BY <1>1, <1>5
<1> QED
  BY <1>7, <1>8, <1>9, <1>10, <1>11, <1>12 DEF QueueInv, IsQueue

LEMMA TakenFacts ==
    ASSUME QueueInv, entries # <<>>, NEW k \in Candidates
    PROVE  LET s == entries[k].state
               waiting == (1 .. created) \ ended
               size == created - Cardinality(ended)
           IN  /\ s \in 1 .. created /\ s \in States
               /\ policy # "timeAfterNewCode" => s \in waiting
               /\ IsQueue(Rotated(entries, k), created, WeightLeft(k),
                          waiting \ {s}, size - 1)
               /\ Len(Rotated(entries, k)) = Len(entries) - 1
<1> DEFINE S == EntriesOf(created)
           s == entries[k].state
           w == entries[k].weight
           q == Rotated(entries, k)
           waiting == (1 .. created) \ ended
           size == created - Cardinality(ended)
<1>1. /\ entries \in Seq(S) /\ created \in Nat /\ created \in States
      /\ SumOf(entries) \in Nat /\ sumWeight \in Nat /\ SumOf(entries) <= sumWeight
      /\ policy \in Randoms => SumOf(entries) = sumWeight
      /\ policy # "timeAfterNewCode" =>
            StatesOf(entries) = waiting /\ Distinct(entries) /\ Len(entries) = size
  BY DEF QueueInv, IsQueue, TypeOK, States
<1>2. k \in DOMAIN entries
  BY CandidatesFacts
<1>3. Weighted(S)
  BY <1>1, EntriesFacts
<1>4. /\ q \in Seq(S)
      /\ Len(q) = Len(entries) - 1
      /\ SumOf(q) = SumOf(entries) - w
      /\ SumOf(q) \in Nat /\ entries[k] \in S /\ w \in Nat
      /\ StatesOf(entries) = StatesOf(q) \cup {s}
      /\ Distinct(entries) => Distinct(q) /\ s \notin StatesOf(q)
  BY <1>1, <1>2, <1>3, RotatedFacts
<1>5. s \in 1 .. created /\ s \in States
  <2>1. entries[k].state \in 1 .. created
    BY <1>4, Zenon DEF EntriesOf
  <2>2. 1 .. created \subseteq States
    BY <1>1, MaxStatesAssumption DEF States
  <2> QED
    BY <2>1, <2>2
<1>6. WeightLeft(k) = sumWeight - w
  BY DEF WeightLeft
<1> HIDE DEF S, s, w, q, waiting, size
<1>7. /\ WeightLeft(k) \in Nat /\ SumOf(q) <= WeightLeft(k)
      /\ policy \in Randoms => SumOf(q) = WeightLeft(k)
  BY <1>1, <1>4, <1>6
<1>8. policy # "timeAfterNewCode" =>
        /\ s \in waiting /\ StatesOf(q) = waiting \ {s}
        /\ Distinct(q) /\ Len(q) = size - 1
  BY <1>1, <1>4
<1>9. IsQueue(q, created, WeightLeft(k), waiting \ {s}, size - 1)
  BY <1>4, <1>7, <1>8 DEF IsQueue, S
<1> QED
  BY <1>4, <1>5, <1>8, <1>9 DEF s, q, waiting, size

LEMMA AddKeeps ==
    ASSUME policy \in Standards \cup Randoms, NEW n \in Nat, NEW q, NEW sum, NEW waiting,
           NEW size, IsQueue(q, n, sum, waiting, size), NEW s \in 1 .. n, NEW w \in Weighs,
           policy # "timeAfterNewCode" => s \notin waiting
    PROVE  IsQueue(Add(q, Entry(s, w)), n, sum + w, waiting \cup {s}, size + 1)
<1> DEFINE S == EntriesOf(n)
           e == Entry(s, w)
           r == Add(q, e)
<1>1. /\ q \in Seq(S) /\ SumOf(q) \in Nat /\ sum \in Nat /\ SumOf(q) <= sum
      /\ policy \in Randoms => SumOf(q) = sum
      /\ policy # "timeAfterNewCode" =>
            StatesOf(q) = waiting /\ Distinct(q) /\ Len(q) = size
  BY DEF IsQueue
<1>2. Weighted(S) /\ e \in S /\ e.state = s /\ e.weight = w
  BY EntriesFacts
<1>3. w \in Nat
  BY PrioritiesAssumption DEF Weighs
<1>4. policy \in Randoms => policy # "timeAfterNewCode"
  BY DEF Randoms
<1> HIDE DEF S, e
<1>5. /\ r \in Seq(S)
      /\ SumOf(r) \in Nat /\ SumOf(r) <= SumOf(q) + e.weight
      /\ policy # "timeAfterNewCode" =>
           /\ Len(r) = Len(q) + 1
           /\ SumOf(r) = SumOf(q) + e.weight
           /\ StatesOf(r) = StatesOf(q) \cup {e.state}
           /\ Distinct(q) /\ e.state \notin StatesOf(q) => Distinct(r)
  BY <1>1, <1>2, AddFacts
<1> HIDE DEF r
<1>6. sum + w \in Nat /\ SumOf(r) <= sum + w
  BY <1>1, <1>2, <1>3, <1>5
<1>7. policy \in Randoms => SumOf(r) = sum + w
  BY <1>1, <1>2, <1>4, <1>5
<1>8. policy # "timeAfterNewCode" =>
        StatesOf(r) = waiting \cup {s} /\ Distinct(r) /\ Len(r) = size + 1
  BY <1>1, <1>2, <1>5
<1>9. IsQueue(r, n, sum + w, waiting \cup {s}, size + 1)
  BY <1>5, <1>6, <1>7, <1>8 DEF IsQueue, S
<1> QED
  BY <1>9 DEF r, e

\* The invariant after a step, from the parts of the step.
LEMMA InvAfter ==
    ASSUME policy \in Standards \cup Randoms, policy' = policy,
           created' \in States, ended' \subseteq 1 .. created', last' \in 1 .. created',
           age' \in [States -> 0 .. MaxAge],
           IsQueue(entries', created', sumWeight', (1 .. created') \ ended',
                   created' - Cardinality(ended'))
    PROVE  QueueInv'
<1>1. IsQueue(entries, created, sumWeight, (1 .. created) \ ended,
              created - Cardinality(ended))'
  BY Zenon DEF IsQueue, EntriesOf, Weighs
<1>2. entries' \in Seq([state : 1 .. created', weight : 0 .. MaxPriority])
  <2>1. created' \in Nat
    BY DEF States
  <2>2. EntriesOf(created') \subseteq [state : 1 .. created', weight : 0 .. MaxPriority]
    BY <2>1, EntriesFacts
  <2>3. entries' \in Seq(EntriesOf(created'))
    BY DEF IsQueue
  <2> QED
    BY <2>2, <2>3, SeqOfMore
<1>3. sumWeight' \in Nat
  BY DEF IsQueue
<1>4. TypeOK'
  BY <1>2, <1>3 DEF TypeOK
<1> QED
  BY <1>1, <1>4 DEF QueueInv

LEMMA AgeFacts ==
    ASSUME NEW a \in 0 .. MaxAge
    PROVE  Grown(a) \in 0 .. MaxAge /\ 0 \in 0 .. MaxAge
BY PrioritiesAssumption DEF Grown, MaxAge

\* The number of states that have not ended, before and after one ends.
LEMMA SizeFacts ==
    ASSUME NEW n \in Nat, NEW P \in SUBSET (1 .. n)
    PROVE  /\ Cardinality(P) \in Nat /\ n - Cardinality(P) \in Int
           /\ \A s \in (1 .. n) \ P :
                 n - Cardinality(P \cup {s}) = (n - Cardinality(P)) - 1
<1>1. IsFiniteSet(P)
  <2>1. IsFiniteSet(1 .. n)
    BY FS_Interval
  <2> QED
    BY <2>1, FS_Subset
<1>2. Cardinality(P) \in Nat
  BY <1>1, FS_CardinalityType
<1>3. \A s \in (1 .. n) \ P : Cardinality(P \cup {s}) = Cardinality(P) + 1
  BY <1>1, FS_AddElement
<1> QED
  BY <1>2, <1>3

LEMMA QueueVisit == QueueInv /\ entries # <<>> /\ Visit => QueueInv'
<1> SUFFICES ASSUME QueueInv, entries # <<>>, Visit PROVE QueueInv'
  OBVIOUS
<1>1. PICK k \in Candidates, newCode \in BOOLEAN :
        LET s == entries[k].state
            a == IF newCode THEN 0 ELSE Grown(age[s])
        IN  \E w \in Weights(a) :
              /\ entries' = Add(Rotated(entries, k), Entry(s, w))
              /\ sumWeight' = WeightLeft(k) + w
              /\ age' = [age EXCEPT ![s] = a]
              /\ last' = s
              /\ UNCHANGED <<policy, created, ended>>
  BY Zenon DEF Visit
<1> DEFINE s == entries[k].state
           a == IF newCode THEN 0 ELSE Grown(age[s])
           q == Rotated(entries, k)
           waiting == (1 .. created) \ ended
           size == created - Cardinality(ended)
<1>2. PICK w \in Weights(a) :
        /\ entries' = Add(q, Entry(s, w))
        /\ sumWeight' = WeightLeft(k) + w
        /\ age' = [age EXCEPT ![s] = a]
        /\ last' = s
        /\ UNCHANGED <<policy, created, ended>>
  BY <1>1, Zenon
<1>3. /\ s \in 1 .. created /\ s \in States
      /\ policy # "timeAfterNewCode" => s \in waiting
      /\ IsQueue(q, created, WeightLeft(k), waiting \ {s}, size - 1)
  BY TakenFacts
<1>4. /\ policy \in Standards \cup Randoms /\ created \in Nat /\ created \in States
      /\ age \in [States -> 0 .. MaxAge] /\ ended \subseteq 1 .. created
  BY DEF QueueInv, TypeOK, States
<1> HIDE DEF s, q
<1>5. a \in 0 .. MaxAge
  BY <1>3, <1>4, AgeFacts
<1> HIDE DEF a
<1>6. w \in Weighs
  BY <1>2, <1>4, <1>5, WeightsFacts
<1>7. IsQueue(entries', created, sumWeight', (waiting \ {s}) \cup {s}, (size - 1) + 1)
  BY <1>2, <1>3, <1>4, <1>6, AddKeeps
<1>8. IsQueue(entries', created', sumWeight', (1 .. created') \ ended',
              created' - Cardinality(ended'))
  <2>1. CASE policy = "timeAfterNewCode"
    BY <1>2, <1>7, <2>1 DEF IsQueue
  <2>2. CASE policy # "timeAfterNewCode"
    <3>1. (waiting \ {s}) \cup {s} = waiting
      BY <1>3, <2>2
    <3>2. (size - 1) + 1 = size
      BY <1>4, SizeFacts
    <3> QED
      BY <1>2, <1>7, <3>1, <3>2
  <2> QED
    BY <2>1, <2>2
<1>9. age' \in [States -> 0 .. MaxAge] /\ last' \in 1 .. created'
  BY <1>2, <1>3, <1>4, <1>5
<1> QED
  BY <1>2, <1>4, <1>8, <1>9, InvAfter

LEMMA QueueFork == QueueInv /\ entries # <<>> /\ Fork => QueueInv'
<1> SUFFICES ASSUME QueueInv, entries # <<>>, Fork PROVE QueueInv'
  OBVIOUS
<1>1. created < MaxStates
  BY DEF Fork
<1>2. PICK k \in Candidates :
        LET s == entries[k].state
            a == Grown(age[s])
        IN  \E w, v \in Weights(a) :
              /\ created' = created + 1
              /\ entries' = Add(Add(Rotated(entries, k), Entry(created + 1, v)),
                                Entry(s, w))
              /\ sumWeight' = WeightLeft(k) + v + w
              /\ age' = [age EXCEPT ![s] = a, ![created + 1] = a]
              /\ last' = s
              /\ UNCHANGED <<policy, ended>>
  BY Zenon DEF Fork
<1> DEFINE s == entries[k].state
           a == Grown(age[s])
           q == Rotated(entries, k)
           n == created + 1
           waiting == (1 .. created) \ ended
           size == created - Cardinality(ended)
<1>3. PICK w \in Weights(a), v \in Weights(a) :
        /\ created' = n
        /\ entries' = Add(Add(q, Entry(n, v)), Entry(s, w))
        /\ sumWeight' = WeightLeft(k) + v + w
        /\ age' = [age EXCEPT ![s] = a, ![n] = a]
        /\ last' = s
        /\ UNCHANGED <<policy, ended>>
  BY <1>2, Zenon
<1>4. /\ s \in 1 .. created /\ s \in States
      /\ policy # "timeAfterNewCode" => s \in waiting
      /\ IsQueue(q, created, WeightLeft(k), waiting \ {s}, size - 1)
  BY TakenFacts
<1>5. /\ policy \in Standards \cup Randoms /\ created \in Nat /\ created \in States
      /\ age \in [States -> 0 .. MaxAge] /\ ended \subseteq 1 .. created
  BY DEF QueueInv, TypeOK, States
<1>6. n \in Nat /\ n \in States /\ n \in 1 .. n /\ 1 .. n = (1 .. created) \cup {n}
  BY <1>1, <1>5, MaxStatesAssumption DEF States
<1>7. s \in 1 .. n /\ s # n /\ n \notin waiting /\ n \notin ended
  BY <1>4, <1>5
<1>8. size \in Int
  BY <1>5, SizeFacts
<1> HIDE DEF s, q, n, size
<1>9. a \in 0 .. MaxAge
  BY <1>4, <1>5, AgeFacts
<1> HIDE DEF a
<1>10. w \in Weighs /\ v \in Weighs
  BY <1>3, <1>5, <1>9, WeightsFacts
<1>11. IsQueue(q, n, WeightLeft(k), waiting \ {s}, size - 1)
  <2>1. EntriesOf(created) \subseteq EntriesOf(n)
    BY <1>5, EntriesFacts DEF n
  <2>2. q \in Seq(EntriesOf(created))
    BY <1>4 DEF IsQueue
  <2>3. q \in Seq(EntriesOf(n))
    BY <2>1, <2>2, SeqOfMore
  <2> QED
    BY <1>4, <2>3, Zenon DEF IsQueue
<1>12. IsQueue(Add(q, Entry(n, v)), n, WeightLeft(k) + v, (waiting \ {s}) \cup {n},
               (size - 1) + 1)
  BY <1>5, <1>6, <1>7, <1>10, <1>11, AddKeeps
<1>13. IsQueue(entries', n, sumWeight', ((waiting \ {s}) \cup {n}) \cup {s},
               ((size - 1) + 1) + 1)
  <2>1. policy # "timeAfterNewCode" => s \notin (waiting \ {s}) \cup {n}
    BY <1>7
  <2> QED
    BY <1>3, <1>5, <1>6, <1>7, <1>10, <1>12, <2>1, AddKeeps
<1>14. IsQueue(entries', created', sumWeight', (1 .. created') \ ended',
               created' - Cardinality(ended'))
  <2>1. CASE policy = "timeAfterNewCode"
    BY <1>3, <1>13, <2>1 DEF IsQueue
  <2>2. CASE policy # "timeAfterNewCode"
    <3>1. ((waiting \ {s}) \cup {n}) \cup {s} = (1 .. n) \ ended
      BY <1>4, <1>6, <1>7, <2>2
    <3>2. ((size - 1) + 1) + 1 = n - Cardinality(ended)
      <4>1. ((size - 1) + 1) + 1 = size + 1
        BY <1>8
      <4>2. size + 1 = n - Cardinality(ended)
        BY <1>5, SizeFacts DEF size, n
      <4> QED
        BY <4>1, <4>2
    <3> QED
      BY <1>3, <1>13, <3>1, <3>2
  <2> QED
    BY <2>1, <2>2
<1>15. age' \in [States -> 0 .. MaxAge] /\ last' \in 1 .. created'
  BY <1>3, <1>4, <1>5, <1>7, <1>9
<1>16. created' \in States /\ ended' \subseteq 1 .. created'
  BY <1>3, <1>5, <1>6
<1> QED
  BY <1>3, <1>5, <1>14, <1>15, <1>16, InvAfter

LEMMA QueueEnd == QueueInv /\ entries # <<>> /\ End => QueueInv'
<1> SUFFICES ASSUME QueueInv, entries # <<>>, End PROVE QueueInv'
  OBVIOUS
<1>1. PICK k \in Candidates :
        /\ entries' = Rotated(entries, k)
        /\ sumWeight' = WeightLeft(k)
        /\ ended' = ended \cup {entries[k].state}
        /\ last' = entries[k].state
        /\ UNCHANGED <<policy, created, age>>
  BY Zenon DEF End
<1> DEFINE s == entries[k].state
           waiting == (1 .. created) \ ended
           size == created - Cardinality(ended)
<1>2. /\ s \in 1 .. created
      /\ policy # "timeAfterNewCode" => s \in waiting
      /\ IsQueue(entries', created, sumWeight', waiting \ {s}, size - 1)
  BY <1>1, TakenFacts
<1>3. /\ policy \in Standards \cup Randoms /\ created \in Nat /\ created \in States
      /\ age \in [States -> 0 .. MaxAge] /\ ended \subseteq 1 .. created
  BY DEF QueueInv, TypeOK, States
<1>4. created' = created /\ ended' = ended \cup {s} /\ policy' = policy /\ last' = s
      /\ age' = age
  BY <1>1
<1> HIDE DEF s
<1>5. IsQueue(entries', created', sumWeight', (1 .. created') \ ended',
              created' - Cardinality(ended'))
  <2>1. CASE policy = "timeAfterNewCode"
    BY <1>2, <1>4, <2>1 DEF IsQueue
  <2>2. CASE policy # "timeAfterNewCode"
    <3>1. waiting \ {s} = (1 .. created') \ ended'
      BY <1>4
    <3>2. size - 1 = created' - Cardinality(ended')
      BY <1>2, <1>3, <1>4, <2>2, SizeFacts
    <3> QED
      BY <1>2, <1>4, <3>1, <3>2
  <2> QED
    BY <2>1, <2>2
<1> QED
  BY <1>2, <1>3, <1>4, <1>5, InvAfter

LEMMA QueueNext == QueueInv /\ [Next]_vars => QueueInv'
<1> SUFFICES ASSUME QueueInv, [Next]_vars PROVE QueueInv'
  OBVIOUS
<1>1. CASE UNCHANGED vars
  <2>1. /\ policy' = policy /\ created' = created /\ ended' = ended /\ entries' = entries
        /\ sumWeight' = sumWeight /\ age' = age /\ last' = last
    BY <1>1 DEF vars
  <2>2. /\ policy \in Standards \cup Randoms /\ created \in States
        /\ ended \subseteq 1 .. created /\ last \in 1 .. created
        /\ age \in [States -> 0 .. MaxAge]
        /\ IsQueue(entries, created, sumWeight, (1 .. created) \ ended,
                   created - Cardinality(ended))
    BY DEF QueueInv, TypeOK
  <2> QED
    BY <2>1, <2>2, InvAfter
<1>2. CASE entries # <<>> /\ Visit
  BY <1>2, QueueVisit
<1>3. CASE entries # <<>> /\ Fork
  BY <1>3, QueueFork
<1>4. CASE entries # <<>> /\ End
  BY <1>4, QueueEnd
<1> QED
  BY <1>1, <1>2, <1>3, <1>4, Zenon DEF Next

LEMMA QueueInvariant == Spec => []QueueInv
BY QueueInit, QueueNext, PTL DEF Spec

-----------------------------------------------------------------------------

(***************************************************************************)
(* For any number of states and any priorities, the variables of a queue   *)
(* have their types: a weight is one of its priorities, and sumWeight never *)
(* falls below zero.                                                       *)
(***************************************************************************)
THEOREM TypeCorrect == Spec => []TypeOK
<1>1. QueueInv => TypeOK
  BY DEF QueueInv
<1> QED
  BY <1>1, QueueInvariant, PTL

(***************************************************************************)
(* Every queue but timeAfterNewCodeQueue has each state whose path has not *)
(* ended, and once: no path is lost and none is explored twice.            *)
(***************************************************************************)
THEOREM QueueLosesNothing == Spec => []NothingLost
<1>1. QueueInv => NothingLost
  BY DEF QueueInv, IsQueue, NothingLost, EntryStates, StatesOf
<1> QED
  BY <1>1, QueueInvariant, PTL

(***************************************************************************)
(* In the queues that select at random sumWeight is the sum of the weights *)
(* and each state may be the next: get() always finds one, and for each    *)
(* there is a random number that selects it.                               *)
(***************************************************************************)
THEOREM EachMayBeNext == Spec => []AnyStateMayBeNext
<1>1. QueueInv => AnyStateMayBeNext
  BY CandidatesFacts DEF QueueInv, IsQueue, AnyStateMayBeNext
<1> QED
  BY <1>1, QueueInvariant, PTL

LEMMA ForkGainsNothing ==
    QueueInv /\ [Next]_vars =>
        [policy = "timeAfterNewCode" /\ created' > created =>
            Len(entries') <= Len(entries)]_vars
<1> SUFFICES ASSUME QueueInv, [Next]_vars, policy = "timeAfterNewCode", created' > created
             PROVE  Len(entries') <= Len(entries)
  OBVIOUS
<1>1. entries # <<>> /\ Fork
  <2>1. created \in Nat
    BY DEF QueueInv, TypeOK, States
  <2>2. created' # created
    BY <2>1
  <2>3. ~ (Visit \/ End \/ UNCHANGED vars)
    BY <2>2 DEF Visit, End, vars
  <2> QED
    BY <2>3 DEF Next
<1>2. PICK k \in Candidates :
        \E w, v \in Weights(Grown(age[entries[k].state])) :
            entries' = Add(Add(Rotated(entries, k), Entry(created + 1, v)),
                           Entry(entries[k].state, w))
  BY <1>1, Zenon DEF Fork
<1> DEFINE s == entries[k].state
           a == Grown(age[s])
           q == Rotated(entries, k)
           n == created + 1
<1>3. PICK w \in Weights(a), v \in Weights(a) :
            entries' = Add(Add(q, Entry(n, v)), Entry(s, w))
  BY <1>2
<1>4. /\ s \in 1 .. created /\ s \in States /\ Len(q) = Len(entries) - 1
      /\ q \in Seq(EntriesOf(created))
  BY <1>1, TakenFacts DEF IsQueue
<1>5. /\ policy \in Standards \cup Randoms /\ created \in Nat
      /\ age \in [States -> 0 .. MaxAge] /\ Len(entries) \in Nat
  BY DEF QueueInv, TypeOK, States
<1>6. w = v /\ w \in Weighs
  <2>1. policy \notin {"dfs", "bfs"} /\ policy # "random"
    OBVIOUS
  <2>2. Weights(a) = {NewCodePriority(a)}
    BY <2>1, Zenon DEF Weights
  <2>3. a \in 0 .. MaxAge
    BY <1>4, <1>5, AgeFacts
  <2> QED
    BY <1>3, <1>5, <2>2, <2>3, WeightsFacts
<1> DEFINE c == Entry(n, v)
           e == Entry(s, w)
           r == Add(q, c)
<1>7. /\ Weighted(EntriesOf(n)) /\ c \in EntriesOf(n) /\ c.weight = e.weight
      /\ q \in Seq(EntriesOf(n))
  <2>1. n \in Nat /\ n \in 1 .. n
    BY <1>5
  <2>2. q \in Seq(EntriesOf(n))
    <3>1. EntriesOf(created) \subseteq EntriesOf(n)
      BY <1>5, EntriesFacts
    <3> QED
      BY <1>4, <3>1, SeqOfMore
  <2>3. Weighted(EntriesOf(n)) /\ c \in EntriesOf(n)
    BY <1>6, <2>1, EntriesFacts
  <2> QED
    BY <1>6, <2>2, <2>3 DEF Entry
<1> HIDE DEF s, q, c, e
<1>8. Len(r) \in {Len(q), Len(q) + 1} /\ HasWeight(r, e.weight)
  <2>1. HasWeight(r, c.weight)
    BY <1>5, <1>7, AddFacts
  <2>2. Len(r) \in {Len(q), Len(q) + 1}
    BY <1>5, <1>7, AddFacts, Zenon
  <2> QED
    BY <1>7, <2>1, <2>2
<1> HIDE DEF r
<1>9. entries' = r
  <2>1. Add(r, e) = r
    BY <1>8, AddAgain
  <2> QED
    BY <1>3, <2>1 DEF r, c, e
<1> QED
  BY <1>4, <1>5, <1>8, <1>9

(***************************************************************************)
(* A fork never leaves timeAfterNewCodeQueue with more states than before: *)
(* whatever the priorities, the clone and the state it was cloned from     *)
(* have the same, and the set keeps one of them.                           *)
(***************************************************************************)
THEOREM ForkLosesState == Spec => ForksGainNothing
BY QueueInvariant, ForkGainsNothing, PTL DEF Spec, ForksGainNothing

-----------------------------------------------------------------------------

(* The order in dfsQueue *)

Entries == [state : States, weight : {0}]

(***************************************************************************)
(* The states that wait in dfsQueue are in order; the one in front, which  *)
(* makes the next step, may be any of those that were made.                *)
(***************************************************************************)
DfsInv ==
    /\ policy = "dfs"
    /\ created \in States
    /\ entries \in Seq(Entries)
    /\ \A k \in DOMAIN entries : entries[k].state <= created
    /\ NewestForkFirst

LEMMA RotatedFirst ==
    ASSUME NEW q \in Seq(Entries), q # <<>>
    PROVE  /\ Rotated(q, 1) \in Seq(Entries)
           /\ Len(Rotated(q, 1)) = Len(q) - 1
           /\ \A k \in 1 .. Len(q) - 1 : Rotated(q, 1)[k] = q[k + 1]
<1>1. Len(q) \in Nat \ {0}
  OBVIOUS
<1> DEFINE end == SubSeq(q, 2, Len(q))
<1>2. /\ end \in Seq(Entries) /\ Len(end) = Len(q) - 1
      /\ \A k \in 1 .. Len(q) - 1 : end[k] = q[k + 1]
  <2>1. \A i \in 2 .. Len(q) : q[i] \in Entries
    OBVIOUS
  <2>2. /\ end \in Seq(Entries)
        /\ Len(end) = IF 2 <= Len(q) THEN Len(q) - 2 + 1 ELSE 0
        /\ \A i \in 1 .. Len(q) - 2 + 1 : end[i] = q[2 + i - 1]
    BY <1>1, <2>1, SubSeqProperties
  <2> HIDE DEF end
  <2>3. Len(end) = Len(q) - 1
    <3>1. CASE Len(q) = 1
      BY <2>2, <3>1
    <3>2. CASE 2 <= Len(q)
      <4>1. Len(q) - 2 + 1 = Len(q) - 1
        BY <1>1
      <4> QED
        BY <2>2, <3>2, <4>1
    <3>3. \A n \in Nat \ {0} : n = 1 \/ 2 <= n
      OBVIOUS
    <3>4. Len(q) = 1 \/ 2 <= Len(q)
      BY <1>1, <3>3
    <3> QED
      BY <3>1, <3>2, <3>4
  <2>4. ASSUME NEW k \in 1 .. Len(q) - 1
        PROVE  end[k] = q[k + 1]
    <3>1. 2 + k - 1 = k + 1 /\ k \in 1 .. Len(q) - 2 + 1
      BY <1>1
    <3> QED
      BY <2>2, <3>1
  <2> QED
    BY <2>2, <2>3, <2>4
<1>3. SubSeq(q, 1, 0) = <<>>
  BY SubSeqEmpty
<1>4. Rotated(q, 1) = end \o <<>>
  BY <1>3 DEF Rotated
<1> HIDE DEF end
<1>5. end \o <<>> = end
  BY <1>2, ConcatEmptySeq
<1> QED
  BY <1>2, <1>4, <1>5

LEMMA DfsInit == Init /\ policy = "dfs" => DfsInv
<1> SUFFICES ASSUME Init, policy = "dfs" PROVE DfsInv
  OBVIOUS
<1>1. entries = <<Entry(1, 0)>> /\ created = 1
  BY DfsWeights DEF Init
<1>2. 1 \in States /\ Entry(1, 0) \in Entries
  BY MaxStatesAssumption DEF States, Entry, Entries
<1>3. /\ entries \in Seq(Entries) /\ DOMAIN entries = {1} /\ Len(entries) = 1
      /\ entries[1].state = 1
  BY <1>1, <1>2 DEF Entry
<1> QED
  BY <1>1, <1>2, <1>3 DEF DfsInv, NewestForkFirst

LEMMA DfsNext == DfsInv /\ [Next]_vars => DfsInv'
<1> SUFFICES ASSUME DfsInv, [Next]_vars PROVE DfsInv'
  OBVIOUS
<1>1. /\ policy = "dfs" /\ created \in States /\ created \in Nat
      /\ entries \in Seq(Entries)
      /\ \A k \in DOMAIN entries : entries[k].state <= created
      /\ \A j, k \in 2 .. Len(entries) : j < k => entries[j].state > entries[k].state
  BY DEF DfsInv, NewestForkFirst, States
<1>2. CASE UNCHANGED vars
  BY <1>2 DEF vars, DfsInv, NewestForkFirst
<1> DEFINE rest == Rotated(entries, 1)
<1>3. ASSUME entries # <<>>
      PROVE  /\ rest \in Seq(Entries) /\ Len(rest) = Len(entries) - 1
             /\ \A k \in 1 .. Len(rest) : rest[k] = entries[k + 1]
             /\ entries[1] \in Entries /\ entries[1].state <= created
             /\ entries[1].state \in States
  <2>1. 1 \in DOMAIN entries /\ Len(entries) \in Nat
    BY <1>1, <1>3
  <2>2. /\ rest \in Seq(Entries) /\ Len(rest) = Len(entries) - 1
        /\ \A k \in 1 .. Len(entries) - 1 : rest[k] = entries[k + 1]
    BY <1>1, <1>3, RotatedFirst
  <2>3. entries[1] \in Entries /\ entries[1].state <= created
    BY <1>1, <2>1
  <2>4. entries[1].state \in States
    BY <2>3 DEF Entries
  <2> HIDE DEF rest
  <2> QED
    BY <2>2, <2>3, <2>4
<1> HIDE DEF rest
<1>4. ASSUME entries # <<>>
      PROVE  /\ \A k \in 1 .. Len(rest) :
                   rest[k].state \in States /\ rest[k].state <= created
             /\ \A j, k \in 1 .. Len(rest) : j < k => rest[j].state > rest[k].state
  <2>1. \A k \in 1 .. Len(rest) : /\ k + 1 \in 2 .. Len(entries)
                                  /\ k + 1 \in DOMAIN entries
                                  /\ rest[k] = entries[k + 1]
    BY <1>1, <1>3, <1>4
  <2>2. ASSUME NEW k \in 1 .. Len(rest)
        PROVE  rest[k].state \in States /\ rest[k].state <= created
    <3>1. entries[k + 1] \in Entries
      BY <1>1, <2>1
    <3> QED
      BY <1>1, <2>1, <3>1 DEF Entries
  <2>3. ASSUME NEW j \in 1 .. Len(rest), NEW k \in 1 .. Len(rest), j < k
        PROVE  rest[j].state > rest[k].state
    <3>1. j + 1 < k + 1
      BY <2>3
    <3> QED
      BY <1>1, <2>1, <3>1
  <2> QED
    BY <2>2, <2>3
<1>5. CASE entries # <<>> /\ Visit
  <2>1. PICK e \in Entries : entries' = <<e>> \o rest /\ e.state = entries[1].state
    <3>1. entries' = Add(Rotated(entries, 1), Entry(entries[1].state, 0))
      BY <1>1, <1>5, DfsCandidates, DfsWeights DEF Visit
    <3> QED
      BY <1>1, <1>3, <1>5, <3>1, DfsAdd DEF Entry, Entries, rest
  <2>2. /\ entries' \in Seq(Entries) /\ Len(entries') = Len(rest) + 1
        /\ entries'[1] = e /\ \A k \in 2 .. Len(rest) + 1 : entries'[k] = rest[k - 1]
    BY <1>3, <1>5, <2>1
  <2>3. policy' = policy /\ created' = created
    BY <1>5 DEF Visit
  <2>4. \A k \in DOMAIN entries' : entries'[k].state <= created
    BY <1>3, <1>4, <1>5, <2>1, <2>2
  <2>5. \A j, k \in 2 .. Len(entries') : j < k => entries'[j].state > entries'[k].state
    <3> SUFFICES ASSUME NEW j \in 2 .. Len(entries'), NEW k \in 2 .. Len(entries'), j < k
                 PROVE  entries'[j].state > entries'[k].state
      OBVIOUS
    <3>1. /\ j - 1 \in 1 .. Len(rest) /\ k - 1 \in 1 .. Len(rest) /\ j - 1 < k - 1
          /\ entries'[j] = rest[j - 1] /\ entries'[k] = rest[k - 1]
      BY <1>3, <1>5, <2>2
    <3> QED
      BY <1>4, <1>5, <3>1
  <2> QED
    BY <1>1, <2>2, <2>3, <2>4, <2>5 DEF DfsInv, NewestForkFirst
<1>6. CASE entries # <<>> /\ Fork
  <2>1. /\ policy' = policy /\ created' = created + 1 /\ created + 1 \in States
    BY <1>1, <1>6, MaxStatesAssumption DEF Fork, States
  <2>2. PICK e \in Entries, c \in Entries :
            /\ entries' = <<e>> \o (<<c>> \o rest)
            /\ e.state = entries[1].state /\ c.state = created + 1
    <3>1. entries' = Add(Add(Rotated(entries, 1), Entry(created + 1, 0)),
                         Entry(entries[1].state, 0))
      BY <1>1, <1>6, DfsCandidates, DfsWeights DEF Fork
    <3>2. Entry(created + 1, 0) \in Entries /\ Entry(entries[1].state, 0) \in Entries
      BY <1>3, <1>6, <2>1 DEF Entry, Entries
    <3> QED
      BY <1>1, <3>1, <3>2, DfsAdd DEF Entry, rest
  <2>3. /\ entries' \in Seq(Entries) /\ Len(entries') = Len(rest) + 2
        /\ entries'[1] = e /\ entries'[2] = c
        /\ \A k \in 3 .. Len(rest) + 2 : entries'[k] = rest[k - 2]
    BY <1>3, <1>6, <2>2
  <2>4. \A k \in DOMAIN entries' : entries'[k].state <= created + 1
    <3> SUFFICES ASSUME NEW k \in 1 .. Len(rest) + 2
                 PROVE  entries'[k].state <= created + 1
      BY <1>3, <1>6, <2>3
    <3>1. CASE k = 1
      BY <1>1, <1>3, <1>6, <2>2, <2>3, <3>1 DEF States
    <3>2. CASE k = 2
      BY <1>1, <2>2, <2>3, <3>2
    <3>3. CASE k \in 3 .. Len(rest) + 2
      <4>1. k - 2 \in 1 .. Len(rest) /\ entries'[k] = rest[k - 2]
        BY <1>3, <1>6, <2>3, <3>3
      <4>2. rest[k - 2].state \in States /\ rest[k - 2].state <= created
        BY <1>4, <1>6, <4>1
      <4> QED
        BY <1>1, <4>1, <4>2 DEF States
    <3> QED
      BY <1>3, <1>6, <3>1, <3>2, <3>3
  <2>5. ASSUME NEW j \in 2 .. Len(entries'), NEW k \in 2 .. Len(entries'), j < k
        PROVE  entries'[j].state > entries'[k].state
    <3>1. k - 2 \in 1 .. Len(rest) /\ entries'[k] = rest[k - 2]
      BY <1>3, <1>6, <2>3, <2>5
    <3>2. CASE j = 2
      <4>1. rest[k - 2].state \in States /\ rest[k - 2].state <= created
        BY <1>4, <1>6, <3>1
      <4> QED
        BY <1>1, <2>2, <2>3, <3>1, <3>2, <4>1 DEF States
    <3>3. CASE j # 2
      <4>1. j - 2 \in 1 .. Len(rest) /\ entries'[j] = rest[j - 2] /\ j - 2 < k - 2
        BY <1>3, <1>6, <2>3, <2>5, <3>3
      <4> QED
        BY <1>4, <1>6, <3>1, <4>1
    <3> QED
      BY <3>2, <3>3
  <2> QED
    BY <1>1, <2>1, <2>3, <2>4, <2>5 DEF DfsInv, NewestForkFirst
<1>7. CASE entries # <<>> /\ End
  <2>1. policy' = policy /\ created' = created
    BY <1>7 DEF End
  <2>2. entries' = rest
    BY <1>1, <1>7, DfsCandidates DEF End, rest
  <2>3. \A k \in DOMAIN entries' : entries'[k].state <= created
    BY <1>3, <1>4, <1>7, <2>2
  <2>4. \A j, k \in 2 .. Len(entries') : j < k => entries'[j].state > entries'[k].state
    BY <1>3, <1>4, <1>7, <2>2
  <2> QED
    BY <1>1, <1>3, <1>7, <2>1, <2>2, <2>3, <2>4 DEF DfsInv, NewestForkFirst
<1> QED
  BY <1>2, <1>5, <1>6, <1>7 DEF Next

LEMMA PolicyNext == policy # "dfs" /\ [Next]_vars => policy' # "dfs"
BY DEF Next, Visit, Fork, End, vars

(***************************************************************************)
(* For any number of states, dfsQueue explores the newest fork first.      *)
(***************************************************************************)
THEOREM DfsTakesNewestFork == Spec => []NewestForkFirst
<1>1. Init => DfsInv \/ policy # "dfs"
  BY DfsInit
<1>2. (DfsInv \/ policy # "dfs") /\ [Next]_vars => (DfsInv \/ policy # "dfs")'
  BY DfsNext, PolicyNext
<1>3. DfsInv \/ policy # "dfs" => NewestForkFirst
  BY DEF DfsInv, NewestForkFirst
<1> QED
  BY <1>1, <1>2, <1>3, PTL DEF Spec
=============================================================================
