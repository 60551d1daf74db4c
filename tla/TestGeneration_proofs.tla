------------------------- MODULE TestGeneration_proofs -------------------------
(***************************************************************************)
(* Proofs about TestGeneration, for every function, every collection of    *)
(* results, and a search that ends in any way: which results become tests, *)
(* with which inputs, and what may stay uncovered.                         *)
(***************************************************************************)
EXTENDS TestGeneration, TLAPS, FiniteSetTheorems

Searches == {"check", "populate", "newcomers", "epoch", "breed", "end"}

(***************************************************************************)
(* What is still to be covered is what the tests do not cover, and the     *)
(* result that generateTest is busy with covers some of it.                *)
(***************************************************************************)
CoverInv ==
    /\ f \in DOMAIN Functions
    /\ step \in Searches \cup {"select", "done", "overflow"}
    /\ pass \in {1, 2}
    /\ next \in Nat \ {0}
    /\ \E S : tests \in Seq(S)
    /\ remainingNodes = Functions[f].nodes \ Covered(Len(tests))
    /\ remainingTerminals \subseteq remainingNodes
    /\ step \in Searches => remainingNodes \cap Result.visited # {}
    /\ TestsCoverMore

(***************************************************************************)
(* What the second loop has passed by is covered, or was given up.         *)
(***************************************************************************)
PassedBy(i) == Results[i].visited \cap remainingNodes # {} => Results[i] \in failed

LoopInv ==
    /\ pass = 2 /\ step # "done" => \A i \in DOMAIN Results : i < next => PassedBy(i)
    /\ step = "done" => CoveredIfPossible

-----------------------------------------------------------------------------

(***************************************************************************)
(* sortedBy gives the elements of the list, as many as there are, and the  *)
(* first of them has the least key.  An element comes at the place that    *)
(* the number of those before it says; no two have the same number, so     *)
(* each place is taken.                                                    *)
(***************************************************************************)
LEMMA SortedFacts ==
    ASSUME NEW S, NEW q \in Seq(S), NEW key \in [DOMAIN q -> Int]
    PROVE  /\ SortedBy(q, key) \in Seq(S)
           /\ Len(SortedBy(q, key)) = Len(q)
           /\ q # <<>> => \E i \in DOMAIN q : /\ SortedBy(q, key)[1] = q[i]
                                             /\ \A j \in DOMAIN q : key[i] <= key[j]
<1>0. PICK n \in Nat : n = Len(q) /\ DOMAIN q = 1 .. n
  OBVIOUS
<1>keys. \A i \in 1 .. n : key[i] \in Int
  BY <1>0
<1> DEFINE First(i) == {j \in 1 .. n : key[j] < key[i] \/ (key[j] = key[i] /\ j < i)}
           rank == [i \in 1 .. n |-> Cardinality(First(i))]
<1>1. IsFiniteSet(1 .. n) /\ Cardinality(1 .. n) = n
  BY FS_Interval
<1>2. \A i \in 1 .. n : IsFiniteSet(First(i)) /\ rank[i] \in Nat
  <2> SUFFICES ASSUME NEW i \in 1 .. n
               PROVE  IsFiniteSet(First(i)) /\ Cardinality(First(i)) \in Nat
    OBVIOUS
  <2>1. First(i) \in SUBSET (1 .. n)
    OBVIOUS
  <2> HIDE DEF First
  <2> QED
    BY <1>1, <2>1, FS_Subset, FS_CardinalityType
<1>3. ASSUME NEW i \in 1 .. n, NEW j \in First(i) PROVE rank[j] < rank[i]
  <2>1. j \in 1 .. n
    OBVIOUS
  <2>2. First(j) \in SUBSET First(i) /\ j \notin First(j)
    BY <1>keys
  <2>3. First(j) # First(i) /\ j \in First(i)
    BY <2>2
  <2>4. rank[j] = Cardinality(First(j)) /\ rank[i] = Cardinality(First(i))
    BY <2>1
  <2>5. rank[i] \in Nat /\ rank[j] \in Nat /\ IsFiniteSet(First(i))
    BY <1>2, <2>1
  <2> HIDE DEF First, rank
  <2>6. Cardinality(First(j)) <= Cardinality(First(i))
        /\ (Cardinality(First(j)) = Cardinality(First(i)) => First(j) = First(i))
    BY <2>2, <2>5, FS_Subset
  <2> QED
    BY <2>3, <2>4, <2>5, <2>6
<1>4. \A i, j \in 1 .. n : i # j => rank[i] # rank[j]
  <2> SUFFICES ASSUME NEW i \in 1 .. n, NEW j \in 1 .. n, i # j PROVE rank[i] # rank[j]
    OBVIOUS
  <2>1. i \in First(j) \/ j \in First(i)
    BY <1>keys
  <2> HIDE DEF First, rank
  <2> QED
    BY <1>2, <1>3, <2>1
<1>5. \A i \in 1 .. n : rank[i] \in 0 .. n - 1
  <2> SUFFICES ASSUME NEW i \in 1 .. n PROVE rank[i] \in 0 .. n - 1
    OBVIOUS
  <2>1. First(i) \in SUBSET (1 .. n) /\ i \in 1 .. n /\ i \notin First(i)
    BY <1>keys
  <2>2. rank[i] = Cardinality(First(i)) /\ rank[i] \in Nat
    BY <1>2
  <2> HIDE DEF First, rank
  <2>3. First(i) # 1 .. n
    BY <2>1
  <2>4. Cardinality(First(i)) <= n /\ Cardinality(First(i)) # n
    BY <1>1, <2>1, <2>3, FS_Subset
  <2> QED
    BY <1>keys, <2>2, <2>4
<1>6. \A k \in 1 .. n : \E i \in 1 .. n : rank[i] = k - 1
  <2> SUFFICES ASSUME NEW k \in 1 .. n, \A i \in 1 .. n : rank[i] # k - 1 PROVE FALSE
    OBVIOUS
  <2> DEFINE T == (0 .. n - 1) \ {k - 1}
  <2>1. IsFiniteSet(0 .. n - 1) /\ Cardinality(0 .. n - 1) = n
    <3>1. 0 \in Int /\ n - 1 \in Int
      OBVIOUS
    <3>2. IsFiniteSet(0 .. n - 1)
          /\ Cardinality(0 .. n - 1) = IF 0 > n - 1 THEN 0 ELSE (n - 1) - 0 + 1
      BY <3>1, FS_Interval
    <3> QED
      BY <3>2
  <2>2. k - 1 \in 0 .. n - 1
    OBVIOUS
  <2>3. IsFiniteSet(T) /\ Cardinality(T) = n - 1
    BY <2>1, <2>2, FS_RemoveElement
  <2>4. Cardinality(T) < Cardinality(1 .. n)
    BY <1>1, <2>3
  <2>5. rank \in [1 .. n -> T]
    BY <1>5
  <2> HIDE DEF T, rank
  <2> QED
    BY <1>1, <1>4, <2>3, <2>4, <2>5, FS_PigeonHole
<1> DEFINE At(k) == CHOOSE i \in 1 .. n : Cardinality(First(i)) = k - 1
<1>7. SortedBy(q, key) = [k \in 1 .. n |-> q[At(k)]]
  BY <1>0 DEF SortedBy
<1>8. \A k \in 1 .. n : At(k) \in 1 .. n /\ rank[At(k)] = k - 1
  <2> SUFFICES ASSUME NEW k \in 1 .. n PROVE At(k) \in 1 .. n /\ rank[At(k)] = k - 1
    OBVIOUS
  <2>1. \E i \in 1 .. n : Cardinality(First(i)) = k - 1
    BY <1>6
  <2> HIDE DEF First
  <2>2. At(k) \in 1 .. n /\ Cardinality(First(At(k))) = k - 1
    BY <2>1
  <2> HIDE DEF At
  <2> QED
    BY <2>2
<1>9. ASSUME n > 0 PROVE \A j \in 1 .. n : key[At(1)] <= key[j]
  <2>1. 1 \in 1 .. n
    BY <1>9
  <2>2. At(1) \in 1 .. n /\ rank[At(1)] = 1 - 1
    <3> HIDE DEF At, rank
    <3> QED
      BY <1>8, <2>1
  <2> HIDE DEF At
  <2>3. Cardinality(First(At(1))) = 0 /\ IsFiniteSet(First(At(1)))
    BY <1>2, <2>2
  <2>4. First(At(1)) = {}
    <3> HIDE DEF First
    <3> QED
      BY <2>3, FS_EmptySet
  <2> QED
    BY <1>keys, <2>2, <2>4
<1>10. ASSUME n > 0
       PROVE  \E i \in 1 .. n : /\ SortedBy(q, key)[1] = q[i]
                                /\ \A j \in 1 .. n : key[i] <= key[j]
  <2>1. 1 \in 1 .. n
    BY <1>10
  <2> HIDE DEF At, rank, First
  <2>2. SortedBy(q, key)[1] = q[At(1)] /\ At(1) \in 1 .. n
    BY <1>7, <1>8, <2>1
  <2> QED
    BY <1>9, <1>10, <2>2
<1>11. SortedBy(q, key) \in [1 .. n -> S]
  <2> HIDE DEF At, rank, First
  <2>1. \A k \in 1 .. n : q[At(k)] \in S
    BY <1>0, <1>8
  <2> QED
    BY <1>7, <2>1
<1>12. SortedBy(q, key) \in Seq(S) /\ Len(SortedBy(q, key)) = n
  BY <1>11
<1>13. q # <<>> => n > 0
  BY <1>0
<1> HIDE DEF At, rank, First
<1> QED
  BY <1>0, <1>10, <1>12, <1>13

\* The results in their order are results of the function.
LEMMA ResultsFacts ==
    ASSUME f \in DOMAIN Functions
    PROVE  /\ DOMAIN Results = 1 .. Len(Results)
           /\ Len(Results) \in Nat
           /\ \A i \in DOMAIN Results : Results[i] \in Range(Functions[f].results)
<1> DEFINE q == Functions[f].results
           key == [i \in DOMAIN q |-> - Cardinality(q[i].visited)]
<1>1. q \in Seq(Range(q))
  BY FunctionsAssumption
<1>2. \A i \in DOMAIN q : q[i] \in Range(q)
  BY DEF Range
<1>3. \A i \in DOMAIN q : IsFiniteSet(q[i].visited)
  BY <1>2, FunctionsAssumption
<1>4. \A i \in DOMAIN q : - Cardinality(q[i].visited) \in Int
  BY <1>3, FS_CardinalityType
<1>5. key \in [DOMAIN q -> Int]
  BY <1>4
<1>6. Results = SortedBy(q, key)
  BY DEF Results
<1>7. Results \in Seq(Range(q))
  <2> HIDE DEF q, key
  <2> QED
    BY <1>1, <1>5, <1>6, SortedFacts
<1> QED
  BY <1>7

\* The actions of the search change neither the tests nor the loop.
Search ==
    \/ Check \/ Populate \/ Populated \/ PopulateTimeout
    \/ TestSat \/ TestFails \/ Retry
    \/ Epoch \/ EndEvolution \/ Breed \/ NextParent \/ EndEpoch

LEMMA SearchFacts ==
    ASSUME Search
    PROVE  /\ step \in Searches /\ step' \in Searches
           /\ UNCHANGED <<f, pass, next, remainingNodes, remainingTerminals, tests, failed>>
<1>1. CASE Check
  BY <1>1 DEF Check, Bookkeeping, Searches
<1>2. CASE Populate
  <2>1. HasRoom /\ UNCHANGED <<f, step, pass, next, Bookkeeping, failed>>
    BY <1>2 DEF Populate
  <2> QED
    BY <2>1 DEF HasRoom, Bookkeeping, Searches
<1>3. CASE Populated \/ PopulateTimeout
  BY <1>3 DEF Populated, PopulateTimeout, StopPopulating, Bookkeeping, Searches
<1>4. CASE Epoch
  <2>1. step = "epoch" /\ step' \in {"end", "newcomers"}
    BY <1>4 DEF Epoch
  <2>2. UNCHANGED <<f, pass, next, Bookkeeping, failed>>
    BY <1>4 DEF Epoch
  <2> QED
    BY <2>1, <2>2 DEF Bookkeeping, Searches
<1>5. CASE EndEvolution
  BY <1>5 DEF EndEvolution, Bookkeeping, Searches
<1>6. CASE Breed \/ NextParent
  <2>1. step = "breed" /\ UNCHANGED <<f, step, pass, next, Bookkeeping, failed>>
    BY <1>6 DEF Breed, NextParent
  <2> QED
    BY <2>1 DEF Bookkeeping, Searches
<1>7. CASE EndEpoch
  BY <1>7 DEF EndEpoch, Bookkeeping, Searches
<1>8. CASE TestSat \/ TestFails \/ Retry
  <2>1. IsCalled /\ UNCHANGED <<f, step, pass, next, Bookkeeping, failed>>
    BY <1>8 DEF TestSat, TestFails, Retry
  <2> QED
    BY <2>1 DEF IsCalled, Bookkeeping, Searches
<1> QED
  BY <1>1, <1>2, <1>3, <1>4, <1>5, <1>6, <1>7, <1>8 DEF Search

-----------------------------------------------------------------------------

LEMMA CoverInit == Init => CoverInv
<1> SUFFICES ASSUME Init PROVE CoverInv
  OBVIOUS
<1>1. /\ f \in DOMAIN Functions /\ step = "select" /\ pass = 1 /\ next = 1
      /\ remainingNodes = Functions[f].nodes
      /\ remainingTerminals = Functions[f].terminals
      /\ tests = <<>>
  BY DEF Init
<1>2. tests \in Seq({}) /\ Len(tests) = 0 /\ DOMAIN tests = {}
  BY <1>1
<1>3. Covered(Len(tests)) = {}
  BY <1>2 DEF Covered
<1>4. remainingTerminals \subseteq remainingNodes
  BY <1>1, FunctionsAssumption
<1>5. TestsCoverMore
  BY <1>2 DEF TestsCoverMore
<1> QED
  BY <1>1, <1>2, <1>3, <1>4, <1>5 DEF CoverInv, Searches

\* Nothing that CoverInv speaks of changes but the step.
LEMMA CoverUnchanged ==
    ASSUME CoverInv, UNCHANGED <<f, remainingNodes, remainingTerminals, tests>>,
           pass' \in {1, 2}, next' \in Nat \ {0},
           step' \in Searches \cup {"select", "done", "overflow"},
           step' \in Searches => next' = next /\ remainingNodes \cap Result.visited # {}
    PROVE  CoverInv'
<1>1. Results' = Results
  BY DEF Results
<1>2. step' \in Searches => remainingNodes' \cap Result'.visited # {}
  BY <1>1 DEF Result
<1>3. Covered(Len(tests))' = Covered(Len(tests))
  BY DEF Covered, Visited
<1>4. TestsCoverMore'
  BY DEF CoverInv, TestsCoverMore, Covered, Visited
<1> QED
  BY <1>2, <1>3, <1>4 DEF CoverInv

LEMMA CoverAddTest == CoverInv /\ AddTest => CoverInv'
<1> SUFFICES ASSUME CoverInv, AddTest PROVE CoverInv'
  OBVIOUS
<1>1. PICK S : tests \in Seq(S)
  BY DEF CoverInv
<1>0. PICK n \in Nat : n = Len(tests)
  BY <1>1
<1>2. /\ tests' = Append(tests, Test)
      /\ remainingNodes' = remainingNodes \ Result.visited
      /\ remainingTerminals' = remainingTerminals \ Result.visited
      /\ next' = next + 1 /\ step' = "select" /\ f' = f /\ pass' = pass
      /\ step = "end"
  BY DEF AddTest, Uncovered
<1>3. n \in Nat /\ DOMAIN tests = 1 .. n
  BY <1>1, <1>0
<1>4. tests \in Seq(S \cup {Test}) /\ Test \in S \cup {Test}
  BY <1>1
<1>5. /\ tests' \in Seq(S \cup {Test})
      /\ Len(tests') = n + 1
      /\ DOMAIN tests' = 1 .. n + 1
      /\ \A j \in 1 .. n : tests'[j] = tests[j]
      /\ tests'[n + 1] = Test
  BY <1>2, <1>3, <1>4, <1>0
<1>6. Test.result = Result
  BY DEF Test
<1>7. \A k \in 0 .. n : Covered(k)' = Covered(k)
  <2> SUFFICES ASSUME NEW k \in 0 .. n PROVE Covered(k)' = Covered(k)
    OBVIOUS
  <2>1. \A j \in 1 .. k : Visited(j)' = Visited(j)
    BY <1>3, <1>5 DEF Visited
  <2> QED
    BY <2>1 DEF Covered
<1>8. Covered(n + 1)' = Covered(n) \cup Result.visited
  <2>1. 1 .. n + 1 = (1 .. n) \cup {n + 1}
    BY <1>3
  <2>2. \A j \in 1 .. n : Visited(j)' = Visited(j)
    BY <1>5 DEF Visited
  <2>3. Visited(n + 1)' = Result.visited
    BY <1>5, <1>6 DEF Visited
  <2> QED
    BY <2>1, <2>2, <2>3 DEF Covered
<1>9. remainingNodes' = Functions[f].nodes \ Covered(n + 1)'
  BY <1>2, <1>8, <1>0 DEF CoverInv
<1>10. TestsCoverMore'
  <2> SUFFICES ASSUME NEW k \in 1 .. n + 1
               PROVE  (Visited(k)' \cap Functions[f].nodes) \ Covered(k - 1)' # {}
    BY <1>2, <1>5 DEF TestsCoverMore
  <2>1. CASE k = n + 1
    <3>1. Visited(k)' = Result.visited /\ Covered(k - 1)' = Covered(n)
      BY <1>3, <1>5, <1>6, <1>7, <2>1 DEF Visited
    <3>2. remainingNodes \cap Result.visited # {}
      BY <1>2 DEF CoverInv, Searches
    <3> QED
      BY <3>1, <3>2, <1>0 DEF CoverInv
  <2>2. CASE k # n + 1
    <3>1. k \in 1 .. n /\ k - 1 \in 0 .. n
      BY <1>3, <2>2
    <3>2. Visited(k)' = Visited(k) /\ Covered(k - 1)' = Covered(k - 1)
      BY <1>5, <1>7, <3>1 DEF Visited
    <3> QED
      BY <1>3, <3>1, <3>2 DEF CoverInv, TestsCoverMore
  <2> QED
    BY <2>1, <2>2
<1>11. remainingTerminals' \subseteq remainingNodes'
  BY <1>2 DEF CoverInv
<1> QED
  BY <1>2, <1>5, <1>9, <1>10, <1>11, <1>0 DEF CoverInv, Searches

LEMMA CoverNext == CoverInv /\ [Next]_vars => CoverInv'
<1> SUFFICES ASSUME CoverInv, [Next]_vars PROVE CoverInv'
  OBVIOUS
<1>1. /\ pass \in {1, 2} /\ next \in Nat \ {0}
      /\ step \in Searches \cup {"select", "done", "overflow"}
      /\ step \in Searches => remainingNodes \cap Result.visited # {}
      /\ remainingTerminals \subseteq remainingNodes
  BY DEF CoverInv
<1>2. CASE SkipResult
  BY <1>1, <1>2, CoverUnchanged DEF SkipResult, Bookkeeping, Searches
<1>3. CASE SelectResult
  <2>1. Remaining \subseteq remainingNodes
    BY <1>1 DEF Remaining
  <2>2. remainingNodes \cap Result.visited # {}
    BY <1>3, <2>1 DEF SelectResult
  <2> QED
    BY <1>1, <1>3, <2>2, CoverUnchanged DEF SelectResult, Bookkeeping, Searches
<1>4. CASE EndPass
  BY <1>1, <1>4, CoverUnchanged DEF EndPass, Bookkeeping, Searches
<1>5. CASE CheckFails
  BY <1>1, <1>5, CoverUnchanged DEF CheckFails, Bookkeeping, Searches
<1>6. CASE Search
  BY <1>1, <1>6, SearchFacts, CoverUnchanged
<1>7. CASE AddTest
  BY <1>7, CoverAddTest
<1>8. CASE UNCHANGED vars
  BY <1>1, <1>8, CoverUnchanged DEF vars
<1>9. CASE Overflow
  BY <1>1, <1>9, CoverUnchanged DEF Overflow, Bookkeeping, Searches
<1> QED
  BY <1>2, <1>3, <1>4, <1>5, <1>6, <1>7, <1>8, <1>9 DEF Next, Done, Search

(***************************************************************************)
(* For every function and its results, each test covers a node that none   *)
(* before it covers, wherever the search for its inputs is cut.            *)
(***************************************************************************)
THEOREM NoTestInVain == Spec => []TestsCoverMore
<1>1. CoverInv => TestsCoverMore
  BY DEF CoverInv
<1> QED
  BY CoverInit, CoverNext, <1>1, PTL DEF Spec

-----------------------------------------------------------------------------

LEMMA LoopNext == CoverInv /\ LoopInv /\ [Next]_vars => LoopInv'
<1> SUFFICES ASSUME CoverInv, LoopInv, [Next]_vars PROVE LoopInv'
  OBVIOUS
<1>1. /\ pass \in {1, 2} /\ next \in Nat \ {0} /\ f \in DOMAIN Functions
      /\ DOMAIN Results = 1 .. Len(Results) /\ Len(Results) \in Nat
  BY ResultsFacts DEF CoverInv
<1>2. f' = f => Results' = Results
  BY DEF Results
<1>3. ASSUME step # "done", step' # "done", pass' = pass, f' = f, next' \in {next, next + 1},
             remainingNodes' \subseteq remainingNodes, failed \subseteq failed',
             pass = 2 /\ next' = next + 1 => \A i : i = next => PassedBy(i)'
      PROVE  LoopInv'
  <2> SUFFICES ASSUME pass = 2, NEW i \in DOMAIN Results, i < next'
               PROVE  PassedBy(i)'
    BY <1>2, <1>3 DEF LoopInv
  <2>1. CASE i < next
    BY <1>2, <1>3, <2>1 DEF LoopInv, PassedBy
  <2>2. CASE ~ (i < next)
    <3>1. i = next /\ next' = next + 1
      BY <1>1, <1>3, <2>2
    <3> QED
      BY <1>3, <3>1
  <2> QED
    BY <2>1, <2>2
<1>4. CASE SkipResult
  <2>1. /\ step = "select" /\ step' = step /\ pass' = pass /\ f' = f
        /\ next' = next + 1 /\ remainingNodes' = remainingNodes /\ failed' = failed
        /\ Remaining \cap Result.visited = {}
    BY <1>4 DEF SkipResult, Bookkeeping
  <2>2. pass = 2 => \A i : i = next => PassedBy(i)'
    BY <1>2, <2>1 DEF PassedBy, Remaining, Result
  <2> QED
    BY <1>3, <2>1, <2>2
<1>5. CASE SelectResult
  <2>1. /\ step = "select" /\ step' = "check" /\ pass' = pass /\ f' = f
        /\ next' = next /\ remainingNodes' = remainingNodes /\ failed' = failed
    BY <1>5 DEF SelectResult, Bookkeeping
  <2> QED
    BY <1>1, <1>3, <2>1
<1>6. CASE EndPass
  <2>1. /\ step = "select" /\ f' = f /\ remainingNodes' = remainingNodes
        /\ failed' = failed
        /\ (Remaining = {} \/ next > Len(Results))
    BY <1>6 DEF EndPass, IsPassDone, Bookkeeping
  <2>2. CASE pass = 1
    BY <1>1, <1>2, <1>6, <2>1, <2>2 DEF EndPass, LoopInv
  <2>3. CASE pass = 2
    <3>1. \A i \in DOMAIN Results : PassedBy(i)
      <4>1. CASE remainingNodes = {}
        BY <4>1 DEF PassedBy
      <4>2. CASE next > Len(Results)
        BY <1>1, <2>1, <2>3, <4>2 DEF LoopInv
      <4> QED
        BY <2>1, <2>3, <4>1, <4>2 DEF Remaining
    <3>2. CoveredIfPossible'
      <4>1. \A r \in Range(Results) : r.visited \cap remainingNodes # {} => r \in failed
        BY <3>1 DEF PassedBy, Range
      <4>2. Results' = Results /\ remainingNodes' = remainingNodes /\ failed' = failed
        BY <1>2, <2>1
      <4> QED
        BY <4>1, <4>2 DEF CoveredIfPossible
    <3>3. step' = "done"
      BY <1>6, <2>3 DEF EndPass
    <3> QED
      BY <3>2, <3>3 DEF LoopInv
  <2> QED
    BY <1>1, <2>2, <2>3
<1>7. CASE CheckFails
  <2>1. /\ step = "check" /\ step' = "select" /\ pass' = pass /\ f' = f
        /\ next' = next + 1 /\ remainingNodes' = remainingNodes
        /\ failed' = IF pass = 2 THEN failed \cup {Results[next]} ELSE failed
    BY <1>7 DEF CheckFails, Bookkeeping, Result
  <2>2. pass = 2 => \A i : i = next => PassedBy(i)'
    BY <1>2, <2>1 DEF PassedBy
  <2> QED
    BY <1>3, <2>1, <2>2
<1>8. CASE Search
  <2>1. /\ UNCHANGED <<f, pass, next, remainingNodes, failed>>
        /\ step # "done" /\ step' # "done"
    BY <1>8, SearchFacts DEF Searches
  <2> QED
    BY <1>1, <1>3, <2>1
<1>9. CASE AddTest
  <2>1. /\ step = "end" /\ step' = "select" /\ pass' = pass /\ f' = f
        /\ next' = next + 1 /\ failed' = failed
        /\ remainingNodes' = remainingNodes \ Results[next].visited
    BY <1>9 DEF AddTest, Uncovered, Result
  <2>2. \A i : i = next => PassedBy(i)'
    BY <1>2, <2>1 DEF PassedBy
  <2> QED
    BY <1>3, <2>1, <2>2
<1>10. CASE UNCHANGED vars
  BY <1>2, <1>10 DEF vars, LoopInv, PassedBy, CoveredIfPossible
<1>11. CASE Overflow
  <2>1. /\ IsCalled /\ step' = "overflow"
        /\ UNCHANGED <<f, pass, next, remainingNodes, failed>>
    BY <1>11 DEF Overflow, Bookkeeping
  <2>2. step # "done" /\ step' # "done"
    BY <2>1 DEF IsCalled
  <2> QED
    BY <1>1, <1>3, <2>1, <2>2
<1> QED
  BY <1>4, <1>5, <1>6, <1>7, <1>8, <1>9, <1>10, <1>11 DEF Next, Done, Search

(***************************************************************************)
(* For every function and its results: when the tests are made, a result   *)
(* visits an uncovered node only if generateTest gave it up in the second  *)
(* loop.                                                                   *)
(***************************************************************************)
THEOREM UncoveredWasGivenUp == Spec => []CoveredIfPossible
<1>1. Init => LoopInv
  BY DEF Init, LoopInv
<1>2. LoopInv => CoveredIfPossible
  BY DEF LoopInv, CoveredIfPossible
<1>3. CoverInv /\ LoopInv /\ [Next]_vars => (CoverInv /\ LoopInv)'
  BY CoverNext, LoopNext
<1> QED
  BY CoverInit, <1>1, <1>2, <1>3, PTL DEF Spec

-----------------------------------------------------------------------------

(***************************************************************************)
(* A creature the solver found a model for has a constraint for every      *)
(* variable, so its model has all values and meets the condition of the    *)
(* result.                                                                 *)
(***************************************************************************)
Constrained == {c \in [Variables -> SUBSET Constraints] : \A v \in Variables : c[v] # {}}

Alive == [constraints : Constrained, model : Result.cond]

FirstModels == {[v \in Result.reads |-> m[v]] : m \in Result.cond}

MeetsCondition(t) ==
    /\ \A m \in Models : (\A v \in DOMAIN t.model : m[v] = t.model[v]) => m \in t.result.cond
    /\ t.evolved => DOMAIN t.model = Variables

EvolutionInv ==
    /\ step \in Searches =>
          /\ next \in DOMAIN Results
          /\ population \in Seq(Alive) /\ newcomers \in Seq(Alive)
          /\ parents \in Seq(Alive) /\ children \in Seq(Alive)
          /\ tested # <<>> => tested[1] \in Constrained
    /\ tested # <<>> => step \in {"populate", "newcomers", "breed"}
    /\ step \in {"populate", "newcomers", "epoch", "breed", "end"} => firstModel \in FirstModels
    /\ step \in {"newcomers", "epoch", "breed"} => population # <<>>
    /\ step \in {"select", "check", "done"} => population = <<>>
    /\ step \notin {"newcomers", "overflow"} => newcomers = <<>>
    /\ step \notin {"breed", "overflow"} => parents = <<>> /\ children = <<>>
    /\ \A k \in DOMAIN tests : MeetsCondition(tests[k])

LEMMA ResultFacts ==
    ASSUME f \in DOMAIN Functions, next \in DOMAIN Results
    PROVE  /\ Result.reads \subseteq Variables
           /\ Result.cond \subseteq Models
           /\ \A m \in Result.cond, n \in Models :
                 (\A v \in Result.reads : n[v] = m[v]) => n \in Result.cond
<1>1. Result \in Range(Functions[f].results)
  BY ResultsFacts DEF Result
<1> QED
  BY <1>1, FunctionsAssumption DEF Variables, Models

\* What the solver gives for a creature with a constraint for each variable.
LEMMA FoundIsAlive ==
    ASSUME f \in DOMAIN Functions, next \in DOMAIN Results,
           NEW c \in Constrained, NEW m \in ModelsOf(c)
    PROVE  Found(c, m) \in Alive
<1>1. Occur(c) = Variables
  BY ResultFacts DEF Occur, Constrained
<1>2. m \in [Variables -> Values] /\ m \in Result.cond
  BY DEF ModelsOf, Models
<1>3. [v \in Occur(c) |-> m[v]] = m
  BY <1>1, <1>2
<1> QED
  BY <1>2, <1>3 DEF Alive, Found

LEMMA NewAreConstrained == NewCreatures \in SUBSET Constrained
<1> SUFFICES ASSUME NEW c \in NewCreatures PROVE c \in Constrained
  OBVIOUS
<1>1. c \in [Variables -> {{k} : k \in Constraints}]
  BY DEF NewCreatures
<1>2. \A v \in Variables : c[v] \in SUBSET Constraints /\ c[v] # {}
  BY <1>1
<1> QED
  BY <1>1, <1>2 DEF Constrained

LEMMA MutatedAreConstrained ==
    ASSUME NEW c PROVE Mutated(c) \in SUBSET Constrained
BY DEF Mutated, MutatedAnyway, Constrained

\* A variable that loses all its constraints to the core gets a new one.
LEMMA FixedAreConstrained ==
    ASSUME NEW c \in Constrained, NEW core PROVE Fixed(c, core) \in SUBSET Constrained
<1> SUFFICES ASSUME NEW fixed \in Fixed(c, core), NEW v \in Variables PROVE fixed[v] # {}
  BY DEF Fixed, Constrained
<1>1. IF c[v] \subseteq core[v] THEN \E k \in Constraints : fixed[v] = {k}
                                ELSE fixed[v] = c[v] \ core[v]
  BY DEF Fixed
<1> QED
  BY <1>1

LEMMA AliveFacts ==
    ASSUME f \in DOMAIN Functions, next \in DOMAIN Results, NEW c \in Alive
    PROVE  /\ c.constraints \in Constrained
           /\ c.model \in Models /\ c.model \in Result.cond
           /\ Fitness(c) \in Int
<1>1. c.constraints \in Constrained /\ c.model \in Result.cond
  BY DEF Alive
<1>2. c.model \in Models
  BY <1>1, ResultFacts
<1> QED
  BY <1>1, <1>2, UglinessAssumption DEF Fitness, Models, Variables

\* The survivors of an epoch, the simplest in front.
LEMMA SimplestFacts ==
    ASSUME NEW S, NEW creatures \in Seq(S), \A c \in S : Fitness(c) \in Int
    PROVE  /\ Simplest(creatures) \in Seq(S)
           /\ creatures # <<>> =>
                 /\ Simplest(creatures) # <<>>
                 /\ \A j \in DOMAIN creatures :
                       Fitness(Simplest(creatures)[1]) <= Fitness(creatures[j])
<1> DEFINE key == [i \in DOMAIN creatures |-> Fitness(creatures[i])]
           sorted == SortedBy(creatures, key)
<1>1. PICK n \in Nat : n = Len(creatures) /\ DOMAIN creatures = 1 .. n
  OBVIOUS
<1>2. \A i \in DOMAIN creatures : Fitness(creatures[i]) \in Int
  OBVIOUS
<1>3. key \in [DOMAIN creatures -> Int]
  BY <1>2
<1>4. /\ sorted \in Seq(S) /\ Len(sorted) = n
      /\ creatures # <<>> => \E i \in DOMAIN creatures :
            /\ sorted[1] = creatures[i]
            /\ \A j \in DOMAIN creatures : key[i] <= key[j]
  <2> HIDE DEF key
  <2> QED
    BY <1>1, <1>3, SortedFacts
<1>5. Simplest(creatures) = [i \in {k \in DOMAIN sorted : k <= PopulationSize} |-> sorted[i]]
  BY DEF Simplest
<1> HIDE DEF sorted
<1>6. DOMAIN sorted = 1 .. n /\ \A i \in 1 .. n : sorted[i] \in S
  BY <1>4
<1>7. PICK m \in Nat : /\ {k \in DOMAIN sorted : k <= PopulationSize} = 1 .. m
                       /\ m <= n /\ (n > 0 => m > 0)
  <2>1. CASE n <= PopulationSize
    <3>1. {k \in DOMAIN sorted : k <= PopulationSize} = 1 .. n
      BY <1>6, <2>1, SizesAssumption
    <3> QED
      BY <3>1
  <2>2. CASE n > PopulationSize
    <3>1. {k \in DOMAIN sorted : k <= PopulationSize} = 1 .. PopulationSize
      BY <1>6, <2>2, SizesAssumption
    <3> QED
      BY <2>2, <3>1, SizesAssumption
  <2> QED
    BY <2>1, <2>2, SizesAssumption
<1>8. Simplest(creatures) = [i \in 1 .. m |-> sorted[i]]
  BY <1>5, <1>7
<1>9. Simplest(creatures) \in [1 .. m -> S]
  BY <1>6, <1>7, <1>8
<1>10. Simplest(creatures) \in Seq(S) /\ Len(Simplest(creatures)) = m
  BY <1>9
<1>11. ASSUME creatures # <<>>
       PROVE  /\ Simplest(creatures) # <<>>
              /\ \A j \in DOMAIN creatures :
                    Fitness(Simplest(creatures)[1]) <= Fitness(creatures[j])
  <2>1. n > 0 /\ m > 0
    BY <1>1, <1>7, <1>11
  <2>2. Simplest(creatures)[1] = sorted[1]
    BY <1>8, <2>1
  <2>3. PICK i \in DOMAIN creatures : /\ sorted[1] = creatures[i]
                                      /\ \A j \in DOMAIN creatures : key[i] <= key[j]
    BY <1>4, <1>11
  <2>4. \A j \in DOMAIN creatures : Fitness(creatures[i]) <= Fitness(creatures[j])
    BY <2>3
  <2>5. Simplest(creatures) # <<>>
    BY <1>10, <2>1
  <2> QED
    BY <2>2, <2>3, <2>4, <2>5
<1> QED
  BY <1>10, <1>11

LEMMA EvolutionInit == Init => EvolutionInv
<1> SUFFICES ASSUME Init PROVE EvolutionInv
  OBVIOUS
<1>1. /\ step = "select" /\ population = <<>> /\ newcomers = <<>>
      /\ parents = <<>> /\ children = <<>> /\ tested = <<>>
  BY DEF Init
<1>2. DOMAIN tests = {}
  BY DEF Init
<1> QED
  BY <1>1, <1>2 DEF EvolutionInv, Searches

\* What a step does to the tests that are made: nothing, but for AddTest.
LEMMA MeetsUnchanged ==
    ASSUME EvolutionInv, UNCHANGED <<f, tests>>
    PROVE  (\A k \in DOMAIN tests : MeetsCondition(tests[k]))'
BY DEF EvolutionInv, MeetsCondition, Models, Variables

\* A creature that joins a list, and lists that are put together.
LEMMA ListFacts ==
    ASSUME NEW S, NEW s \in Seq(S)
    PROVE  /\ \A x \in S : Append(s, x) \in Seq(S) /\ Append(s, x) # <<>>
           /\ \A t \in Seq(S) : s \o t \in Seq(S) /\ (t # <<>> => s \o t # <<>>)
           /\ s # <<>> => Head(s) \in S /\ Tail(s) \in Seq(S) /\ s[1] \in S
<1>1. \A x \in S : Append(s, x) \in Seq(S) /\ Append(s, x) # <<>>
  OBVIOUS
<1>2. ASSUME NEW t \in Seq(S) PROVE s \o t \in Seq(S) /\ (t # <<>> => s \o t # <<>>)
  <2>1. s \o t \in Seq(S) /\ Len(s \o t) = Len(s) + Len(t)
    OBVIOUS
  <2>2. t # <<>> => Len(t) > 0
    OBVIOUS
  <2>3. Len(s) \in Nat /\ Len(t) \in Nat
    OBVIOUS
  <2>4. s \o t = <<>> => Len(s \o t) = 0
    OBVIOUS
  <2> QED
    BY <2>1, <2>2, <2>3, <2>4
<1>3. s # <<>> => Head(s) \in S /\ Tail(s) \in Seq(S) /\ s[1] \in S
  OBVIOUS
<1> QED
  BY <1>1, <1>2, <1>3

LEMMA EvolutionSearch == CoverInv /\ EvolutionInv /\ Search => EvolutionInv'
<1> SUFFICES ASSUME CoverInv, EvolutionInv, Search PROVE EvolutionInv'
  OBVIOUS
<1>1. /\ step \in Searches /\ step' \in Searches
      /\ UNCHANGED <<f, next, tests>>
  BY SearchFacts
<1>2. /\ f \in DOMAIN Functions /\ next \in DOMAIN Results
      /\ population \in Seq(Alive) /\ newcomers \in Seq(Alive)
      /\ parents \in Seq(Alive) /\ children \in Seq(Alive)
      /\ step # "newcomers" => newcomers = <<>>
      /\ step # "breed" => parents = <<>> /\ children = <<>>
      /\ step # "check" => firstModel \in FirstModels
      /\ step \in {"newcomers", "epoch", "breed"} => population # <<>>
      /\ step = "check" => population = <<>>
      /\ tested # <<>> => /\ tested[1] \in Constrained
                         /\ step \in {"populate", "newcomers", "breed"}
  BY <1>1 DEF CoverInv, EvolutionInv, Searches
<1>3. /\ Results' = Results /\ Alive' = Alive /\ FirstModels' = FirstModels
      /\ Constrained' = Constrained
  BY <1>1 DEF Results, Result, Alive, Constrained, FirstModels, Variables
<1>4. (\A k \in DOMAIN tests : MeetsCondition(tests[k]))'
  BY <1>1, MeetsUnchanged
<1>5. SUFFICES
        /\ population' \in Seq(Alive) /\ newcomers' \in Seq(Alive)
        /\ parents' \in Seq(Alive) /\ children' \in Seq(Alive)
        /\ step' # "newcomers" => newcomers' = <<>>
        /\ step' # "breed" => parents' = <<>> /\ children' = <<>>
        /\ step' # "check" => firstModel' \in FirstModels
        /\ step' \in {"newcomers", "epoch", "breed"} => population' # <<>>
        /\ step' = "check" => population' = <<>>
        /\ tested' # <<>> => /\ tested'[1] \in Constrained
                            /\ step' \in {"populate", "newcomers", "breed"}
  BY <1>1, <1>2, <1>3, <1>4 DEF EvolutionInv, Searches
<1>6. <<>> \in Seq(Alive)
  OBVIOUS
<1>7. CASE Check
  BY <1>2, <1>7 DEF Check, FirstModels, evolution, generation, call
<1>8. CASE Populate
  <2>1. PICK creature \in NewCreatures : tested' = <<creature>>
    BY <1>8 DEF Populate, Call
  <2>2. /\ step \in {"populate", "newcomers"} /\ step' = step
        /\ UNCHANGED <<firstModel, generation>>
    BY <1>8 DEF Populate, HasRoom
  <2>3. tested'[1] \in Constrained
    BY <2>1, NewAreConstrained
  <2> QED
    BY <1>2, <2>2, <2>3 DEF generation
<1>9. CASE TestSat
  <2>1. PICK m \in ModelsOf(tested[1]) :
          LET With(q, here) == IF step = here THEN Append(q, Found(tested[1], m)) ELSE q
          IN  /\ population' = With(population, "populate")
              /\ newcomers' = With(newcomers, "newcomers")
              /\ children' = With(children, "breed")
    BY <1>9 DEF TestSat
  <2>2. /\ step \in {"populate", "newcomers", "breed"} /\ tested # <<>>
        /\ tested' = <<>> /\ UNCHANGED <<step, firstModel, parents>>
    BY <1>9 DEF TestSat, IsCalled, Return
  <2> DEFINE c == Found(tested[1], m)
  <2>3. c \in Alive
    BY <1>2, <2>2, FoundIsAlive
  <2> HIDE DEF c
  <2>4. /\ Append(population, c) \in Seq(Alive) /\ Append(population, c) # <<>>
        /\ Append(newcomers, c) \in Seq(Alive) /\ Append(children, c) \in Seq(Alive)
    BY <1>2, <2>3, ListFacts
  <2>5. /\ population' = IF step = "populate" THEN Append(population, c) ELSE population
        /\ newcomers' = IF step = "newcomers" THEN Append(newcomers, c) ELSE newcomers
        /\ children' = IF step = "breed" THEN Append(children, c) ELSE children
    BY <2>1 DEF c
  <2> QED
    BY <1>2, <2>2, <2>4, <2>5
<1>15. CASE TestFails
  BY <1>2, <1>15 DEF TestFails, Return, generation
<1>16. CASE Retry
  <2>0. PICK core \in Cores(tested[1]) :
          \E fixed \in Fixed(tested[1], core) : tested' = <<fixed>>
    BY <1>16 DEF Retry
  <2>1. PICK fixed \in Fixed(tested[1], core) : tested' = <<fixed>>
    BY <2>0
  <2>2. IsCalled /\ step' = step /\ UNCHANGED <<firstModel, generation>>
    BY <1>16 DEF Retry
  <2>3. tested'[1] \in Constrained
    BY <1>2, <2>1, <2>2, FixedAreConstrained DEF IsCalled
  <2> QED
    BY <1>2, <2>2, <2>3 DEF IsCalled, generation
<1>10. CASE Populated \/ PopulateTimeout
  <2>1. /\ step \in {"populate", "newcomers"}
        /\ step' = IF step = "newcomers" THEN "breed"
                   ELSE IF population = <<>> THEN "end" ELSE "epoch"
        /\ parents' = IF step = "newcomers" THEN population \o newcomers ELSE parents
        /\ newcomers' = <<>>
        /\ tested = <<>>
        /\ UNCHANGED <<firstModel, population, children, tested>>
    BY <1>10 DEF Populated, PopulateTimeout, StopPopulating, call
  <2>2. population \o newcomers \in Seq(Alive)
    BY <1>2, ListFacts
  <2> QED
    BY <1>2, <1>6, <2>1, <2>2
<1>11. CASE Epoch
  <2>1. /\ step = "epoch" /\ step' \in {"end", "newcomers"}
        /\ UNCHANGED <<firstModel, population, newcomers, parents, children, tested>>
    BY <1>11 DEF Epoch, generation, call
  <2> QED
    BY <1>2, <2>1
<1>12. CASE EndEvolution
  <2>1. /\ step = "epoch" /\ step' = "end"
        /\ UNCHANGED <<firstModel, population, newcomers, parents, children, tested>>
    BY <1>12 DEF EndEvolution, evolution, generation, call
  <2> QED
    BY <1>2, <2>1
<1>13. CASE Breed
  <2>1. PICK creature \in Mutated(Head(parents).constraints) : tested' = <<creature>>
    BY <1>13 DEF Breed, Call
  <2>2. /\ step = "breed" /\ step' = step
        /\ UNCHANGED <<firstModel, population, newcomers, parents, children>>
    BY <1>13 DEF Breed
  <2>3. tested'[1] \in Constrained
    BY <2>1, MutatedAreConstrained
  <2> QED
    BY <1>2, <2>2, <2>3
<1>17. CASE NextParent
  <2>1. /\ step = "breed" /\ parents # <<>> /\ parents' = Tail(parents)
        /\ UNCHANGED <<step, firstModel, population, newcomers, children, tested>>
    BY <1>17 DEF NextParent, call
  <2>2. Tail(parents) \in Seq(Alive)
    BY <1>2, <2>1, ListFacts
  <2> QED
    BY <1>2, <2>1, <2>2
<1>14. CASE EndEpoch
  <2>1. /\ step = "breed" /\ step' = "epoch" /\ parents = <<>>
        /\ population' = Simplest(children \o population)
        /\ children' = <<>> /\ tested = <<>>
        /\ UNCHANGED <<firstModel, newcomers, parents, tested>>
    BY <1>14 DEF EndEpoch, Survivors, call
  <2>2. children \o population \in Seq(Alive) /\ children \o population # <<>>
    BY <1>2, <2>1, ListFacts
  <2>3. \A c \in Alive : Fitness(c) \in Int
    BY <1>2, AliveFacts
  <2>4. /\ Simplest(children \o population) \in Seq(Alive)
        /\ Simplest(children \o population) # <<>>
    BY <2>2, <2>3, SimplestFacts
  <2> QED
    BY <1>2, <2>1, <2>4
<1> QED
  BY <1>7, <1>8, <1>9, <1>10, <1>11, <1>12, <1>13, <1>14, <1>15, <1>16, <1>17 DEF Search

LEMMA EvolutionAddTest == CoverInv /\ EvolutionInv /\ AddTest => EvolutionInv'
<1> SUFFICES ASSUME CoverInv, EvolutionInv, AddTest PROVE EvolutionInv'
  OBVIOUS
<1>1. /\ step = "end" /\ step' = "select" /\ f' = f
      /\ tests' = Append(tests, Test)
      /\ population' = <<>> /\ UNCHANGED <<newcomers, parents, children, tested>>
  BY DEF AddTest, call
<1>2. /\ f \in DOMAIN Functions /\ next \in DOMAIN Results
      /\ population \in Seq(Alive) /\ firstModel \in FirstModels
      /\ newcomers = <<>> /\ parents = <<>> /\ children = <<>> /\ tested = <<>>
  BY <1>1 DEF CoverInv, EvolutionInv, Searches
<1>3. MeetsCondition(Test)
  <2>1. CASE population = <<>>
    <3>1. Test.result = Result /\ ~ Test.evolved /\ Test.model = firstModel
      BY <2>1 DEF Test
    <3>2. PICK m \in Result.cond : firstModel = [v \in Result.reads |-> m[v]]
      BY <1>2 DEF FirstModels
    <3>3. \A n \in Models : (\A v \in Result.reads : n[v] = m[v]) => n \in Result.cond
      BY <1>2, ResultFacts
    <3> QED
      BY <3>1, <3>2, <3>3 DEF MeetsCondition
  <2>2. CASE population # <<>>
    <3>1. Test.result = Result /\ Test.model = population[1].model
      BY <2>2 DEF Test
    <3>2. population[1] \in Alive
      BY <1>2, <2>2, ListFacts
    <3>3. population[1].model \in [Variables -> Values] /\ population[1].model \in Result.cond
      BY <1>2, <3>2, AliveFacts DEF Models
    <3>4. \A m \in Models : (\A v \in Variables : m[v] = population[1].model[v])
                                 => m = population[1].model
      BY <3>3 DEF Models
    <3> QED
      BY <3>1, <3>3, <3>4 DEF MeetsCondition
  <2> QED
    BY <2>1, <2>2
<1>4. \A k \in DOMAIN tests' : MeetsCondition(tests'[k])
  <2>1. PICK S : tests \in Seq(S)
    BY DEF CoverInv
  <2>2. /\ DOMAIN tests' = DOMAIN tests \cup {Len(tests) + 1}
        /\ \A k \in DOMAIN tests : tests'[k] = tests[k]
        /\ tests'[Len(tests) + 1] = Test
    BY <1>1, <2>1
  <2>3. \A k \in DOMAIN tests : MeetsCondition(tests[k])
    BY DEF EvolutionInv
  <2> QED
    BY <1>3, <2>2, <2>3
<1>5. (\A k \in DOMAIN tests : MeetsCondition(tests[k]))'
  BY <1>1, <1>4 DEF MeetsCondition, Models, Variables
<1> QED
  BY <1>1, <1>2, <1>5 DEF EvolutionInv, Searches

LEMMA EvolutionNext == CoverInv /\ EvolutionInv /\ [Next]_vars => EvolutionInv'
<1> SUFFICES ASSUME CoverInv, EvolutionInv, [Next]_vars PROVE EvolutionInv'
  OBVIOUS
<1>1. CASE Search
  BY <1>1, EvolutionSearch
<1>2. CASE AddTest
  BY <1>2, EvolutionAddTest
<1>3. ASSUME UNCHANGED <<f, tests, population, newcomers, parents, children, tested>>,
             step \in {"select", "check"},
             \/ step' \in {"select", "done"}
             \/ step' = "check" /\ next' = next /\ next \in DOMAIN Results
      PROVE  EvolutionInv'
  <2>1. (\A k \in DOMAIN tests : MeetsCondition(tests[k]))'
    BY <1>3, MeetsUnchanged
  <2>2. Results' = Results
    BY <1>3 DEF Results
  <2>3. /\ population = <<>> /\ newcomers = <<>> /\ parents = <<>> /\ children = <<>>
        /\ tested = <<>>
    BY <1>3 DEF EvolutionInv
  <2>4. <<>> \in Seq(Alive')
    OBVIOUS
  <2> QED
    BY <1>3, <2>1, <2>2, <2>3, <2>4 DEF EvolutionInv, Searches
<1>4. CASE SkipResult
  BY <1>3, <1>4 DEF SkipResult, Bookkeeping, evolution, generation, call
<1>5. CASE SelectResult
  <2>1. next \in DOMAIN Results
    <3>1. next <= Len(Results)
      BY <1>5 DEF SelectResult
    <3>2. next \in Nat \ {0} /\ DOMAIN Results = 1 .. Len(Results) /\ Len(Results) \in Nat
      BY ResultsFacts DEF CoverInv
    <3> QED
      BY <3>1, <3>2
  <2> QED
    BY <1>3, <1>5, <2>1 DEF SelectResult, Bookkeeping, evolution, generation, call
<1>6. CASE EndPass
  <2>1. /\ step = "select" /\ step' \in {"select", "done"}
        /\ UNCHANGED <<f, tests, population, newcomers, parents, children, tested>>
    BY <1>6 DEF EndPass, Bookkeeping, evolution, generation, call
  <2> QED
    BY <1>3, <2>1
<1>7. CASE CheckFails
  BY <1>3, <1>7 DEF CheckFails, Bookkeeping, evolution, generation, call
<1>8. CASE UNCHANGED vars
  <2>1. UNCHANGED <<f, step, next, tests, firstModel, population, newcomers,
                    parents, children, tested>>
    BY <1>8 DEF vars, evolution, generation, call
  <2>2. /\ Results' = Results /\ Constrained' = Constrained
        /\ Alive' = Alive /\ FirstModels' = FirstModels
    BY <2>1 DEF Results, Result, Alive, Constrained, FirstModels, Variables
  <2>3. (\A k \in DOMAIN tests : MeetsCondition(tests[k]))'
    BY <2>1, MeetsUnchanged
  <2> QED
    BY <2>1, <2>2, <2>3 DEF EvolutionInv
<1>9. CASE Overflow
  <2>1. IsCalled /\ step' = "overflow" /\ tested' = <<>> /\ UNCHANGED <<f, tests>>
    BY <1>9 DEF Overflow, Return, Bookkeeping
  <2>2. (\A k \in DOMAIN tests : MeetsCondition(tests[k]))'
    BY <2>1, MeetsUnchanged
  <2> QED
    BY <2>1, <2>2 DEF EvolutionInv, Searches
<1> QED
  BY <1>1, <1>2, <1>4, <1>5, <1>6, <1>7, <1>8, <1>9 DEF Next, Done, Search

(***************************************************************************)
(* For every function: the inputs of each test lead to the result that the *)
(* test asserts, whatever the solver's models leave out and whichever      *)
(* constraints mutation removes, and wherever the search is cut.           *)
(***************************************************************************)
THEOREM InputsLeadToResult == Spec => []TestsMeetCondition
<1>1. EvolutionInv => TestsMeetCondition
  BY DEF EvolutionInv, TestsMeetCondition, MeetsCondition, Range
<1>2. CoverInv /\ EvolutionInv /\ [Next]_vars => (CoverInv /\ EvolutionInv)'
  BY CoverNext, EvolutionNext
<1> QED
  BY CoverInit, EvolutionInit, <1>1, <1>2, PTL DEF Spec

(***************************************************************************)
(* The simplest model found is never lost: after an epoch there is a       *)
(* creature at the head of the population, and its model is no less simple *)
(* than the one before, whatever became of the children.                   *)
(***************************************************************************)
PopulationImproves ==
    [][step = "breed" /\ step' = "epoch" =>
          /\ population' # <<>>
          /\ Fitness(population'[1]) <= Fitness(population[1])]_vars

(***************************************************************************)
(* For every function: an epoch never loses the simplest model, and there  *)
(* is always one for the next epoch to compare with.                       *)
(***************************************************************************)
THEOREM SimplestIsKept == Spec => PopulationImproves
<1> DEFINE Improves == step = "breed" /\ step' = "epoch" =>
                          /\ population' # <<>>
                          /\ Fitness(population'[1]) <= Fitness(population[1])
<1>1. ASSUME CoverInv, EvolutionInv, Next PROVE Improves
  <2> SUFFICES ASSUME step = "breed", step' = "epoch" PROVE Improves
    OBVIOUS
  <2>1. EndEpoch
    <3>1. ~ SkipResult /\ ~ SelectResult /\ ~ EndPass /\ ~ Check /\ ~ CheckFails
      BY DEF SkipResult, SelectResult, EndPass, Check, CheckFails
    <3>2. ~ Populate /\ ~ Populated /\ ~ PopulateTimeout
      BY DEF Populate, HasRoom, Populated, PopulateTimeout
    <3>3. ~ Epoch /\ ~ EndEvolution /\ ~ AddTest /\ ~ Done
      BY Zenon DEF Epoch, EndEvolution, AddTest, Done
    <3>4. /\ ~ Breed /\ ~ NextParent /\ ~ TestSat /\ ~ TestFails
          /\ ~ Retry /\ ~ Overflow
      BY DEF Breed, NextParent, TestSat, TestFails, Retry, Overflow
    <3> QED
      BY <1>1, <3>1, <3>2, <3>3, <3>4 DEF Next
  <2>2. /\ f \in DOMAIN Functions /\ next \in DOMAIN Results
        /\ population \in Seq(Alive) /\ children \in Seq(Alive) /\ population # <<>>
    BY <1>1 DEF CoverInv, EvolutionInv, Searches
  <2>3. population' = Simplest(children \o population)
    BY <2>1 DEF EndEpoch, Survivors
  <2>4. children \o population \in Seq(Alive) /\ children \o population # <<>>
    BY <2>2, ListFacts
  <2>5. \A c \in Alive : Fitness(c) \in Int
    BY <2>2, AliveFacts
  <2>6. /\ Simplest(children \o population) # <<>>
        /\ \A j \in DOMAIN (children \o population) :
              Fitness(Simplest(children \o population)[1])
                 <= Fitness((children \o population)[j])
    BY <2>4, <2>5, SimplestFacts
  <2>7. \E j \in DOMAIN (children \o population) : (children \o population)[j] = population[1]
    <3>1. Len(children) + 1 \in DOMAIN (children \o population)
          /\ (children \o population)[Len(children) + 1] = population[1]
      BY <2>2
    <3> QED
      BY <3>1
  <2> QED
    BY <2>3, <2>6, <2>7
<1>2. CoverInv /\ EvolutionInv /\ [Next]_vars => (CoverInv /\ EvolutionInv)'
  BY CoverNext, EvolutionNext
<1>3. CoverInv /\ EvolutionInv /\ [Next]_vars => [Improves]_vars
  BY <1>1
<1> HIDE DEF Improves
<1>4. Spec => [][Improves]_vars
  BY CoverInit, EvolutionInit, <1>2, <1>3, PTL DEF Spec
<1> QED
  BY <1>4 DEF PopulationImproves, Improves
==============================================================================
