-------------------------- MODULE InterpreterQueue --------------------------
(***************************************************************************)
(* The queues that decide which path the dynamic interpreter takes next    *)
(* (InterpreterQueue.kt), in the loop that uses them (interpretLoop): a    *)
(* state is taken, makes a step, and is added again unless its path ended; *)
(* a step that forks adds the clone first.                                 *)
(*                                                                         *)
(* Standard is a TreeSet ordered by the priority a state had when it was   *)
(* added: the state of the least priority is next, and of two states of    *)
(* one priority the set keeps the one it has.  WeightedRandom is a list,   *)
(* from which a random weight selects a state.                             *)
(***************************************************************************)
EXTENDS Naturals, FiniteSets, Sequences

CONSTANTS MaxStates,    \* bound: the number of states that may be made
          MinPriority,  \* 10 in the code
          MaxPriority   \* 99 in the code

ASSUME MaxStatesAssumption == MaxStates \in Nat \ {0}
ASSUME PrioritiesAssumption ==
    MinPriority \in Nat /\ MaxPriority \in Nat /\ 1 < MinPriority
                        /\ MinPriority <= MaxPriority

States == 1 .. MaxStates
Standards == {"dfs", "bfs", "timeAfterNewCode"}
Randoms == {"random", "randomTimeAfterNewCode"}

VARIABLES policy,     \* which queue is used (never changes)
          created,    \* how many states were made so far
          ended,      \* the states whose path ended
          entries,    \* the content: treeSet in its order, or list
          sumWeight,  \* sumWeight of WeightedRandom
          age,        \* time - newCodeTime of each state
          last        \* the state that made the last step (auxiliary)

vars == <<policy, created, ended, entries, sumWeight, age, last>>

Entry(s, w) == [state |-> s, weight |-> w]
EntryStates == {entries[k].state : k \in DOMAIN entries}

\* priorityTimeFromNewCodeFound; an age that makes no difference is not kept.
MaxAge == MaxPriority - MinPriority
NewCodePriority(a) == MaxPriority - a

(***************************************************************************)
(* The weights a state of age a may get.  dfsCounter and bfsCounter give a *)
(* new least and a new greatest priority each time: their order is that of *)
(* the entries, and the numbers are not kept.                              *)
(***************************************************************************)
Weights(a) ==
    CASE policy \in {"dfs", "bfs"} -> {0}
      [] policy = "random"         -> {MinPriority, MaxPriority}
      [] OTHER                     -> {NewCodePriority(a)}

\* A sorted list with e behind its first n entries.
Insert(q, n, e) == SubSeq(q, 1, n) \o <<e>> \o SubSeq(q, n + 1, Len(q))

\* Mutant: states of one priority are told apart.
InOrderAll(q, e) == Insert(q, Cardinality({k \in DOMAIN q : q[k].weight <= e.weight}), e)

\* TreeSet.add: in order, and not at all if the priority is there already.
InOrder(q, e) ==
    IF \E k \in DOMAIN q : q[k].weight = e.weight THEN q
    ELSE Insert(q, Cardinality({k \in DOMAIN q : q[k].weight < e.weight}), e)

\* Mutants: a state is always added in front of the others, or behind them.
AddFirst(q, e) == <<e>> \o q
AddLast(q, e) == Append(q, e)

Add(q, e) ==
    CASE policy = "dfs" -> <<e>> \o q
      [] policy = "bfs" -> Append(q, e)
      [] policy = "timeAfterNewCode" -> InOrder(q, e)
      [] policy \in Randoms -> Append(q, e)

\* The sums of the weights of the first k entries, and of all.
Sums(q) ==
    LET sum[k \in 0 .. Len(q)] == IF k = 0 THEN 0 ELSE sum[k - 1] + q[k].weight
    IN  sum

SumOf(q) == Sums(q)[Len(q)]

(***************************************************************************)
(* WeightedRandom.get: entries whose weight does not use up the random     *)
(* number go to the end of the list, again and again.                      *)
(***************************************************************************)
Selected(q, random) ==
    CHOOSE k \in DOMAIN q : /\ random <= Sums(q)[k]
                            /\ \A j \in 1 .. k - 1 : Sums(q)[j] < random

\* The positions that get() may take its state from.
Candidates ==
    IF policy \in Randoms
    THEN {Selected(entries, random) : random \in 0 .. sumWeight - 1}
    ELSE {1}

\* Mutant: the state that is taken stays in the list.
Kept(q, k) == SubSeq(q, k, Len(q)) \o SubSeq(q, 1, k - 1)

Rotated(q, k) == SubSeq(q, k + 1, Len(q)) \o SubSeq(q, 1, k - 1)

\* Mutant: the weight of the state that is taken is counted on.
WeightKept(k) == sumWeight

WeightLeft(k) == sumWeight - entries[k].weight

-----------------------------------------------------------------------------

Init ==
    /\ policy \in Standards \cup Randoms
    /\ created = 1
    /\ ended = {}
    /\ age = [s \in States |-> 0]
    /\ \E w \in Weights(0) : /\ entries = <<Entry(1, w)>>
                             /\ sumWeight = w
    /\ last = 1

GrownForever(a) == a + 1  \* mutant: the priority has no lower bound

\* time grows with each node; newCodeTime is time at a node never seen before.
Grown(a) == IF a = MaxAge THEN a ELSE a + 1

\* A step that ends neither the path nor splits it.
Visit ==
    \E k \in Candidates, newCode \in BOOLEAN :
        LET s == entries[k].state
            a == IF newCode THEN 0 ELSE Grown(age[s])
        IN  \E w \in Weights(a) :
              /\ entries' = Add(Rotated(entries, k), Entry(s, w))
              /\ sumWeight' = WeightLeft(k) + w
              /\ age' = [age EXCEPT ![s] = a]
              /\ last' = s
              /\ UNCHANGED <<policy, created, ended>>

\* startDynamicNodeInterpretation adds the clone, interpretLoop the state.
Fork ==
    /\ created < MaxStates
    /\ \E k \in Candidates :
        LET s == entries[k].state
            a == Grown(age[s])
        IN  \E w, v \in Weights(a) :
              /\ created' = created + 1
              /\ entries' = Add(Add(Rotated(entries, k), Entry(created + 1, v)),
                                Entry(s, w))
              /\ sumWeight' = WeightLeft(k) + v + w
              /\ age' = [age EXCEPT ![s] = a, ![created + 1] = a]
              /\ last' = s
              /\ UNCHANGED <<policy, ended>>

\* The path returned or was stopped: its state is not added again.
End ==
    \E k \in Candidates :
        /\ entries' = Rotated(entries, k)
        /\ sumWeight' = WeightLeft(k)
        /\ ended' = ended \cup {entries[k].state}
        /\ last' = entries[k].state
        /\ UNCHANGED <<policy, created, age>>

Next ==
    \/ entries # <<>> /\ (Visit \/ Fork \/ End)
    \/ entries = <<>> /\ UNCHANGED vars

Spec == Init /\ [][Next]_vars

\* interpretLoop goes on as long as the queue has a state.
FairSpec == Spec /\ WF_vars(Next)

-----------------------------------------------------------------------------

TypeOK ==
    /\ policy \in Standards \cup Randoms
    /\ created \in States
    /\ ended \subseteq 1 .. created
    /\ entries \in Seq([state : 1 .. created, weight : 0 .. MaxPriority])
    /\ sumWeight \in Nat
    /\ age \in [States -> 0 .. MaxAge]
    /\ last \in 1 .. created

(***************************************************************************)
(* No path is lost and none is explored twice: the queue has each state    *)
(* whose path has not ended, once.  Not so for timeAfterNewCodeQueue.      *)
(***************************************************************************)
NothingLost ==
    policy # "timeAfterNewCode" =>
        /\ EntryStates = (1 .. created) \ ended
        /\ Len(entries) = created - Cardinality(ended)

(***************************************************************************)
(* timeAfterNewCodeQueue never has a state twice either, but of two states *)
(* of one priority it loses one: a clone and the state it was cloned from  *)
(* have the same times, so that no fork gives it more than one state.      *)
(***************************************************************************)
ForksGainNothing ==
    [][policy = "timeAfterNewCode" /\ created' > created =>
          Len(entries') <= Len(entries)]_vars

(***************************************************************************)
(* sumWeight keeps up with the list over any sequence of add() and get(),  *)
(* and so every state in the list may be the next one.                     *)
(***************************************************************************)
AnyStateMayBeNext ==
    policy \in Randoms => /\ sumWeight = SumOf(entries)
                          /\ Candidates = DOMAIN entries

(***************************************************************************)
(* dfsQueue explores the newest fork first: behind the state it is busy    *)
(* with, the states wait from the newest to the oldest.                    *)
(***************************************************************************)
NewestForkFirst ==
    policy = "dfs" =>
        \A j, k \in 2 .. Len(entries) : j < k => entries[j].state > entries[k].state

(***************************************************************************)
(* bfsQueue starves no path: a state in it makes a step after a while,     *)
(* whatever the others do.                                                 *)
(***************************************************************************)
NoPathStarves ==
    \A s \in States :
        (policy = "bfs" /\ s \in EntryStates) ~> (last = s)
=============================================================================
