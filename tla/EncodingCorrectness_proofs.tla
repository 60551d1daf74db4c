---------------------- MODULE EncodingCorrectness_proofs ----------------------
(***************************************************************************)
(* Proofs about SsaEncoding, for every collection of packages.             *)
(*                                                                         *)
(* An object is written in full once, whatever leads to it, and links come *)
(* after it and carry its id: WalkInv says so of the nodes that are        *)
(* written, of the ids of objects and of the calls that are still to be    *)
(* made.                                                                   *)
(*                                                                         *)
(* What is decoded is the program: the encoder keeps an order of the nodes *)
(* and of the calls behind them, in which every part of every object has   *)
(* its place (TreeInv).  The decoder reads the nodes in that order, and    *)
(* constructs a node behind those in it (DecodeInv): an id that a field    *)
(* has too is entered for the field first, and for the other node last.    *)
(***************************************************************************)
EXTENDS EncodingCorrectness, SequenceTheorems, FiniteSetTheorems, TLAPS

(***************************************************************************)
(* Induction over the natural numbers, on the set of those for which a     *)
(* statement is true: otherwise there is a least one for which it is not.  *)
(***************************************************************************)
LEMMA SetInduction ==
    ASSUME NEW S, 0 \in S, \A n \in Nat : n \in S => n + 1 \in S
    PROVE  Nat \subseteq S
<1> SUFFICES ASSUME NEW n \in Nat, n \notin S PROVE FALSE
  OBVIOUS
<1> DEFINE Upto == [k \in Nat |-> 0 .. k]
           T == {Upto[k] : k \in Nat \ S}
<1>1. IsWellFoundedOn(StrictSubsetOrdering(Nat), FiniteSubsetsOf(Nat))
  BY FS_StrictSubsetOrderingWellFounded
<1>2. T \subseteq FiniteSubsetsOf(Nat)
  <2>1. \A k \in Nat : 0 .. k \in SUBSET Nat /\ IsFiniteSet(0 .. k)
    BY FS_Interval
  <2> QED
    BY <2>1 DEF FiniteSubsetsOf
<1>3. T # {}
  OBVIOUS
<1> HIDE DEF T
<1>4. PICK U \in T : \A V \in T : <<V, U>> \notin StrictSubsetOrdering(Nat)
  BY <1>1, <1>2, <1>3, WFMin
<1> USE DEF T
<1>5. PICK k \in Nat \ S : U = 0 .. k
  OBVIOUS
<1>6. k # 0 /\ k - 1 \in Nat /\ k - 1 \notin S
  <2>1. k # 0
    OBVIOUS
  <2>2. k - 1 \in Nat /\ (k - 1) + 1 = k
    BY <2>1
  <2> QED
    BY <2>1, <2>2
<1>7. 0 .. k - 1 \in T
  BY <1>6
<1>8. <<0 .. k - 1, U>> \in StrictSubsetOrdering(Nat)
  <2>1. 0 .. k - 1 \in SUBSET Nat /\ U \in SUBSET Nat /\ 0 .. k - 1 \subseteq U
    BY <1>5, <1>6
  <2>2. k \in U /\ k \notin 0 .. k - 1
    BY <1>5
  <2> QED
    BY <2>1, <2>2 DEF StrictSubsetOrdering
<1> QED
  BY <1>4, <1>7, <1>8

LEMMA SeqOfMore ==
    ASSUME NEW S, NEW T, S \subseteq T, NEW q \in Seq(S)
    PROVE  q \in Seq(T)
OBVIOUS

\* h[i] is the first i of seqs, one after the other.
Flattens(h, S, seqs) ==
    /\ \A i \in 1 .. Len(seqs) :
          h[i] \in Seq(S) /\ h[i] = IF i = 1 THEN seqs[i] ELSE h[i - 1] \o seqs[i]
    /\ Len(seqs) # 0 => FlattenSeq(seqs) = h[Len(seqs)]

\* The definition of FlattenSeq is a recursive function, which exists.
LEMMA FlattenFacts ==
    ASSUME NEW S, NEW seqs \in Seq(Seq(S))
    PROVE  /\ FlattenSeq(seqs) \in Seq(S)
           /\ Len(seqs) = 1 => FlattenSeq(seqs) = seqs[1]
           /\ Len(seqs) = 0 => FlattenSeq(seqs) = seqs
           /\ \E h : Flattens(h, S, seqs)
<1> DEFINE m == Len(seqs)
           Step(f, i) == IF i = 1 THEN seqs[i] ELSE f[i - 1] \o seqs[i]
           IsFlat(f, n) == \A i \in 1 .. n : f[i] = Step(f, i)
           T == {n \in Nat : n <= m => \E f \in [1 .. n -> Seq(S)] : IsFlat(f, n)}
<1>1. m \in Nat /\ \A i \in 1 .. m : seqs[i] \in Seq(S)
  OBVIOUS
<1> HIDE DEF m
<1>2. 0 \in T
  <2>1. [i \in 1 .. 0 |-> <<>>] \in [1 .. 0 -> Seq(S)]
    OBVIOUS
  <2>2. IsFlat([i \in 1 .. 0 |-> <<>>], 0)
    OBVIOUS
  <2> HIDE DEF IsFlat
  <2> QED
    BY <2>1, <2>2
<1>3. ASSUME NEW n \in Nat, n \in T PROVE n + 1 \in T
  <2> HIDE DEF IsFlat
  <2> SUFFICES ASSUME n + 1 <= m
               PROVE  \E f \in [1 .. n + 1 -> Seq(S)] : IsFlat(f, n + 1)
    OBVIOUS
  <2>1. PICK f \in [1 .. n -> Seq(S)] : IsFlat(f, n)
    BY <1>1, <1>3
  <2> DEFINE e == IF n = 0 THEN seqs[n + 1] ELSE f[n] \o seqs[n + 1]
             g == [i \in 1 .. n + 1 |-> IF i = n + 1 THEN e ELSE f[i]]
  <2>2. n + 1 \in 1 .. m /\ seqs[n + 1] \in Seq(S)
    BY <1>1
  <2>3. e \in Seq(S)
    <3>1. CASE n = 0
      BY <2>2, <3>1
    <3>2. CASE n # 0
      <4>1. n \in 1 .. n /\ f[n] \in Seq(S)
        BY <2>1, <3>2
      <4>2. f[n] \o seqs[n + 1] \in Seq(S)
        BY <2>2, <4>1, ConcatProperties
      <4> QED
        BY <3>2, <4>2
    <3> QED
      BY <3>1, <3>2
  <2> HIDE DEF e
  <2>4. g \in [1 .. n + 1 -> Seq(S)]
    BY <2>1, <2>3
  <2>5. ASSUME NEW i \in 1 .. n + 1 PROVE g[i] = Step(g, i)
    <3>1. CASE i = n + 1
      <4>1. CASE n = 0
        BY <3>1, <4>1 DEF e
      <4>2. CASE n # 0
        <5>1. i # 1 /\ i - 1 = n /\ n \in 1 .. n + 1 /\ n # n + 1
          BY <3>1, <4>2
        <5>2. g[n] = f[n] /\ g[i] = e
          BY <3>1, <5>1
        <5> HIDE DEF g
        <5> QED
          BY <3>1, <4>2, <5>1, <5>2 DEF e
      <4> QED
        BY <4>1, <4>2
    <3>2. CASE i # n + 1
      <4>1. i \in 1 .. n
        BY <3>2
      <4>2. f[i] = Step(f, i)
        BY <2>1, <4>1 DEF IsFlat
      <4>3. g[i] = f[i]
        BY <3>2
      <4>4. i # 1 => g[i - 1] = f[i - 1]
        BY <4>1
      <4> HIDE DEF g
      <4> QED
        BY <4>2, <4>3, <4>4
    <3> QED
      BY <3>1, <3>2
  <2>6. IsFlat(g, n + 1)
    BY <2>5 DEF IsFlat
  <2> HIDE DEF g
  <2> QED
    BY <2>4, <2>6
<1>4. Nat \subseteq T
  <2> HIDE DEF T
  <2> QED
    BY <1>2, <1>3, SetInduction
<1>5. PICK f \in [1 .. m -> Seq(S)] : IsFlat(f, m)
  <2>1. m \in T
    BY <1>1, <1>4
  <2> HIDE DEF IsFlat
  <2> QED
    BY <1>1, <2>1
<1> DEFINE flatten == CHOOSE h : h = [i \in 1 .. m |-> Step(h, i)]
<1>6. flatten = [i \in 1 .. m |-> Step(flatten, i)]
  <2>1. f = [i \in 1 .. m |-> Step(f, i)]
    BY <1>5
  <2> QED
    BY <2>1
<1>7. FlattenSeq(seqs) = IF m = 0 THEN seqs ELSE flatten[m]
  BY DEF FlattenSeq, m
<1> HIDE DEF flatten
<1>8. \A i \in 1 .. m : flatten[i] = Step(flatten, i)
  BY <1>6
<1> DEFINE U == {n \in Nat : n + 1 <= m => flatten[n + 1] \in Seq(S)}
<1>9. 0 \in U
  <2> SUFFICES ASSUME 0 + 1 <= m PROVE flatten[0 + 1] \in Seq(S)
    OBVIOUS
  <2>1. 0 + 1 \in 1 .. m /\ 0 + 1 = 1
    BY <1>1
  <2>2. flatten[0 + 1] = seqs[0 + 1] /\ seqs[0 + 1] \in Seq(S)
    BY <1>1, <1>8, <2>1, Zenon
  <2> QED
    BY <2>2
<1>10. ASSUME NEW n \in Nat, n \in U PROVE n + 1 \in U
  <2> SUFFICES ASSUME (n + 1) + 1 <= m PROVE flatten[(n + 1) + 1] \in Seq(S)
    OBVIOUS
  <2>1. (n + 1) + 1 \in 1 .. m /\ (n + 1) + 1 # 1 /\ ((n + 1) + 1) - 1 = n + 1
    BY <1>1
  <2>2. flatten[n + 1] \in Seq(S) /\ seqs[(n + 1) + 1] \in Seq(S)
    BY <1>1, <1>10, <2>1
  <2>3. flatten[(n + 1) + 1] = flatten[n + 1] \o seqs[(n + 1) + 1]
    BY <1>8, <2>1
  <2>4. flatten[n + 1] \o seqs[(n + 1) + 1] \in Seq(S)
    BY <2>2, ConcatProperties
  <2> QED
    BY <2>3, <2>4
<1>11. Nat \subseteq U
  <2> HIDE DEF U
  <2> QED
    BY <1>9, <1>10, SetInduction
<1>12. FlattenSeq(seqs) \in Seq(S)
  <2>1. CASE m = 0
    BY <1>7, <2>1 DEF m
  <2>2. CASE m # 0
    <3>1. m - 1 \in Nat /\ (m - 1) + 1 = m
      BY <1>1, <2>2
    <3>2. m - 1 \in U
      BY <1>11, <3>1
    <3> QED
      BY <1>1, <1>7, <2>2, <3>1, <3>2
  <2> QED
    BY <2>1, <2>2
<1>13. m = 1 => FlattenSeq(seqs) = seqs[1]
  BY <1>7, <1>8
<1>14. m = 0 => FlattenSeq(seqs) = seqs
  BY <1>7
<1>15. ASSUME NEW i \in 1 .. m
       PROVE  flatten[i] \in Seq(S)
                 /\ flatten[i] = IF i = 1 THEN seqs[i] ELSE flatten[i - 1] \o seqs[i]
  <2>1. i - 1 \in Nat /\ (i - 1) + 1 = i /\ i <= m
    BY <1>1
  <2>2. i - 1 \in U
    BY <1>11, <2>1
  <2>3. flatten[i] \in Seq(S)
    BY <2>1, <2>2
  <2> QED
    BY <1>8, <2>3, Zenon
<1>16. m # 0 => FlattenSeq(seqs) = flatten[m]
  BY <1>7
<1> HIDE DEF Step, IsFlat, T, U
<1>17. Flattens(flatten, S, seqs)
  BY <1>15, <1>16, Zenon DEF m, Flattens
<1> QED
  BY <1>12, <1>13, <1>14, <1>17, Zenon DEF m

-----------------------------------------------------------------------------

(* Objects, and the calls that encode what they refer to *)

LEMMA ObjectFacts ==
    ASSUME prog \in DOMAIN Programs
    PROVE  /\ IsFiniteSet(DOMAIN Objects)
           /\ Programs[prog].functions \subseteq DOMAIN Objects
           /\ \A f \in Programs[prog].functions : KindOf(f) = "Function"
           /\ \A o \in DOMAIN Objects : \A key : At(o, key) \in Seq(DOMAIN Objects)
           /\ \A o \in DOMAIN Objects : \A key : \A i \in DOMAIN At(o, key) :
                 KindOf(At(o, key)[i]) = "Field"
                   <=> KindOf(o) = "Struct" /\ key = "fields"
           /\ \A o, p \in DOMAIN Objects :
                 KindOf(o) = "Struct" /\ KindOf(p) = "Struct" =>
                    \A i \in DOMAIN At(o, "fields"), j \in DOMAIN At(p, "fields") :
                        At(o, "fields")[i] = At(p, "fields")[j] => o = p /\ i = j
<1>1. IsPackage(Programs[prog])
  BY ProgramsAssumption
<1>f. IsFiniteSet(DOMAIN Objects)
  BY <1>1, Zenon DEF IsPackage, Objects
<1>2. /\ Programs[prog].functions \subseteq DOMAIN Objects
      /\ \A f \in Programs[prog].functions : KindOf(f) = "Function"
  BY <1>1, Zenon DEF IsPackage, Objects, KindOf
<1>3. \A o \in DOMAIN Objects : \A key \in DOMAIN Objects[o].at :
         /\ Objects[o].at[key] \in Seq(DOMAIN Objects)
         /\ \A i \in DOMAIN Objects[o].at[key] :
               KindOf(Objects[o].at[key][i]) = "Field"
                 <=> KindOf(o) = "Struct" /\ key = "fields"
  BY <1>1, Zenon DEF IsPackage, Objects, KindOf
<1>4. ASSUME NEW o \in DOMAIN Objects, NEW key
      PROVE  \/ key \in DOMAIN Objects[o].at /\ At(o, key) = Objects[o].at[key]
             \/ key \notin DOMAIN Objects[o].at /\ At(o, key) = <<>>
  BY DEF At
<1>5. ASSUME NEW o \in DOMAIN Objects, NEW key PROVE At(o, key) \in Seq(DOMAIN Objects)
  <2>1. CASE key \in DOMAIN Objects[o].at
    <3>1. At(o, key) = Objects[o].at[key]
      BY <1>4, <2>1, Zenon
    <3>2. Objects[o].at[key] \in Seq(DOMAIN Objects)
      BY <1>3, <2>1, Zenon
    <3> QED
      BY <3>1, <3>2, Zenon
  <2>2. CASE key \notin DOMAIN Objects[o].at
    <3>1. At(o, key) = <<>>
      BY <1>4, <2>2, Zenon
    <3> QED
      BY <3>1
  <2> QED
    BY <2>1, <2>2
<1>6. ASSUME NEW o \in DOMAIN Objects, NEW key, NEW i \in DOMAIN At(o, key)
      PROVE  key \in DOMAIN Objects[o].at /\ At(o, key) = Objects[o].at[key]
  <2>1. DOMAIN <<>> = {}
    OBVIOUS
  <2> QED
    BY <1>4, <2>1
<1>7. ASSUME NEW o \in DOMAIN Objects, NEW key, NEW i \in DOMAIN At(o, key)
      PROVE  KindOf(At(o, key)[i]) = "Field" <=> KindOf(o) = "Struct" /\ key = "fields"
  <2>1. key \in DOMAIN Objects[o].at /\ At(o, key) = Objects[o].at[key]
    BY <1>6
  <2>2. i \in DOMAIN Objects[o].at[key]
    BY <2>1
  <2>3. KindOf(Objects[o].at[key][i]) = "Field" <=> KindOf(o) = "Struct" /\ key = "fields"
    BY <1>3, <2>1, <2>2, Zenon
  <2> QED
    BY <2>1, <2>3, Zenon
<1>8. ASSUME NEW o \in DOMAIN Objects, NEW p \in DOMAIN Objects,
             KindOf(o) = "Struct", KindOf(p) = "Struct",
             NEW i \in DOMAIN At(o, "fields"), NEW j \in DOMAIN At(p, "fields"),
             At(o, "fields")[i] = At(p, "fields")[j]
      PROVE  o = p /\ i = j
  <2>1. /\ "fields" \in DOMAIN Objects[o].at /\ At(o, "fields") = Objects[o].at["fields"]
        /\ "fields" \in DOMAIN Objects[p].at /\ At(p, "fields") = Objects[p].at["fields"]
    BY <1>6
  <2>2. /\ Objects[o].kind = "Struct" /\ Objects[p].kind = "Struct"
        /\ i \in DOMAIN Objects[o].at["fields"] /\ j \in DOMAIN Objects[p].at["fields"]
        /\ Objects[o].at["fields"][i] = Objects[p].at["fields"][j]
    BY <1>8, <2>1 DEF KindOf
  <2> DEFINE Structs == {q \in DOMAIN Objects : Objects[q].kind = "Struct"
                                                  /\ "fields" \in DOMAIN Objects[q].at}
  <2>3. o \in Structs /\ p \in Structs
    BY <2>1, <2>2
  <2>4. \A q, r \in Structs :
           \A k \in DOMAIN Objects[q].at["fields"], l \in DOMAIN Objects[r].at["fields"] :
              Objects[q].at["fields"][k] = Objects[r].at["fields"][l] => q = r /\ k = l
    BY <1>1, Zenon DEF IsPackage, Objects
  <2> HIDE DEF Structs
  <2>5. \A k \in DOMAIN Objects[o].at["fields"], l \in DOMAIN Objects[p].at["fields"] :
           Objects[o].at["fields"][k] = Objects[p].at["fields"][l] => o = p /\ k = l
    BY <2>3, <2>4, Zenon
  <2> QED
    BY <2>2, <2>5, Zenon
<1> QED
  BY <1>f, <1>2, <1>5, <1>7, <1>8, Zenon

\* What the parts of an object are encoded with, but for the fields of a structure.
Encoders == {"encodeNode", "encodeParameter", "encodeBlock", "encodeType"}

Keys == {"valueType", "params", "body", "instr", "rhs", "fields", "elemType", "methods",
         "embedded", "underlying", "cond", "elseBody", "successor", "results", "addr",
         "value", "args", "edges", "preds", "x", "y", "high", "len", "index"}

PartCalls == {Call(encode, key) : encode \in Encoders, key \in Keys}

LEMMA TupleFacts ==
    ASSUME NEW S, NEW a \in S, NEW b \in S, NEW c \in S
    PROVE  /\ <<a>> \in Seq(S) /\ <<a, b>> \in Seq(S) /\ <<a, b, c>> \in Seq(S)
           /\ <<>> \in Seq(S)
OBVIOUS

LEMMA PartCallsFacts == \A e \in Encoders, k \in Keys : Call(e, k) \in PartCalls
BY DEF PartCalls

LEMMA EncodeNodesFacts ==
    /\ \A a \in Keys : EncodeNodes(<<a>>) \in Seq(PartCalls)
    /\ \A a, b \in Keys : EncodeNodes(<<a, b>>) \in Seq(PartCalls)
<1>1. ASSUME NEW keys \in Seq(Keys) PROVE EncodeNodes(keys) \in Seq(PartCalls)
  <2>1. /\ DOMAIN keys = 1 .. Len(keys) /\ Len(keys) \in Nat
        /\ \A i \in DOMAIN keys : keys[i] \in Keys
    OBVIOUS
  <2>2. "encodeNode" \in Encoders
    BY DEF Encoders
  <2>3. \A i \in DOMAIN keys : Call("encodeNode", keys[i]) \in PartCalls
    BY <2>1, <2>2, PartCallsFacts, Zenon
  <2>4. EncodeNodes(keys) \in [1 .. Len(keys) -> PartCalls]
    BY <2>1, <2>3 DEF EncodeNodes
  <2> QED
    BY <2>1, <2>4
<1> QED
  BY <1>1, TupleFacts, Zenon

LEMMA CallsOfFacts ==
    ASSUME NEW kind
    PROVE  /\ kind # "Struct" => CallsOf(kind) \in Seq(PartCalls)
           /\ kind = "Struct" => CallsOf(kind) = <<Call("field", "fields")>>
<1> DEFINE T == Seq(PartCalls)
<1> HIDE DEF T
<1>k. /\ "x" \in Keys /\ "y" \in Keys /\ "value" \in Keys /\ "args" \in Keys /\ "high" \in Keys
      /\ "len" \in Keys /\ "index" \in Keys /\ "valueType" \in Keys /\ "results" \in Keys
      /\ "addr" \in Keys /\ "elemType" \in Keys /\ "methods" \in Keys /\ "embedded" \in Keys
      /\ "underlying" \in Keys /\ "params" \in Keys /\ "body" \in Keys /\ "instr" \in Keys
      /\ "edges" \in Keys /\ "preds" \in Keys /\ "rhs" \in Keys /\ "successor" \in Keys
      /\ "cond" \in Keys /\ "elseBody" \in Keys
  BY DEF Keys
<1>e. /\ "encodeNode" \in Encoders /\ "encodeParameter" \in Encoders
      /\ "encodeBlock" \in Encoders /\ "encodeType" \in Encoders
  BY DEF Encoders
<1>c. \A e \in Encoders, k \in Keys : Call(e, k) \in PartCalls
  BY PartCallsFacts
<1>t. /\ <<>> \in T
      /\ \A a \in PartCalls : <<a>> \in T
      /\ \A a, b \in PartCalls : <<a, b>> \in T
      /\ \A a, b, c \in PartCalls : <<a, b, c>> \in T
  BY DEF T
<1>n. /\ \A a \in Keys : EncodeNodes(<<a>>) \in T
      /\ \A a, b \in Keys : EncodeNodes(<<a, b>>) \in T
  BY EncodeNodesFacts, Zenon DEF T
<1>1. /\ EncodeNodes(<<"x", "y">>) \in T /\ EncodeNodes(<<"value", "args">>) \in T
      /\ EncodeNodes(<<"x">>) \in T /\ EncodeNodes(<<"x", "high">>) \in T
      /\ EncodeNodes(<<"len">>) \in T /\ EncodeNodes(<<"x", "index">>) \in T
      /\ EncodeNodes(<<"valueType">>) \in T /\ EncodeNodes(<<"results">>) \in T
      /\ EncodeNodes(<<"addr", "value">>) \in T /\ EncodeNodes(<<"elemType">>) \in T
      /\ EncodeNodes(<<"methods", "embedded">>) \in T
      /\ EncodeNodes(<<"underlying", "methods">>) \in T
  BY <1>k, <1>n, Zenon
<1>2. /\ FunctionCalls \in T /\ ParameterCalls \in T /\ BlockCalls \in T
      /\ FuncTypeCalls \in T /\ PhiCalls \in T /\ <<>> \in T
  BY <1>k, <1>e, <1>c, <1>t, Zenon
  DEF FunctionCalls, ParameterCalls, BlockCalls, FuncTypeCalls, PhiCalls
<1>3. /\ <<Call("encodeType", "rhs")>> \in T /\ <<Call("encodeBlock", "successor")>> \in T
      /\ <<Call("encodeNode", "cond"), Call("encodeBlock", "body"),
           Call("encodeBlock", "elseBody")>> \in T
  BY <1>k, <1>e, <1>c, <1>t, Zenon
<1>4. EncodeNodes(<<"valueType">>) \in T /\ OperandCalls(kind) \in T
  BY <1>1, <1>2, Zenon DEF OperandCalls
<1>5. ValueCalls(kind) \in T
  BY <1>4, ConcatProperties, Zenon DEF ValueCalls, T
<1>6. InstructionCalls(kind) \in T
  BY <1>1, <1>2, <1>3, Zenon DEF InstructionCalls
<1>7. kind # "Struct" => TypeCalls(kind) \in T
  BY <1>1, <1>2, <1>3, Zenon DEF TypeCalls
<1>8. kind # "Struct" => CallsOf(kind) \in T
  BY <1>1, <1>2, <1>5, <1>6, <1>7, Zenon DEF CallsOf
<1>9. kind = "Struct" => CallsOf(kind) = <<Call("field", "fields")>>
  <2> SUFFICES ASSUME kind = "Struct" PROVE CallsOf("Struct") = <<Call("field", "fields")>>
    OBVIOUS
  <2>1. CallsOf("Struct") = TypeCalls("Struct")
    <3>1. "Struct" \in TypeKinds /\ "Struct" \notin ValueKinds
      BY DEF TypeKinds, ValueKinds
    <3>2. /\ "Struct" # "Function" /\ "Struct" # "Parameter" /\ "Struct" # "BasicBlock"
          /\ "Struct" # "Func" /\ "Struct" # "Field"
      OBVIOUS
    <3> QED
      BY <3>1, <3>2, Zenon DEF CallsOf
  <2>2. TypeCalls("Struct") = <<Call("field", "fields")>>
    BY DEF TypeCalls
  <2> QED
    BY <2>1, <2>2
<1> QED
  BY <1>8, <1>9 DEF T

\* The calls for the parts of an object: no part but that of a structure is a field.
PartsAt(n) == {c \in [encode : Encoders, of : DOMAIN Objects, in : {n}, key : Keys,
                       nr : Nat] :
                 KindOf(c.of) # "Field"}

FieldCall(o, i, n) ==
    [encode |-> "field", of |-> At(o, "fields")[i], in |-> n, key |-> "fields", nr |-> i]

LEMMA PartCallsAre ==
    ASSUME NEW c \in PartCalls
    PROVE  c.encode \in Encoders /\ c.key \in Keys
BY DEF PartCalls, Call

LEMMA CallsForParts ==
    ASSUME prog \in DOMAIN Programs, NEW o \in DOMAIN Objects, NEW n,
           KindOf(o) # "Struct"
    PROVE  CallsFor(o, n) \in Seq(PartsAt(n))
<1> DEFINE calls0 == CallsOf(KindOf(o))
           ForKey(c) == [i \in DOMAIN At(o, c.key) |->
                           [encode |-> c.encode, of |-> At(o, c.key)[i],
                            in |-> n, key |-> c.key, nr |-> i]]
           lists == [k \in DOMAIN calls0 |-> ForKey(calls0[k])]
<1>1. calls0 \in Seq(PartCalls)
  BY CallsOfFacts, Zenon
<1> HIDE DEF calls0
<1>2. ASSUME NEW c \in PartCalls PROVE ForKey(c) \in Seq(PartsAt(n))
  <2>1. c.encode \in Encoders /\ c.key \in Keys
    BY PartCallsAre
  <2>2. At(o, c.key) \in Seq(DOMAIN Objects)
    BY ObjectFacts, Zenon
  <2>3. \A i \in DOMAIN At(o, c.key) : KindOf(At(o, c.key)[i]) # "Field"
    BY ObjectFacts, Zenon
  <2> DEFINE s == At(o, c.key)
  <2>4. s \in Seq(DOMAIN Objects) /\ \A i \in DOMAIN s : KindOf(s[i]) # "Field"
    BY <2>2, <2>3
  <2> HIDE DEF s
  <2>5. DOMAIN s = 1 .. Len(s) /\ Len(s) \in Nat /\ \A i \in DOMAIN s : s[i] \in DOMAIN Objects
    BY <2>4
  <2>6. \A i \in DOMAIN s :
           [encode |-> c.encode, of |-> s[i], in |-> n, key |-> c.key, nr |-> i] \in PartsAt(n)
    BY <2>1, <2>4, <2>5 DEF PartsAt
  <2>7. [i \in DOMAIN s |->
           [encode |-> c.encode, of |-> s[i], in |-> n, key |-> c.key, nr |-> i]]
              \in [1 .. Len(s) -> PartsAt(n)]
    BY <2>5, <2>6
  <2>8. [i \in DOMAIN s |->
           [encode |-> c.encode, of |-> s[i], in |-> n, key |-> c.key, nr |-> i]]
              \in Seq(PartsAt(n))
    BY <2>5, <2>7
  <2> QED
    BY <2>8 DEF s
<1> HIDE DEF ForKey
<1>3. DOMAIN calls0 = 1 .. Len(calls0) /\ Len(calls0) \in Nat
      /\ \A k \in DOMAIN calls0 : calls0[k] \in PartCalls
  BY <1>1
<1>4. lists \in Seq(Seq(PartsAt(n)))
  <2>1. lists \in [1 .. Len(calls0) -> Seq(PartsAt(n))]
    BY <1>2, <1>3
  <2> QED
    BY <1>3, <2>1
<1>5. CallsFor(o, n) = FlattenSeq(lists)
  BY Zenon DEF CallsFor, calls0, ForKey
<1> HIDE DEF lists
<1> QED
  BY <1>4, <1>5, FlattenFacts, Zenon

LEMMA CallsForFields ==
    ASSUME prog \in DOMAIN Programs, NEW o \in DOMAIN Objects, NEW n,
           KindOf(o) = "Struct"
    PROVE  CallsFor(o, n) = [i \in DOMAIN At(o, "fields") |-> FieldCall(o, i, n)]
<1> DEFINE calls0 == CallsOf(KindOf(o))
           ForKey(c) == [i \in DOMAIN At(o, c.key) |->
                           [encode |-> c.encode, of |-> At(o, c.key)[i],
                            in |-> n, key |-> c.key, nr |-> i]]
           lists == [k \in DOMAIN calls0 |-> ForKey(calls0[k])]
           S == {ForKey(Call("field", "fields"))[i] : i \in DOMAIN At(o, "fields")}
<1>1. calls0 = <<Call("field", "fields")>>
  BY CallsOfFacts, Zenon
<1>2. CallsFor(o, n) = FlattenSeq(lists)
  BY Zenon DEF CallsFor
<1>3. Call("field", "fields").encode = "field" /\ Call("field", "fields").key = "fields"
  BY DEF Call
<1>4. ForKey(Call("field", "fields")) = [i \in DOMAIN At(o, "fields") |-> FieldCall(o, i, n)]
  BY <1>3, Zenon DEF FieldCall
<1>5. ForKey(Call("field", "fields")) \in Seq(S)
  <2>1. At(o, "fields") \in Seq(DOMAIN Objects)
    BY ObjectFacts, Zenon
  <2>2. PICK m \in Nat : DOMAIN At(o, "fields") = 1 .. m
    BY <2>1
  <2>3. ForKey(Call("field", "fields")) \in [1 .. m -> S]
    BY <1>4, <2>2
  <2> HIDE DEF ForKey, S
  <2> QED
    BY <2>2, <2>3
<1> HIDE DEF calls0, ForKey, S
<1>6. lists = <<ForKey(Call("field", "fields"))>>
  <2>1. DOMAIN calls0 = {1} /\ calls0[1] = Call("field", "fields")
    BY <1>1
  <2> QED
    BY <2>1
<1> HIDE DEF lists
<1>7. lists \in Seq(Seq(S)) /\ Len(lists) = 1 /\ lists[1] = ForKey(Call("field", "fields"))
  BY <1>5, <1>6
<1>8. FlattenSeq(lists) = lists[1]
  BY <1>7, FlattenFacts, Zenon
<1> QED
  BY <1>2, <1>4, <1>7, <1>8

-----------------------------------------------------------------------------

(* The walk: what is written, the ids of objects, and the calls still to be made *)

IsField(o) == KindOf(o) = "Field"
Full(node) == node.linkId = NoNode

NodeKinds == {KindOf(o) : o \in DOMAIN Objects} \cup
             {"Field", "LinkToNode", "LinkToParam", "LinkToBlock", "LinkToFunc", "LinkToType"}

Nodes == [id : Nat, kind : NodeKinds, linkId : Nat, of : DOMAIN Objects, in : Nat,
          key : Keys \cup {"top"}, nr : Nat]

WalkCalls == [encode : Encoders \cup {"encodeFunction", "field", "end of field"},
              of : DOMAIN Objects, in : Nat, key : Keys \cup {"top", "end"}, nr : Nat]

\* The structure that a field belongs to was written.
Owned(refs, f) ==
    \E o \in DOMAIN refs \cap DOMAIN Objects :
        /\ KindOf(o) = "Struct"
        /\ \E i \in DOMAIN At(o, "fields") : At(o, "fields")[i] = f

(***************************************************************************)
(* A node that is no field has the id of its object, or links to it.  A    *)
(* field gets its id when it ends; that it is written once follows from    *)
(* its structure, which is.                                                *)
(***************************************************************************)
NodeOk(refs, node, n) ==
    /\ node.in < n
    /\ IsField(node.of) => Full(node) /\ Owned(refs, node.of)
    /\ ~ IsField(node.of) => /\ node.of \in DOMAIN refs
                             /\ Full(node) => node.id = refs[node.of]
                             /\ ~ Full(node) => node.linkId = refs[node.of]

Once(t) ==
    \A m, n \in 1 .. Len(t) :
        t[m].of = t[n].of /\ Full(t[m]) => IF Full(t[n]) THEN m = n ELSE m < n

RefsOk(refs, next) ==
    /\ next \in Nat \ {0}
    /\ DOMAIN refs \subseteq DOMAIN Objects
    /\ \A o \in DOMAIN refs :
          refs[o] \in IF IsField(o) THEN 1 .. next ELSE 1 .. next - 1

CallOk(t, refs, c) ==
    /\ c.in <= Len(t)
    /\ c.encode = "field" => /\ IsField(c.of) /\ Owned(refs, c.of)
                             /\ \A n \in 1 .. Len(t) : t[n].of # c.of
    /\ c.encode = "end of field" => /\ IsField(c.of) /\ c.in \in 1 .. Len(t)
                                    /\ t[c.in].of = c.of
    /\ c.encode \notin {"field", "end of field"} => ~ IsField(c.of)
    /\ c.encode = "end of field" <=> c.key = "end"

\* The calls of the functions that write an object or a link to it.
IsWrite(c) == c.encode \notin {"field", "end of field"}

Mentioned(refs, c) == c.of \in DOMAIN refs

SameField(c, d) == c.encode = "field" /\ d.encode = "field" /\ c.of = d.of

CallsOk(t, refs, cs) ==
    /\ \A k \in 1 .. Len(cs) : CallOk(t, refs, cs[k])
    /\ \A j, k \in 1 .. Len(cs) : SameField(cs[j], cs[k]) => j = k

IsWalk(t, refs, next, cs) ==
    /\ t \in Seq(Nodes) /\ cs \in Seq(WalkCalls)
    /\ RefsOk(refs, next)
    /\ \A n \in 1 .. Len(t) : NodeOk(refs, t[n], n)
    /\ Once(t)
    /\ CallsOk(t, refs, cs)

-----------------------------------------------------------------------------

LEMMA AppendFacts ==
    ASSUME NEW S, NEW t \in Seq(S), NEW e \in S
    PROVE  /\ Append(t, e) \in Seq(S) /\ Len(Append(t, e)) = Len(t) + 1
           /\ \A n \in 1 .. Len(t) : Append(t, e)[n] = t[n]
           /\ Append(t, e)[Len(t) + 1] = e
OBVIOUS

\* The calls behind the first.
LEMMA TailCalls ==
    ASSUME NEW t, NEW refs, NEW cs \in Seq(WalkCalls), cs # <<>>, CallsOk(t, refs, cs)
    PROVE  /\ Head(cs) \in WalkCalls /\ CallOk(t, refs, Head(cs))
           /\ Tail(cs) \in Seq(WalkCalls) /\ CallsOk(t, refs, Tail(cs))
           /\ \A k \in 1 .. Len(Tail(cs)) : ~ SameField(Head(cs), Tail(cs)[k])
<1>1. /\ Len(cs) \in Nat \ {0} /\ Len(Tail(cs)) = Len(cs) - 1
      /\ Head(cs) = cs[1] /\ Head(cs) \in WalkCalls /\ Tail(cs) \in Seq(WalkCalls)
      /\ \A k \in 1 .. Len(Tail(cs)) : Tail(cs)[k] = cs[k + 1]
  OBVIOUS
<1> DEFINE rest == Tail(cs)
           first == Head(cs)
<1>2. /\ Len(rest) = Len(cs) - 1 /\ first = cs[1]
      /\ \A k \in 1 .. Len(rest) : rest[k] = cs[k + 1]
  BY <1>1
<1> HIDE DEF rest, first
<1>3. 1 \in 1 .. Len(cs) /\ \A k \in 1 .. Len(rest) : k + 1 \in 1 .. Len(cs) /\ k + 1 # 1
  BY <1>1, <1>2
<1>4. CallOk(t, refs, first) /\ \A k \in 1 .. Len(rest) : CallOk(t, refs, rest[k])
  BY <1>2, <1>3 DEF CallsOk
<1>5. ASSUME NEW j \in 1 .. Len(rest), NEW k \in 1 .. Len(rest), SameField(rest[j], rest[k])
      PROVE  j = k
  <2>1. j + 1 = k + 1
    BY <1>2, <1>3, <1>5, Zenon DEF CallsOk
  <2> QED
    BY <2>1
<1>6. ASSUME NEW k \in 1 .. Len(rest), SameField(first, rest[k]) PROVE FALSE
  BY <1>2, <1>3, <1>6 DEF CallsOk
<1> QED
  BY <1>1, <1>4, <1>5, <1>6 DEF rest, first, CallsOk

\* Calls p in front of calls q.
LEMMA JoinCalls ==
    ASSUME NEW t, NEW refs, NEW p \in Seq(WalkCalls), NEW q \in Seq(WalkCalls),
           CallsOk(t, refs, p), CallsOk(t, refs, q),
           \A j \in 1 .. Len(p), k \in 1 .. Len(q) : ~ SameField(p[j], q[k])
    PROVE  p \o q \in Seq(WalkCalls) /\ CallsOk(t, refs, p \o q)
<1> DEFINE r == p \o q
<1>1. /\ r \in Seq(WalkCalls) /\ Len(p) \in Nat /\ Len(q) \in Nat
      /\ Len(r) = Len(p) + Len(q)
      /\ \A k \in 1 .. Len(r) : k <= Len(p) => r[k] = p[k]
      /\ \A k \in 1 .. Len(r) : k > Len(p) => r[k] = q[k - Len(p)]
  OBVIOUS
<1> HIDE DEF r
<1>2. ASSUME NEW k \in 1 .. Len(r)
      PROVE  \/ k \in 1 .. Len(p) /\ r[k] = p[k]
             \/ k > Len(p) /\ k - Len(p) \in 1 .. Len(q) /\ r[k] = q[k - Len(p)]
  BY <1>1
<1>3. ASSUME NEW k \in 1 .. Len(r) PROVE CallOk(t, refs, r[k])
  BY <1>2 DEF CallsOk
<1>4. ASSUME NEW j \in 1 .. Len(r), NEW k \in 1 .. Len(r), SameField(r[j], r[k])
      PROVE  j = k
  <2>s. \A c, d : SameField(c, d) => SameField(d, c)
    BY DEF SameField
  <2>1. CASE j \in 1 .. Len(p) /\ r[j] = p[j]
    <3>1. CASE k \in 1 .. Len(p) /\ r[k] = p[k]
      BY <1>4, <2>1, <3>1 DEF CallsOk
    <3>2. CASE k > Len(p) /\ k - Len(p) \in 1 .. Len(q) /\ r[k] = q[k - Len(p)]
      BY <1>4, <2>1, <3>2
    <3> QED
      BY <1>2, <3>1, <3>2
  <2>2. CASE j > Len(p) /\ j - Len(p) \in 1 .. Len(q) /\ r[j] = q[j - Len(p)]
    <3>1. CASE k \in 1 .. Len(p) /\ r[k] = p[k]
      BY <1>4, <2>s, <2>2, <3>1
    <3>2. CASE k > Len(p) /\ k - Len(p) \in 1 .. Len(q) /\ r[k] = q[k - Len(p)]
      <4>1. j - Len(p) = k - Len(p)
        BY <1>4, <2>2, <3>2, Zenon DEF CallsOk
      <4> QED
        BY <1>1, <4>1
    <3> QED
      BY <1>2, <3>1, <3>2
  <2> QED
    BY <1>2, <2>1, <2>2
<1>5. CallsOk(t, refs, r)
  BY <1>3, <1>4 DEF CallsOk
<1> QED
  BY <1>1, <1>5 DEF r

\* Tree t2 has the nodes of t, for the same objects, and more.
LEMMA MoreNodes ==
    ASSUME NEW t, NEW t2, NEW refs, NEW refs2, NEW cs,
           Len(t) \in Nat, Len(t2) \in Nat, Len(t) <= Len(t2),
           \A n \in 1 .. Len(t) : t2[n].of = t[n].of,
           DOMAIN refs \subseteq DOMAIN refs2,
           \A n \in 1 .. Len(t2) : n > Len(t) =>
              \A k \in 1 .. Len(cs) : cs[k].encode = "field" => cs[k].of # t2[n].of,
           \A k \in 1 .. Len(cs) : cs[k].in \in Nat,
           CallsOk(t, refs, cs)
    PROVE  CallsOk(t2, refs2, cs)
<1>1. ASSUME NEW k \in 1 .. Len(cs) PROVE CallOk(t2, refs2, cs[k])
  <2> DEFINE c == cs[k]
  <2>1. CallOk(t, refs, c) /\ c.in \in Nat
    BY DEF CallsOk
  <2>2. \A n \in 1 .. Len(t2) : n > Len(t) /\ c.encode = "field" => c.of # t2[n].of
    OBVIOUS
  <2> HIDE DEF c
  <2>3. c.in <= Len(t2)
    <3>1. c.in \in Nat /\ c.in <= Len(t)
      BY <2>1 DEF CallOk
    <3> QED
      BY <3>1
  <2>4. c.encode = "field" => \A n \in 1 .. Len(t2) : t2[n].of # c.of
    <3> SUFFICES ASSUME c.encode = "field", NEW n \in 1 .. Len(t2) PROVE t2[n].of # c.of
      OBVIOUS
    <3>1. CASE n \in 1 .. Len(t)
      BY <2>1, <3>1 DEF CallOk
    <3>2. CASE n > Len(t)
      BY <2>2, <3>2
    <3> QED
      BY <3>1, <3>2
  <2>5. Owned(refs, c.of) => Owned(refs2, c.of)
    BY DEF Owned
  <2>6. c.in \in 1 .. Len(t) => c.in \in 1 .. Len(t2) /\ t2[c.in].of = t[c.in].of
    BY <2>1
  <2> QED
    BY <2>1, <2>3, <2>4, <2>5, <2>6 DEF CallOk, c
<1> QED
  BY <1>1 DEF CallsOk

\* A node that is Ok stays so when an object gets an id.
LEMMA NodeStays ==
    ASSUME NEW refs, NEW refs2, NEW node, NEW n, NodeOk(refs, node, n),
           DOMAIN refs \subseteq DOMAIN refs2,
           \A o \in DOMAIN refs : ~ IsField(o) => refs2[o] = refs[o]
    PROVE  NodeOk(refs2, node, n)
<1>1. Owned(refs, node.of) => Owned(refs2, node.of)
  BY DEF Owned
<1> QED
  BY <1>1 DEF NodeOk

\* A new node is a link, or the first of its object.
LEMMA OnceStays ==
    ASSUME NEW t \in Seq(Nodes), NEW e \in Nodes, Once(t),
           Full(e) => \A n \in 1 .. Len(t) : t[n].of # e.of
    PROVE  Once(Append(t, e))
<1> DEFINE t2 == Append(t, e)
<1>1. /\ Len(t) \in Nat /\ Len(t2) = Len(t) + 1 /\ t2[Len(t) + 1] = e
      /\ \A n \in 1 .. Len(t) : t2[n] = t[n]
  BY AppendFacts
<1> HIDE DEF t2
<1> SUFFICES ASSUME NEW m \in 1 .. Len(t2), NEW n \in 1 .. Len(t2),
                    t2[m].of = t2[n].of, Full(t2[m])
             PROVE  IF Full(t2[n]) THEN m = n ELSE m < n
  BY DEF Once, t2
<1>2. CASE m \in 1 .. Len(t) /\ n \in 1 .. Len(t)
  BY <1>1, <1>2 DEF Once
<1>3. CASE m = Len(t) + 1
  <2>1. n \notin 1 .. Len(t)
    BY <1>1, <1>3
  <2>2. m = n
    BY <1>1, <1>3, <2>1
  <2> QED
    BY <2>2
<1>4. CASE m \in 1 .. Len(t) /\ n = Len(t) + 1
  <2>1. t[m].of = e.of
    BY <1>1, <1>4
  <2>2. ~ Full(e)
    BY <1>4, <2>1
  <2> QED
    BY <1>1, <1>4, <2>2
<1> QED
  BY <1>1, <1>2, <1>3, <1>4

-----------------------------------------------------------------------------

(* The four things that a call does *)

With(refs, o, id) == [p \in DOMAIN refs \cup {o} |-> IF p = o THEN id ELSE refs[p]]

\* A walk with call c first and the others behind it.
Cut(t, refs, next, c, rest) ==
    /\ IsWalk(t, refs, next, rest)
    /\ c \in WalkCalls
    /\ CallOk(t, refs, c)
    /\ \A k \in 1 .. Len(rest) : ~ SameField(c, rest[k])

LEMMA WalkIsCut ==
    ASSUME NEW t, NEW refs, NEW next, NEW cs, IsWalk(t, refs, next, cs), cs # <<>>
    PROVE  Cut(t, refs, next, Head(cs), Tail(cs))
BY TailCalls, Zenon DEF IsWalk, Cut

LEMMA CutFacts ==
    ASSUME NEW t, NEW refs, NEW next, NEW c, NEW rest, Cut(t, refs, next, c, rest)
    PROVE  /\ t \in Seq(Nodes) /\ Len(t) \in Nat /\ RefsOk(refs, next) /\ next \in Nat \ {0}
           /\ \A n \in 1 .. Len(t) : NodeOk(refs, t[n], n)
           /\ Once(t)
           /\ rest \in Seq(WalkCalls) /\ CallsOk(t, refs, rest)
           /\ c \in WalkCalls /\ CallOk(t, refs, c)
           /\ c.of \in DOMAIN Objects /\ c.in \in Nat /\ c.in < Len(t) + 1
<1>1. /\ t \in Seq(Nodes) /\ RefsOk(refs, next)
      /\ \A n \in 1 .. Len(t) : NodeOk(refs, t[n], n)
      /\ Once(t)
      /\ rest \in Seq(WalkCalls) /\ CallsOk(t, refs, rest)
      /\ c \in WalkCalls /\ CallOk(t, refs, c)
  BY DEF Cut, IsWalk
<1>2. c.of \in DOMAIN Objects /\ c.in \in Nat
  BY <1>1 DEF WalkCalls
<1>3. c.in <= Len(t) /\ Len(t) \in Nat
  <2>1. CallOk(t, refs, c) /\ t \in Seq(Nodes)
    BY <1>1
  <2>2. c.in <= Len(t)
    BY <2>1, Zenon DEF CallOk
  <2> QED
    BY <2>1, <2>2
<1>4. next \in Nat \ {0}
  BY <1>1 DEF RefsOk
<1>5. c.in < Len(t) + 1
  BY <1>2, <1>3
<1> QED
  BY <1>1, <1>2, <1>3, <1>4, <1>5

LEMMA NodeIsNode ==
    ASSUME NEW id \in Nat, NEW kind \in NodeKinds, NEW link \in Nat, NEW c \in WalkCalls,
           c.key # "end"
    PROVE  Node(id, kind, link, c) \in Nodes
BY DEF Node, Nodes, WalkCalls

LEMMA RefsFacts ==
    ASSUME NEW refs, NEW next, RefsOk(refs, next), NEW o \in DOMAIN refs
    PROVE  /\ o \in DOMAIN Objects /\ refs[o] \in Nat \ {0} /\ refs[o] <= next
           /\ ~ IsField(o) => refs[o] <= next - 1
BY DEF RefsOk

LEMMA RefsStay ==
    ASSUME NEW refs, NEW next, RefsOk(refs, next)
    PROVE  RefsOk(refs, next + 1)
<1>1. ASSUME NEW o \in DOMAIN refs
      PROVE  refs[o] \in IF IsField(o) THEN 1 .. next + 1 ELSE 1 .. (next + 1) - 1
  <2>1. /\ refs[o] \in Nat \ {0} /\ refs[o] <= next /\ next \in Nat
        /\ ~ IsField(o) => refs[o] <= next - 1
    BY RefsFacts DEF RefsOk
  <2> QED
    BY <2>1
<1>2. next + 1 \in Nat \ {0} /\ DOMAIN refs \subseteq DOMAIN Objects
  BY DEF RefsOk
<1> QED
  BY <1>1, <1>2 DEF RefsOk

\* A node e is written, and calls new are to be made before the rest.
LEMMA AddNode ==
    ASSUME NEW t \in Seq(Nodes), NEW refs, NEW refs2, NEW next2,
           \A n \in 1 .. Len(t) : NodeOk(refs, t[n], n), Once(t),
           RefsOk(refs2, next2), DOMAIN refs \subseteq DOMAIN refs2,
           \A o \in DOMAIN refs : ~ IsField(o) => refs2[o] = refs[o],
           NEW e \in Nodes, NodeOk(refs2, e, Len(t) + 1),
           Full(e) => \A n \in 1 .. Len(t) : t[n].of # e.of,
           NEW new \in Seq(WalkCalls), NEW rest \in Seq(WalkCalls),
           CallsOk(t, refs, rest), CallsOk(Append(t, e), refs2, new),
           \A k \in 1 .. Len(rest) : rest[k].encode = "field" => rest[k].of # e.of,
           \A j \in 1 .. Len(new), k \in 1 .. Len(rest) : ~ SameField(new[j], rest[k])
    PROVE  IsWalk(Append(t, e), refs2, next2, new \o rest)
<1> DEFINE t2 == Append(t, e)
<1>1. /\ t2 \in Seq(Nodes) /\ Len(t2) = Len(t) + 1 /\ t2[Len(t) + 1] = e
      /\ \A n \in 1 .. Len(t) : t2[n] = t[n]
  BY AppendFacts
<1>2. Once(t2)
  BY OnceStays
<1>3. CallsOk(t2, refs2, new)
  OBVIOUS
<1>4. Len(t) \in Nat
  OBVIOUS
<1> HIDE DEF t2
<1>5. \A n \in 1 .. Len(t2) : n \in 1 .. Len(t) \/ n = Len(t) + 1
  BY <1>1, <1>4
<1>6. ASSUME NEW n \in 1 .. Len(t2) PROVE NodeOk(refs2, t2[n], n)
  <2>1. CASE n \in 1 .. Len(t)
    <3>1. NodeOk(refs, t[n], n)
      BY <2>1
    <3>2. NodeOk(refs2, t[n], n)
      BY <3>1, NodeStays
    <3> QED
      BY <1>1, <2>1, <3>2
  <2>2. CASE n = Len(t) + 1
    BY <1>1, <2>2
  <2> QED
    BY <1>5, <2>1, <2>2
<1>7. CallsOk(t2, refs2, rest)
  <2>1. ASSUME NEW k \in 1 .. Len(rest) PROVE rest[k].in \in Nat
    <3>1. rest[k] \in WalkCalls
      OBVIOUS
    <3> QED
      BY <3>1 DEF WalkCalls
  <2>2. /\ Len(t2) \in Nat /\ Len(t) <= Len(t2)
        /\ \A n \in 1 .. Len(t) : t2[n].of = t[n].of
    BY <1>1, <1>4
  <2>3. ASSUME NEW n \in 1 .. Len(t2), n > Len(t)
        PROVE  \A k \in 1 .. Len(rest) : rest[k].encode = "field" => rest[k].of # t2[n].of
    <3>1. n = Len(t) + 1
      BY <1>4, <1>5, <2>3
    <3>2. t2[n] = e
      BY <1>1, <3>1
    <3> QED
      BY <3>2
  <2> QED
    BY <1>4, <2>1, <2>2, <2>3, MoreNodes
<1> DEFINE both == new \o rest
<1>8. both \in Seq(WalkCalls) /\ CallsOk(t2, refs2, both)
  BY <1>3, <1>7, JoinCalls
<1> HIDE DEF both
<1>9. IsWalk(t2, refs2, next2, both)
  BY <1>1, <1>2, <1>6, <1>8 DEF IsWalk
<1> QED
  BY <1>9 DEF t2, both

LEMMA NoCalls ==
    /\ <<>> \in Seq(WalkCalls)
    /\ \A t, refs : CallsOk(t, refs, <<>>)
    /\ \A rest : \A j \in 1 .. Len(<<>>), k \in 1 .. Len(rest) : ~ SameField(<<>>[j], rest[k])
    /\ \A rest \in Seq(WalkCalls) : <<>> \o rest = rest
<1>1. 1 .. Len(<<>>) = {}
  OBVIOUS
<1> QED
  BY <1>1 DEF CallsOk

LEMMA AddLink ==
    ASSUME NEW t, NEW refs, NEW next, NEW c, NEW rest, Cut(t, refs, next, c, rest),
           IsWrite(c), Mentioned(refs, c),
           NEW kind \in NodeKinds
    PROVE  IsWalk(Append(t, Node(next, kind, refs[c.of], c)), refs, next + 1, rest)
<1>0. PICK e : e = Node(next, kind, refs[c.of], c)
  OBVIOUS
<1>1. /\ t \in Seq(Nodes) /\ Len(t) \in Nat /\ RefsOk(refs, next) /\ next \in Nat
      /\ \A n \in 1 .. Len(t) : NodeOk(refs, t[n], n)
      /\ Once(t) /\ rest \in Seq(WalkCalls) /\ CallsOk(t, refs, rest)
      /\ c \in WalkCalls /\ CallOk(t, refs, c) /\ c.in < Len(t) + 1
  BY CutFacts
<1>2. ~ IsField(c.of)
  BY <1>1 DEF CallOk, IsWrite
<1>3. refs[c.of] \in Nat /\ refs[c.of] # NoNode
  BY <1>1, RefsFacts DEF NoNode, Mentioned
<1>4. /\ e \in Nodes /\ e.id = next /\ e.linkId = refs[c.of]
      /\ e.of = c.of /\ e.in = c.in
  <2>1. next \in Nat /\ refs[c.of] \in Nat /\ c \in WalkCalls /\ kind \in NodeKinds
        /\ c.key # "end"
    BY <1>1, <1>3 DEF CallOk, IsWrite
  <2> QED
    <3>1. Node(next, kind, refs[c.of], c) \in Nodes
      BY <2>1, NodeIsNode
    <3>2. /\ Node(next, kind, refs[c.of], c).id = next
          /\ Node(next, kind, refs[c.of], c).linkId = refs[c.of]
          /\ Node(next, kind, refs[c.of], c).of = c.of
          /\ Node(next, kind, refs[c.of], c).in = c.in
      BY DEF Node
    <3> QED
      BY <1>0, <3>1, <3>2, Zenon
<1>5. ~ Full(e)
  BY <1>3, <1>4 DEF Full
<1>6. NodeOk(refs, e, Len(t) + 1)
  BY <1>1, <1>2, <1>4, <1>5 DEF NodeOk, Mentioned
<1>7. \A k \in 1 .. Len(rest) : rest[k].encode = "field" => rest[k].of # e.of
  BY <1>1, <1>2, <1>4 DEF CallsOk, CallOk
<1>8. RefsOk(refs, next + 1)
  BY <1>1, RefsStay
<1>9. IsWalk(Append(t, e), refs, next + 1, <<>> \o rest)
  BY <1>1, <1>4, <1>5, <1>6, <1>7, <1>8, NoCalls, AddNode
<1>10. <<>> \o rest = rest
  BY <1>1, NoCalls
<1> QED
  BY <1>0, <1>9, <1>10

\* A field of a structure that was not written is neither in the tree nor waits.
LEMMA FieldsAreNew ==
    ASSUME NEW t, NEW refs, NEW next, NEW cs, IsWalk(t, refs, next, cs),
           prog \in DOMAIN Programs,
           NEW o \in DOMAIN Objects, o \notin DOMAIN refs, KindOf(o) = "Struct",
           NEW i \in DOMAIN At(o, "fields"), NEW f, f = At(o, "fields")[i]
    PROVE  /\ f \in DOMAIN Objects /\ IsField(f)
           /\ \A n \in 1 .. Len(t) : t[n].of # f
           /\ \A k \in 1 .. Len(cs) : cs[k].encode = "field" => cs[k].of # f
<1>1. f \in DOMAIN Objects /\ IsField(f)
  <2>1. KindOf(At(o, "fields")[i]) = "Field"
    BY ObjectFacts, Zenon
  <2>2. At(o, "fields") \in Seq(DOMAIN Objects)
    BY ObjectFacts, Zenon
  <2>3. At(o, "fields")[i] \in DOMAIN Objects
    BY <2>2
  <2> QED
    BY <2>1, <2>3 DEF IsField
<1>2. ~ Owned(refs, f)
  <2> SUFFICES ASSUME NEW p \in DOMAIN refs \cap DOMAIN Objects, KindOf(p) = "Struct",
                      NEW j \in DOMAIN At(p, "fields"), At(p, "fields")[j] = f
               PROVE  FALSE
    BY DEF Owned
  <2>1. At(p, "fields")[j] = At(o, "fields")[i] /\ p \in DOMAIN Objects
    OBVIOUS
  <2>2. p = o
    BY <2>1, ObjectFacts, Zenon
  <2> QED
    BY <2>2
<1>3. ASSUME NEW n \in 1 .. Len(t) PROVE t[n].of # f
  <2>1. NodeOk(refs, t[n], n)
    BY DEF IsWalk
  <2> QED
    BY <1>1, <1>2, <2>1 DEF NodeOk
<1>4. ASSUME NEW k \in 1 .. Len(cs), cs[k].encode = "field" PROVE cs[k].of # f
  <2>1. CallOk(t, refs, cs[k])
    BY DEF IsWalk, CallsOk
  <2> QED
    BY <1>2, <1>4, <2>1 DEF CallOk
<1> QED
  BY <1>1, <1>3, <1>4

\* The calls for the parts of an object that is written at place n.
LEMMA PartsAreOk ==
    ASSUME prog \in DOMAIN Programs, NEW o \in DOMAIN Objects, KindOf(o) # "Struct",
           NEW t, NEW refs, NEW n \in Nat, n <= Len(t), NEW new, new = CallsFor(o, n)
    PROVE  /\ new \in Seq(WalkCalls) /\ CallsOk(t, refs, new)
           /\ \A d : \A j \in 1 .. Len(new) : ~ SameField(new[j], d)
<1>2. new \in Seq(PartsAt(n))
  BY CallsForParts
<1>3. \A j \in 1 .. Len(new) : new[j] \in PartsAt(n)
  BY <1>2
<1>4. PartsAt(n) \subseteq WalkCalls
  BY DEF PartsAt, WalkCalls
<1>5. new \in Seq(WalkCalls)
  BY <1>2, <1>4, SeqOfMore
<1>6. ASSUME NEW c \in PartsAt(n)
      PROVE  /\ c.in = n /\ ~ IsField(c.of)
             /\ c.encode # "field" /\ c.encode # "end of field" /\ c.key # "end"
  <2>1. c.encode \in Encoders /\ c.in = n /\ KindOf(c.of) # "Field" /\ c.key \in Keys
    BY DEF PartsAt
  <2> QED
    BY <2>1 DEF Encoders, IsField, Keys
<1>7. \A c \in PartsAt(n) : CallOk(t, refs, c) /\ \A d : ~ SameField(c, d)
  BY <1>6 DEF CallOk, SameField
<1>8. CallsOk(t, refs, new)
  BY <1>3, <1>7 DEF CallsOk
<1> QED
  BY <1>3, <1>5, <1>7, <1>8

\* The calls for the fields of a structure that is written at place n.
LEMMA FieldsAreOk ==
    ASSUME prog \in DOMAIN Programs, NEW o \in DOMAIN Objects, KindOf(o) = "Struct",
           NEW t, NEW refs, NEW n \in Nat, n <= Len(t), o \in DOMAIN refs,
           \A i \in DOMAIN At(o, "fields") :
              \A m \in 1 .. Len(t) : t[m].of # At(o, "fields")[i],
           NEW new, new = CallsFor(o, n)
    PROVE  /\ new \in Seq(WalkCalls) /\ CallsOk(t, refs, new)
           /\ \A j \in 1 .. Len(new) :
                 \E i \in DOMAIN At(o, "fields") : new[j].of = At(o, "fields")[i]
<1>2. new = [i \in DOMAIN At(o, "fields") |-> FieldCall(o, i, n)]
  BY CallsForFields
<1>3. PICK fields : fields = At(o, "fields")
  OBVIOUS
<1>4. fields \in Seq(DOMAIN Objects)
  BY <1>3, ObjectFacts, Zenon
<1>5. PICK m \in Nat : DOMAIN fields = 1 .. m /\ \A i \in 1 .. m : fields[i] \in DOMAIN Objects
  BY <1>4
<1>6. \A i \in 1 .. m : IsField(fields[i])
  BY <1>3, <1>5, ObjectFacts, Zenon DEF IsField
<1>7. \A i, j \in 1 .. m : fields[i] = fields[j] => i = j
  <2>1. \A k, l \in DOMAIN At(o, "fields") :
           At(o, "fields")[k] = At(o, "fields")[l] => k = l
    BY ObjectFacts, Zenon
  <2> QED
    BY <1>3, <1>5, <2>1
<1>8. \A i \in 1 .. m : /\ FieldCall(o, i, n).encode = "field"
                        /\ FieldCall(o, i, n).of = fields[i]
                        /\ FieldCall(o, i, n).in = n
                        /\ FieldCall(o, i, n).key = "fields"
                        /\ FieldCall(o, i, n) \in WalkCalls
  <2>1. "fields" \in Keys
    BY DEF Keys
  <2> QED
    BY <1>3, <1>5, <2>1 DEF FieldCall, WalkCalls
<1>9. new \in [1 .. m -> WalkCalls] /\ \A i \in 1 .. m : new[i] = FieldCall(o, i, n)
  BY <1>2, <1>3, <1>5, <1>8
<1>10. new \in Seq(WalkCalls) /\ Len(new) = m
  BY <1>5, <1>9
<1>11. ASSUME NEW i \in 1 .. m PROVE CallOk(t, refs, new[i])
  <2>1. new[i].encode = "field" /\ new[i].of = fields[i] /\ new[i].in = n
        /\ new[i].key = "fields"
    BY <1>8, <1>9
  <2>2. Owned(refs, fields[i])
    BY <1>3, <1>5 DEF Owned
  <2>3. \A k \in 1 .. Len(t) : t[k].of # fields[i]
    BY <1>3, <1>5
  <2>4. "field" # "end of field" /\ "field" \in {"field", "end of field"} /\ "fields" # "end"
    OBVIOUS
  <2> QED
    BY <1>6, <2>1, <2>2, <2>3, <2>4, Zenon DEF CallOk
<1>12. ASSUME NEW i \in 1 .. m, NEW j \in 1 .. m, SameField(new[i], new[j]) PROVE i = j
  <2>1. new[i].of = fields[i] /\ new[j].of = fields[j]
    BY <1>8, <1>9
  <2> QED
    BY <1>7, <1>12, <2>1 DEF SameField
<1>13. CallsOk(t, refs, new)
  BY <1>10, <1>11, <1>12, Zenon DEF CallsOk
<1>14. \A j \in 1 .. m : j \in DOMAIN fields /\ new[j].of = fields[j]
  BY <1>5, <1>8, <1>9
<1> QED
  BY <1>3, <1>10, <1>13, <1>14, Zenon

\* An object is written in full, and its parts are next.
LEMMA AddFull ==
    ASSUME prog \in DOMAIN Programs,
           NEW t, NEW refs, NEW next, NEW c, NEW rest, Cut(t, refs, next, c, rest),
           IsWrite(c), ~ Mentioned(refs, c)
    PROVE  IsWalk(Append(t, Node(next, KindOf(c.of), NoNode, c)), With(refs, c.of, next),
                  next + 1, CallsFor(c.of, Len(t) + 1) \o rest)
<1>0. PICK e : e = Node(next, KindOf(c.of), NoNode, c)
  OBVIOUS
<1>1. /\ t \in Seq(Nodes) /\ Len(t) \in Nat /\ RefsOk(refs, next) /\ next \in Nat
      /\ \A n \in 1 .. Len(t) : NodeOk(refs, t[n], n)
      /\ Once(t) /\ rest \in Seq(WalkCalls) /\ CallsOk(t, refs, rest)
      /\ c \in WalkCalls /\ CallOk(t, refs, c) /\ c.in < Len(t) + 1
      /\ c.of \in DOMAIN Objects
  BY CutFacts
<1>n. Len(t) \in Nat /\ next \in Nat \ {0}
  BY CutFacts
<1>m. c.of \notin DOMAIN refs
  BY DEF Mentioned
<1>w. IsWalk(t, refs, next, rest)
  BY DEF Cut
<1>2. ~ IsField(c.of)
  BY <1>1 DEF CallOk, IsWrite
<1>3. PICK refs2 : refs2 = With(refs, c.of, next)
  OBVIOUS
<1>4. /\ DOMAIN refs2 = DOMAIN refs \cup {c.of} /\ refs2[c.of] = next
      /\ \A o \in DOMAIN refs : refs2[o] = refs[o]
  BY <1>3, <1>m DEF With
<1>5. e \in Nodes /\ e.id = next /\ e.linkId = NoNode /\ e.of = c.of /\ e.in = c.in
  <2>1. KindOf(c.of) \in NodeKinds /\ NoNode \in Nat
    BY <1>1 DEF NodeKinds, NoNode
  <2>e. c.key # "end"
    BY <1>1 DEF CallOk, IsWrite
  <2>2. Node(next, KindOf(c.of), NoNode, c) \in Nodes
    BY <1>1, <2>1, <2>e, NodeIsNode
  <2>3. /\ Node(next, KindOf(c.of), NoNode, c).id = next
        /\ Node(next, KindOf(c.of), NoNode, c).linkId = NoNode
        /\ Node(next, KindOf(c.of), NoNode, c).of = c.of
        /\ Node(next, KindOf(c.of), NoNode, c).in = c.in
    BY DEF Node
  <2> QED
    BY <1>0, <2>2, <2>3, Zenon
<1>6. Full(e)
  BY <1>5 DEF Full
<1>7. NodeOk(refs2, e, Len(t) + 1)
  BY <1>1, <1>2, <1>4, <1>5, <1>6 DEF NodeOk
<1>8. \A n \in 1 .. Len(t) : t[n].of # e.of
  BY <1>1, <1>m, <1>2, <1>5 DEF NodeOk
<1>9. \A k \in 1 .. Len(rest) : rest[k].encode = "field" => rest[k].of # e.of
  BY <1>1, <1>2, <1>5 DEF CallsOk, CallOk
<1>10. RefsOk(refs2, next + 1)
  <2>1. RefsOk(refs, next + 1)
    BY <1>1, RefsStay
  <2>2. next \in 1 .. (next + 1) - 1
    BY <1>n
  <2>3. ASSUME NEW o \in DOMAIN refs2
        PROVE  refs2[o] \in IF IsField(o) THEN 1 .. next + 1 ELSE 1 .. (next + 1) - 1
    <3>1. CASE o \in DOMAIN refs
      <4>1. refs[o] \in IF IsField(o) THEN 1 .. next + 1 ELSE 1 .. (next + 1) - 1
        BY <2>1, <3>1, Zenon DEF RefsOk
      <4>2. refs2[o] = refs[o]
        BY <1>4, <3>1, Zenon
      <4> QED
        BY <4>1, <4>2, Zenon
    <3>2. CASE o = c.of
      BY <1>2, <1>4, <2>2, <3>2
    <3> QED
      BY <1>4, <3>1, <3>2
  <2>4. next + 1 \in Nat \ {0} /\ DOMAIN refs2 \subseteq DOMAIN Objects
    BY <1>1, <1>4, <2>1 DEF RefsOk
  <2> QED
    BY <2>3, <2>4 DEF RefsOk
<1>11. PICK t2 : t2 = Append(t, e)
  OBVIOUS
<1>12. /\ Len(t2) = Len(t) + 1 /\ t2[Len(t) + 1] = e
       /\ \A n \in 1 .. Len(t) : t2[n] = t[n]
  <2>1. t \in Seq(Nodes) /\ e \in Nodes
    BY <1>1, <1>5
  <2> QED
    BY <1>11, <2>1, AppendFacts, Zenon
<1>13. PICK new : new = CallsFor(c.of, Len(t) + 1)
  OBVIOUS
<1>14. /\ new \in Seq(WalkCalls) /\ CallsOk(t2, refs2, new)
       /\ \A j \in 1 .. Len(new), k \in 1 .. Len(rest) : ~ SameField(new[j], rest[k])
  <2>1. Len(t) + 1 \in Nat /\ Len(t) + 1 <= Len(t2)
    BY <1>n, <1>12
  <2>2. CASE KindOf(c.of) # "Struct"
    <3>1. /\ new \in Seq(WalkCalls) /\ CallsOk(t2, refs2, new)
          /\ \A d : \A j \in 1 .. Len(new) : ~ SameField(new[j], d)
      BY <1>1, <1>13, <2>1, <2>2, PartsAreOk
    <3> QED
      BY <3>1
  <2>3. CASE KindOf(c.of) = "Struct"
    <3>1. ASSUME NEW i \in DOMAIN At(c.of, "fields")
          PROVE  /\ \A n \in 1 .. Len(t2) : t2[n].of # At(c.of, "fields")[i]
                 /\ \A k \in 1 .. Len(rest) :
                       rest[k].encode = "field" => rest[k].of # At(c.of, "fields")[i]
      <4>1. PICK f : f = At(c.of, "fields")[i]
        OBVIOUS
      <4>2. /\ IsField(f) /\ \A n \in 1 .. Len(t) : t[n].of # f
            /\ \A k \in 1 .. Len(rest) : rest[k].encode = "field" => rest[k].of # f
        BY <1>1, <1>m, <1>w, <2>3, <4>1, FieldsAreNew, Zenon
      <4>3. e.of # f
        BY <1>2, <1>5, <4>2
      <4>4. \A n \in 1 .. Len(t2) : n \in 1 .. Len(t) \/ n = Len(t) + 1
        BY <1>n, <1>12
      <4>5. \A n \in 1 .. Len(t2) : t2[n].of # f
        BY <1>12, <4>2, <4>3, <4>4
      <4> QED
        BY <4>1, <4>2, <4>5
    <3>2. /\ new \in Seq(WalkCalls) /\ CallsOk(t2, refs2, new)
          /\ \A j \in 1 .. Len(new) :
                \E i \in DOMAIN At(c.of, "fields") : new[j].of = At(c.of, "fields")[i]
      <4>1. c.of \in DOMAIN refs2
        BY <1>4
      <4>2. \A i \in DOMAIN At(c.of, "fields") :
               \A m \in 1 .. Len(t2) : t2[m].of # At(c.of, "fields")[i]
        BY <3>1
      <4>3. PICK n \in Nat : n = Len(t) + 1 /\ n <= Len(t2)
        BY <2>1
      <4>4. new = CallsFor(c.of, n) /\ c.of \in DOMAIN Objects
        BY <1>1, <1>13, <4>3, Zenon
      <4> QED
        BY <2>3, <4>1, <4>2, <4>3, <4>4, FieldsAreOk
    <3>3. ASSUME NEW j \in 1 .. Len(new), NEW k \in 1 .. Len(rest),
                 SameField(new[j], rest[k])
          PROVE  FALSE
      <4>1. PICK i \in DOMAIN At(c.of, "fields") : new[j].of = At(c.of, "fields")[i]
        BY <3>2
      <4>2. rest[k].encode = "field" /\ rest[k].of = At(c.of, "fields")[i]
        BY <3>3, <4>1, Zenon DEF SameField
      <4> QED
        BY <3>1, <4>2
    <3> QED
      BY <3>2, <3>3
  <2> QED
    BY <2>2, <2>3
<1>15. IsWalk(Append(t, e), refs2, next + 1, new \o rest)
  <2>1. DOMAIN refs \subseteq DOMAIN refs2
    BY <1>4
  <2>2. CallsOk(Append(t, e), refs2, new)
    BY <1>11, <1>14
  <2> QED
    BY <1>1, <1>4, <1>5, <1>7, <1>8, <1>9, <1>10, <1>14, <2>1, <2>2, AddNode
<1> QED
  BY <1>0, <1>3, <1>13, <1>15, Zenon

EndCall(c, n) ==
    [encode |-> "end of field", of |-> c.of, in |-> n, key |-> "end", nr |-> 1]

IsFieldCall(c) == c.encode = "field"
IsEndCall(c) == c.encode = "end of field"

\* A field is written, and gets its id when what it refers to is encoded.
LEMMA AddField ==
    ASSUME prog \in DOMAIN Programs,
           NEW t, NEW refs, NEW next, NEW c, NEW rest, Cut(t, refs, next, c, rest),
           IsFieldCall(c)
    PROVE  IsWalk(Append(t, Node(next + 1, "Field", NoNode, c)), refs, next + 1,
                  CallsFor(c.of, Len(t) + 1) \o <<EndCall(c, Len(t) + 1)>> \o rest)
<1>0. PICK e : e = Node(next + 1, "Field", NoNode, c)
  OBVIOUS
<1>1. /\ t \in Seq(Nodes) /\ RefsOk(refs, next)
      /\ \A n \in 1 .. Len(t) : NodeOk(refs, t[n], n)
      /\ Once(t) /\ rest \in Seq(WalkCalls) /\ CallsOk(t, refs, rest)
      /\ c \in WalkCalls /\ CallOk(t, refs, c) /\ c.in < Len(t) + 1
      /\ c.of \in DOMAIN Objects
  BY CutFacts
<1>n. Len(t) \in Nat /\ next \in Nat \ {0}
  BY CutFacts
<1>2. IsField(c.of) /\ Owned(refs, c.of) /\ \A n \in 1 .. Len(t) : t[n].of # c.of
  BY <1>1 DEF CallOk, IsFieldCall
<1>3. \A k \in 1 .. Len(rest) : rest[k].encode = "field" => rest[k].of # c.of
  BY DEF Cut, SameField, IsFieldCall
<1>4. e \in Nodes /\ e.linkId = NoNode /\ e.of = c.of /\ e.in = c.in
  <2>1. "Field" \in NodeKinds /\ NoNode \in Nat
    BY DEF NodeKinds, NoNode
  <2>2. next + 1 \in Nat
    BY <1>n
  <2>e. c.key # "end"
    BY <1>1 DEF CallOk, IsFieldCall
  <2>3. Node(next + 1, "Field", NoNode, c) \in Nodes
    BY <1>1, <2>1, <2>2, <2>e, NodeIsNode
  <2>4. /\ Node(next + 1, "Field", NoNode, c).linkId = NoNode
        /\ Node(next + 1, "Field", NoNode, c).of = c.of
        /\ Node(next + 1, "Field", NoNode, c).in = c.in
    BY DEF Node
  <2> QED
    BY <1>0, <2>3, <2>4, Zenon
<1>5. NodeOk(refs, e, Len(t) + 1)
  <2>1. Full(e)
    BY <1>4 DEF Full
  <2> QED
    BY <1>1, <1>2, <1>4, <2>1 DEF NodeOk
<1>6. RefsOk(refs, next + 1)
  BY <1>1, RefsStay
<1>7. PICK t2 : t2 = Append(t, e)
  OBVIOUS
<1>8. Len(t2) = Len(t) + 1 /\ t2[Len(t) + 1] = e
  <2>1. t \in Seq(Nodes) /\ e \in Nodes
    BY <1>1, <1>4
  <2> QED
    BY <1>7, <2>1, AppendFacts, Zenon
<1>9. PICK n \in Nat : n = Len(t) + 1 /\ n <= Len(t2) /\ n \in 1 .. Len(t2)
  BY <1>n, <1>8
<1>10. PICK parts : parts = CallsFor(c.of, n)
  OBVIOUS
<1>11. /\ parts \in Seq(WalkCalls) /\ CallsOk(t2, refs, parts)
       /\ \A d : \A j \in 1 .. Len(parts) : ~ SameField(parts[j], d)
  <2>1. KindOf(c.of) # "Struct"
    BY <1>2 DEF IsField
  <2> QED
    BY <1>1, <1>9, <1>10, <2>1, PartsAreOk
<1>12. PICK end : end = EndCall(c, n)
  OBVIOUS
<1>13. /\ end \in WalkCalls /\ end.in = n /\ end.of = c.of /\ IsEndCall(end)
       /\ end.key = "end"
  BY <1>1, <1>12 DEF EndCall, WalkCalls, IsEndCall
<1>14. CallOk(t2, refs, end) /\ \A d : ~ SameField(end, d)
  <2>1. t2[end.in].of = end.of
    BY <1>4, <1>8, <1>9, <1>13
  <2>2. end.in <= Len(t2) /\ end.in \in 1 .. Len(t2) /\ IsField(end.of)
    BY <1>2, <1>9, <1>13
  <2> QED
    BY <1>13, <2>1, <2>2 DEF CallOk, IsEndCall, SameField
<1>15. PICK last : last = <<end>>
  OBVIOUS
<1>16. /\ last \in Seq(WalkCalls) /\ CallsOk(t2, refs, last)
       /\ \A j \in 1 .. Len(last) : last[j] = end
  <2>1. /\ last \in Seq(WalkCalls) /\ \A j \in 1 .. Len(last) : last[j] = end /\ j = 1
    BY <1>13, <1>15
  <2> QED
    BY <1>14, <2>1 DEF CallsOk
<1>17. PICK new : new = parts \o last
  OBVIOUS
<1>18. new \in Seq(WalkCalls) /\ CallsOk(t2, refs, new)
  BY <1>11, <1>16, <1>17, JoinCalls
<1>19. \A j \in 1 .. Len(new) : \A d : ~ SameField(new[j], d)
  <2>1. \A j \in 1 .. Len(new) : (\E k \in 1 .. Len(parts) : new[j] = parts[k])
                                   \/ (\E k \in 1 .. Len(last) : new[j] = last[k])
    BY <1>11, <1>16, <1>17
  <2> QED
    BY <1>11, <1>14, <1>16, <2>1
<1>20. IsWalk(Append(t, e), refs, next + 1, new \o rest)
  <2>1. CallsOk(Append(t, e), refs, new)
    BY <1>7, <1>18
  <2>2. \A k \in 1 .. Len(rest) : rest[k].encode = "field" => rest[k].of # e.of
    BY <1>3, <1>4
  <2>3. \A m \in 1 .. Len(t) : t[m].of # e.of
    BY <1>2, <1>4
  <2>4. \A j \in 1 .. Len(new), k \in 1 .. Len(rest) : ~ SameField(new[j], rest[k])
    BY <1>19
  <2> QED
    BY <1>1, <1>4, <1>5, <1>6, <1>18, <2>1, <2>2, <2>3, <2>4, AddNode
<1> QED
  BY <1>0, <1>9, <1>10, <1>12, <1>15, <1>17, <1>20, Zenon

\* A field gets its id.
LEMMA EndOfField ==
    ASSUME NEW t, NEW refs, NEW next, NEW c, NEW rest, Cut(t, refs, next, c, rest),
           IsEndCall(c)
    PROVE  IsWalk([t EXCEPT ![c.in].id = next], With(refs, c.of, next), next, rest)
<1>1. /\ t \in Seq(Nodes) /\ RefsOk(refs, next)
      /\ \A n \in 1 .. Len(t) : NodeOk(refs, t[n], n)
      /\ Once(t) /\ rest \in Seq(WalkCalls) /\ CallsOk(t, refs, rest)
      /\ CallOk(t, refs, c) /\ c.of \in DOMAIN Objects
  BY CutFacts
<1>n. Len(t) \in Nat /\ next \in Nat \ {0}
  BY CutFacts
<1>2. PICK k : k = c.in
  OBVIOUS
<1>3. IsField(c.of) /\ k \in 1 .. Len(t) /\ t[k].of = c.of
  BY <1>1, <1>2 DEF CallOk, IsEndCall
<1>4. PICK refs2 : refs2 = With(refs, c.of, next)
  OBVIOUS
<1>5. /\ DOMAIN refs2 = DOMAIN refs \cup {c.of} /\ refs2[c.of] = next
      /\ \A o \in DOMAIN refs : o # c.of => refs2[o] = refs[o]
  BY <1>4 DEF With
<1>6. RefsOk(refs2, next)
  <2>1. ASSUME NEW o \in DOMAIN refs2
        PROVE  refs2[o] \in IF IsField(o) THEN 1 .. next ELSE 1 .. next - 1
    <3>1. CASE o = c.of
      <4>1. next \in 1 .. next
        BY <1>n
      <4> QED
        BY <1>3, <1>5, <3>1, <4>1
    <3>2. CASE o # c.of
      <4>1. o \in DOMAIN refs /\ refs2[o] = refs[o]
        BY <1>5, <3>2
      <4> QED
        BY <1>1, <4>1 DEF RefsOk
    <3> QED
      BY <3>1, <3>2
  <2>2. DOMAIN refs2 \subseteq DOMAIN Objects
    BY <1>1, <1>5 DEF RefsOk
  <2> QED
    BY <1>n, <2>1, <2>2 DEF RefsOk
<1>7. PICK t2 : t2 = [t EXCEPT ![k].id = next]
  OBVIOUS
<1>8. /\ t2 \in Seq(Nodes) /\ Len(t2) = Len(t)
      /\ \A n \in 1 .. Len(t) : /\ t2[n].of = t[n].of /\ t2[n].in = t[n].in
                                /\ t2[n].linkId = t[n].linkId
                                /\ n # k => t2[n] = t[n]
  <2>1. t[k] \in Nodes
    BY <1>1, <1>3
  <2>2. PICK e : e = [t[k] EXCEPT !.id = next]
    OBVIOUS
  <2>3. e \in Nodes /\ e.of = t[k].of /\ e.in = t[k].in /\ e.linkId = t[k].linkId
    BY <1>n, <2>1, <2>2 DEF Nodes
  <2>4. t2 = [t EXCEPT ![k] = e]
    BY <1>7, <2>2
  <2>5. /\ t2 \in Seq(Nodes) /\ Len(t2) = Len(t) /\ t2[k] = e
        /\ \A n \in 1 .. Len(t) : n # k => t2[n] = t[n]
    BY <1>1, <1>3, <2>3, <2>4
  <2> QED
    BY <2>3, <2>5
<1>9. ASSUME NEW n \in 1 .. Len(t) PROVE NodeOk(refs2, t2[n], n)
  <2>1. NodeOk(refs, t[n], n)
    BY <1>1
  <2>2. NodeOk(refs2, t[n], n)
    <3>1. \A o \in DOMAIN refs : ~ IsField(o) => refs2[o] = refs[o]
      BY <1>3, <1>5
    <3>2. DOMAIN refs \subseteq DOMAIN refs2
      BY <1>5
    <3> QED
      BY <2>1, <3>1, <3>2, NodeStays
  <2>3. CASE n = k
    BY <1>3, <1>8, <2>2, <2>3 DEF NodeOk, Full
  <2>4. CASE n # k
    BY <1>8, <2>2, <2>4
  <2> QED
    BY <2>3, <2>4
<1>10. Once(t2)
  BY <1>1, <1>8 DEF Once, Full
<1>11. CallsOk(t2, refs2, rest)
  <2>1. ASSUME NEW j \in 1 .. Len(rest) PROVE rest[j].in \in Nat
    <3>1. rest[j] \in WalkCalls
      BY <1>1
    <3> QED
      BY <3>1 DEF WalkCalls
  <2>2. /\ Len(t2) \in Nat /\ Len(t) <= Len(t2)
        /\ \A n \in 1 .. Len(t2) : ~ n > Len(t)
    BY <1>n, <1>8
  <2>3. \A n \in 1 .. Len(t) : t2[n].of = t[n].of
    BY <1>8
  <2>4. DOMAIN refs \subseteq DOMAIN refs2
    BY <1>5
  <2> QED
    BY <1>n, <1>1, <2>1, <2>2, <2>3, <2>4, MoreNodes
<1>12. \A n \in 1 .. Len(t2) : NodeOk(refs2, t2[n], n)
  BY <1>8, <1>9
<1>13. IsWalk(t2, refs2, next, rest)
  BY <1>1, <1>6, <1>8, <1>10, <1>11, <1>12 DEF IsWalk
<1> QED
  BY <1>2, <1>4, <1>7, <1>13, Zenon

-----------------------------------------------------------------------------

MapOk(t, map) == \A id \in DOMAIN map : t[map[id]].id = id

(***************************************************************************)
(* The invariant: the encoder walks, and what the maps of the decoder have *)
(* under an id is a node with that id.                                     *)
(***************************************************************************)
WalkInv ==
    /\ prog \in DOMAIN Programs
    /\ phase \in Final \cup {"encode", "decode"}
    /\ todo \subseteq Programs[prog].functions
    /\ nodeIDCounter \in 1 .. MaxId
    /\ IsWalk(tree, nodeRefs, nodeIDCounter, calls)
    /\ phase = "encode" => allNodes = <<>> /\ allTypes = <<>>
    /\ MapOk(tree, allNodes) /\ MapOk(tree, allTypes)

LEMMA WalkAfter ==
    ASSUME prog' = prog, IsWalk(tree', nodeRefs', nodeIDCounter', calls')
    PROVE  IsWalk(tree, nodeRefs, nodeIDCounter, calls)'
<1>1. Objects' = Objects
  BY DEF Objects
<1>2. \A o : KindOf(o)' = KindOf(o)
  BY <1>1 DEF KindOf
<1>3. \A o, key : At(o, key)' = At(o, key)
  BY <1>1 DEF At
<1>4. NodeKinds' = NodeKinds
  BY <1>1, <1>2 DEF NodeKinds
<1>5. Nodes' = Nodes /\ WalkCalls' = WalkCalls
  BY <1>1, <1>4 DEF Nodes, WalkCalls
<1>6. \A o : IsField(o)' <=> IsField(o)
  BY <1>2 DEF IsField
<1>7. \A refs, f : Owned(refs, f)' <=> Owned(refs, f)
  BY <1>1, <1>2, <1>3 DEF Owned
<1>8. \A refs, next : RefsOk(refs, next) => RefsOk(refs, next)'
  BY <1>1, <1>6 DEF RefsOk
<1>9. \A refs, node, n : NodeOk(refs, node, n) => NodeOk(refs, node, n)'
  BY <1>6, <1>7 DEF NodeOk
<1>10. \A t, refs, c : CallOk(t, refs, c) => CallOk(t, refs, c)'
  BY <1>6, <1>7 DEF CallOk
<1>11. \A t, refs, cs : CallsOk(t, refs, cs) => CallsOk(t, refs, cs)'
  BY <1>10 DEF CallsOk
<1>12. \A t, refs, next, cs : IsWalk(t, refs, next, cs) => IsWalk(t, refs, next, cs)'
  BY <1>5, <1>8, <1>9, <1>11 DEF IsWalk
<1> QED
  BY <1>12

LEMMA InitWalk == Init => WalkInv
<1> SUFFICES ASSUME Init PROVE WalkInv
  OBVIOUS
<1> USE DEF Init
<1>1. <<>> \in Seq(Nodes) /\ <<>> \in Seq(WalkCalls) /\ 1 .. Len(<<>>) = {} /\ DOMAIN <<>> = {}
  OBVIOUS
<1>2. RefsOk(<<>>, 1)
  BY <1>1 DEF RefsOk
<1>3. Once(<<>>)
  BY <1>1 DEF Once
<1>4. CallsOk(<<>>, <<>>, <<>>)
  BY <1>1 DEF CallsOk
<1>5. IsWalk(<<>>, <<>>, 1, <<>>)
  BY <1>1, <1>2, <1>3, <1>4 DEF IsWalk
<1>6. 1 \in 1 .. MaxId
  BY MaxIdAssumption
<1>7. MapOk(<<>>, <<>>)
  BY <1>1 DEF MapOk
<1> QED
  BY <1>5, <1>6, <1>7 DEF WalkInv

LEMMA EncoderFacts ==
    ASSUME NEW c
    PROVE  /\ Encoder(c) \notin {"field", "end of field"} => IsWrite(c)
           /\ Encoder(c) = "field" => IsFieldCall(c)
           /\ Encoder(c) = "end of field" => IsEndCall(c)
<1>1. CASE c.encode # "encodeNode"
  BY <1>1 DEF Encoder, IsWrite, IsFieldCall, IsEndCall
<1>2. CASE c.encode = "encodeNode"
  <2>1. Encoder(c) \in {"encodeFunction", "encodeBlock", "encodeFuncType", "encodeType",
                        "encodeNode"}
    BY <1>2 DEF Encoder
  <2> QED
    BY <1>2, <2>1 DEF IsWrite
<1> QED
  BY <1>1, <1>2

\* What the actions of the encoder have in common.
LEMMA EncodesFacts ==
    ASSUME WalkInv, NEW function, Encodes(function)
    PROVE  /\ Cut(tree, nodeRefs, nodeIDCounter, Head(calls), Tail(calls))
           /\ Encoder(Head(calls)) = function
           /\ phase = "encode" /\ prog' = prog
           /\ nodeIDCounter \in 1 .. MaxId /\ nodeIDCounter + 1 \in 1 .. MaxId
           /\ allNodes' = <<>> /\ allTypes' = <<>>
           /\ todo' \subseteq Programs[prog'].functions
<1>1. nodeIDCounter \in 1 .. MaxId /\ nodeIDCounter < MaxId
  BY DEF WalkInv, Encodes
<1>2. nodeIDCounter + 1 \in 1 .. MaxId
  BY <1>1, MaxIdAssumption
<1>3. Cut(tree, nodeRefs, nodeIDCounter, Head(calls), Tail(calls))
  BY WalkIsCut, Zenon DEF WalkInv, Encodes
<1> QED
  BY <1>1, <1>2, <1>3 DEF WalkInv, Encodes

\* A step of the encoder keeps the invariant if it goes on with a walk.
LEMMA EncoderStep ==
    ASSUME WalkInv, prog' = prog,
           phase' \in {"encode", "panicked"},
           todo' \subseteq Programs[prog'].functions,
           nodeIDCounter' \in 1 .. MaxId,
           allNodes' = <<>>, allTypes' = <<>>,
           IsWalk(tree', nodeRefs', nodeIDCounter', calls')
    PROVE  WalkInv'
<1>1. IsWalk(tree, nodeRefs, nodeIDCounter, calls)'
  BY WalkAfter
<1>2. MapOk(tree', <<>>)
  BY DEF MapOk
<1>3. MapOk(tree, allNodes)' /\ MapOk(tree, allTypes)'
  BY <1>2 DEF MapOk
<1>4. prog' \in DOMAIN Programs
  BY DEF WalkInv
<1> QED
  BY <1>1, <1>3, <1>4 DEF WalkInv, Final

LEMMA LinkStep ==
    ASSUME WalkInv, NEW function, function \notin {"field", "end of field"},
           Encodes(function),
           NEW kind \in NodeKinds, Link(kind)
    PROVE  WalkInv'
<1>1. /\ Cut(tree, nodeRefs, nodeIDCounter, Head(calls), Tail(calls))
      /\ Encoder(Head(calls)) = function
  BY EncodesFacts, Zenon
<1>2. IsWrite(Head(calls))
  BY <1>1, EncoderFacts, Zenon
<1>3. Mentioned(nodeRefs, Head(calls))
  BY DEF Link, Mentioned
<1>4. IsWalk(Append(tree, Node(nodeIDCounter, kind, nodeRefs[Head(calls).of], Head(calls))),
             nodeRefs, nodeIDCounter + 1, Tail(calls))
  BY <1>1, <1>2, <1>3, AddLink, Zenon
<1>5. IsWalk(tree', nodeRefs', nodeIDCounter', calls')
  BY <1>4, Zenon DEF Link
<1>6. /\ phase = "encode" /\ prog' = prog /\ nodeIDCounter + 1 \in 1 .. MaxId
      /\ allNodes' = <<>> /\ allTypes' = <<>>
      /\ todo' \subseteq Programs[prog'].functions
  BY EncodesFacts, Zenon
<1>7. phase' = phase /\ nodeIDCounter' = nodeIDCounter + 1
  BY DEF Link
<1> QED
  BY <1>5, <1>6, <1>7, EncoderStep

LEMMA FirstMentionStep ==
    ASSUME WalkInv, NEW function, function \notin {"field", "end of field"},
           Encodes(function),
           FirstMention
    PROVE  WalkInv'
<1>1. /\ Cut(tree, nodeRefs, nodeIDCounter, Head(calls), Tail(calls))
      /\ Encoder(Head(calls)) = function
  BY EncodesFacts, Zenon
<1>2. IsWrite(Head(calls))
  BY <1>1, EncoderFacts, Zenon
<1>3. ~ Mentioned(nodeRefs, Head(calls)) /\ prog \in DOMAIN Programs
  BY DEF FirstMention, Mentioned, WalkInv
<1>4. IsWalk(Append(tree, Node(nodeIDCounter, KindOf(Head(calls).of), NoNode, Head(calls))),
             With(nodeRefs, Head(calls).of, nodeIDCounter), nodeIDCounter + 1,
             CallsFor(Head(calls).of, Len(tree) + 1) \o Tail(calls))
  BY <1>1, <1>2, <1>3, AddFull, Zenon
<1>5. nodeRefs' = With(nodeRefs, Head(calls).of, nodeIDCounter)
  BY Zenon DEF FirstMention, SetRef, WithRef, With
<1>6. IsWalk(tree', nodeRefs', nodeIDCounter', calls')
  BY <1>4, <1>5, Zenon DEF FirstMention
<1>7. /\ phase = "encode" /\ prog' = prog /\ nodeIDCounter + 1 \in 1 .. MaxId
      /\ allNodes' = <<>> /\ allTypes' = <<>>
      /\ todo' \subseteq Programs[prog'].functions
  BY EncodesFacts, Zenon
<1>8. phase' = phase /\ nodeIDCounter' = nodeIDCounter + 1
  BY DEF FirstMention
<1> QED
  BY <1>6, <1>7, <1>8, EncoderStep

LEMMA FieldStep ==
    ASSUME WalkInv, EncodeField
    PROVE  WalkInv'
<1>0. Encodes("field")
  BY DEF EncodeField
<1>1. /\ Cut(tree, nodeRefs, nodeIDCounter, Head(calls), Tail(calls))
      /\ Encoder(Head(calls)) = "field"
  BY <1>0, EncodesFacts, Zenon
<1>2. IsFieldCall(Head(calls)) /\ prog \in DOMAIN Programs
  BY <1>1, EncoderFacts, Zenon DEF WalkInv
<1>3. IsWalk(Append(tree, Node(nodeIDCounter + 1, "Field", NoNode, Head(calls))),
             nodeRefs, nodeIDCounter + 1,
             CallsFor(Head(calls).of, Len(tree) + 1)
                \o <<EndCall(Head(calls), Len(tree) + 1)>> \o Tail(calls))
  BY <1>1, <1>2, AddField, Zenon
<1>4. IsWalk(tree', nodeRefs', nodeIDCounter', calls')
  BY <1>3, Zenon DEF EncodeField, EndCall
<1>5. /\ phase = "encode" /\ prog' = prog /\ nodeIDCounter + 1 \in 1 .. MaxId
      /\ allNodes' = <<>> /\ allTypes' = <<>>
      /\ todo' \subseteq Programs[prog'].functions
  BY <1>0, EncodesFacts, Zenon
<1>6. phase' = phase /\ nodeIDCounter' = nodeIDCounter + 1
  BY DEF EncodeField
<1> QED
  BY <1>4, <1>5, <1>6, EncoderStep

LEMMA EndFieldStep ==
    ASSUME WalkInv, EndField
    PROVE  WalkInv'
<1>0. Encodes("end of field")
  BY DEF EndField
<1>1. /\ Cut(tree, nodeRefs, nodeIDCounter, Head(calls), Tail(calls))
      /\ Encoder(Head(calls)) = "end of field"
  BY <1>0, EncodesFacts, Zenon
<1>2. IsEndCall(Head(calls))
  BY <1>1, EncoderFacts, Zenon
<1>3. IsWalk([tree EXCEPT ![Head(calls).in].id = nodeIDCounter],
             With(nodeRefs, Head(calls).of, nodeIDCounter), nodeIDCounter, Tail(calls))
  BY <1>1, <1>2, EndOfField, Zenon
<1>4. tree' = [tree EXCEPT ![Head(calls).in].id = nodeIDCounter]
  BY DEF EndField, FieldId
<1>5. nodeRefs' = With(nodeRefs, Head(calls).of, nodeIDCounter)
  BY Zenon DEF EndField, FieldId, SetRef, WithRef, With
<1>6. phase' = phase /\ nodeIDCounter' = nodeIDCounter /\ calls' = Tail(calls)
  BY DEF EndField
<1>7. IsWalk(tree', nodeRefs', nodeIDCounter', calls')
  BY <1>3, <1>4, <1>5, <1>6, Zenon
<1>8. /\ phase = "encode" /\ prog' = prog /\ nodeIDCounter \in 1 .. MaxId
      /\ allNodes' = <<>> /\ allTypes' = <<>>
      /\ todo' \subseteq Programs[prog'].functions
  BY <1>0, EncodesFacts, Zenon
<1> QED
  BY <1>6, <1>7, <1>8, EncoderStep

LEMMA RangeStep ==
    ASSUME WalkInv, RangeFunctions
    PROVE  WalkInv'
<1>0. PICK nr : nr = Cardinality(Programs[prog].functions \ todo) + 1
  OBVIOUS
<1>1. PICK f \in todo : /\ todo' = todo \ {f}
                        /\ calls' = <<[encode |-> "encodeFunction", of |-> f,
                                       in |-> NoNode, key |-> "top", nr |-> nr]>>
  BY <1>0 DEF RangeFunctions
<1>i. nr \in Nat
  <2>1. IsFiniteSet(Programs[prog].functions)
    BY ObjectFacts, FS_Subset DEF WalkInv
  <2> QED
    <3>1. IsFiniteSet(Programs[prog].functions \ todo)
      BY <2>1, FS_Difference
    <3>2. Cardinality(Programs[prog].functions \ todo) \in Nat
      BY <3>1, FS_CardinalityType
    <3> QED
      BY <1>0, <3>2
<1>2. /\ phase = "encode" /\ phase' = phase /\ prog' = prog
      /\ nodeIDCounter' = nodeIDCounter /\ nodeRefs' = nodeRefs /\ tree' = tree
      /\ allNodes' = allNodes /\ allTypes' = allTypes
  BY DEF RangeFunctions
<1>3. f \in DOMAIN Objects /\ ~ IsField(f)
  <2>1. f \in Programs[prog].functions /\ prog \in DOMAIN Programs
    BY DEF WalkInv
  <2>2. f \in DOMAIN Objects /\ KindOf(f) = "Function"
    BY <2>1, ObjectFacts, Zenon
  <2> QED
    BY <2>2 DEF IsField
<1>4. PICK c : c = [encode |-> "encodeFunction", of |-> f, in |-> NoNode, key |-> "top",
                   nr |-> nr]
  OBVIOUS
<1>5. PICK cs : cs = <<c>>
  OBVIOUS
<1>6. /\ tree \in Seq(Nodes) /\ RefsOk(nodeRefs, nodeIDCounter) /\ Once(tree)
      /\ \A n \in 1 .. Len(tree) : NodeOk(nodeRefs, tree[n], n)
  BY DEF WalkInv, IsWalk
<1>7. c \in WalkCalls /\ c.in = 0 /\ c.of = f /\ c.encode = "encodeFunction" /\ c.key = "top"
  BY <1>i, <1>3, <1>4 DEF WalkCalls, NoNode
<1>8. cs \in Seq(WalkCalls) /\ \A k \in 1 .. Len(cs) : cs[k] = c /\ k = 1
  BY <1>5, <1>7
<1>9. CallOk(tree, nodeRefs, c)
  <2>1. 0 <= Len(tree)
    BY <1>6
  <2> QED
    BY <1>3, <1>7, <2>1 DEF CallOk
<1>10. CallsOk(tree, nodeRefs, cs)
  BY <1>8, <1>9 DEF CallsOk
<1>11. IsWalk(tree, nodeRefs, nodeIDCounter, cs)
  BY <1>6, <1>8, <1>10 DEF IsWalk
<1>12. IsWalk(tree', nodeRefs', nodeIDCounter', calls')
  BY <1>1, <1>2, <1>4, <1>5, <1>11, Zenon
<1>13. /\ nodeIDCounter' \in 1 .. MaxId /\ allNodes' = <<>> /\ allTypes' = <<>>
       /\ todo' \subseteq Programs[prog'].functions
  BY <1>1, <1>2 DEF WalkInv
<1> QED
  BY <1>2, <1>12, <1>13, EncoderStep

\* When the encoder is done, or has failed, the walk stays as it is.
LEMMA OtherStep ==
    ASSUME WalkInv, UNCHANGED <<prog, todo, calls, nodeIDCounter, nodeRefs, tree>>,
           phase' \in Final \cup {"decode"},
           MapOk(tree, allNodes'), MapOk(tree, allTypes')
    PROVE  WalkInv'
<1>1. IsWalk(tree, nodeRefs, nodeIDCounter, calls)'
  BY WalkAfter DEF WalkInv
<1>2. MapOk(tree, allNodes)' /\ MapOk(tree, allTypes)'
  BY DEF MapOk
<1> QED
  BY <1>1, <1>2 DEF WalkInv, Final

LEMMA EncodePanicsStep ==
    ASSUME WalkInv, EncodePanics
    PROVE  WalkInv'
<1>1. /\ UNCHANGED <<prog, todo, calls, nodeIDCounter, nodeRefs, tree, allNodes, allTypes>>
      /\ phase' = "panicked"
  BY DEF EncodePanics, Encodes
<1> QED
  BY <1>1, OtherStep DEF WalkInv, Final

LEMMA DecoderStep ==
    ASSUME WalkInv, WriteFile \/ ReadNode \/ ConstructNode \/ ConstructInvoke \/ EndDecoding
    PROVE  WalkInv'
<1>0. MapOk(tree, allNodes) /\ MapOk(tree, allTypes)
  BY DEF WalkInv
<1>1. CASE WriteFile
  BY <1>0, <1>1, OtherStep DEF WriteFile
<1>2. CASE ReadNode
  BY <1>0, <1>2, OtherStep DEF ReadNode, Decodes
<1>3. CASE ConstructNode
  <2>1. ASSUME NEW map, NEW n, MapOk(tree, map)
        PROVE  MapOk(tree, Enter(map, tree[n].id, n))
    BY <2>1 DEF MapOk, Enter
  <2>2. MapOk(tree, allNodes') /\ MapOk(tree, allTypes')
    BY <1>0, <1>3, <2>1, Zenon DEF ConstructNode
  <2> QED
    BY <1>3, <2>2, OtherStep DEF ConstructNode, Decodes
<1>4. CASE ConstructInvoke
  BY <1>0, <1>4, OtherStep DEF ConstructInvoke, Decodes, Final
<1>5. CASE EndDecoding
  BY <1>0, <1>5, OtherStep DEF EndDecoding, Final
<1> QED
  BY <1>1, <1>2, <1>3, <1>4, <1>5

LEMMA NextWalk ==
    ASSUME WalkInv, [Next]_vars
    PROVE  WalkInv'
<1>k. /\ "LinkToNode" \in NodeKinds /\ "LinkToParam" \in NodeKinds
      /\ "LinkToBlock" \in NodeKinds /\ "LinkToFunc" \in NodeKinds
      /\ "LinkToType" \in NodeKinds
  BY DEF NodeKinds
<1>f. /\ "encodeFunction" \notin {"field", "end of field"}
      /\ "encodeParameter" \notin {"field", "end of field"}
      /\ "encodeBlock" \notin {"field", "end of field"}
      /\ "encodeFuncType" \notin {"field", "end of field"}
      /\ "encodeType" \notin {"field", "end of field"}
      /\ "encodeNode" \notin {"field", "end of field"}
  OBVIOUS
<1>1. CASE RangeFunctions
  BY <1>1, RangeStep
<1>2. CASE EncodeFunction
  BY <1>k, <1>f, <1>2, LinkStep, FirstMentionStep, Zenon DEF EncodeFunction
<1>3. CASE EncodeParameter
  BY <1>k, <1>f, <1>3, LinkStep, FirstMentionStep, Zenon DEF EncodeParameter
<1>4. CASE EncodeBlock
  BY <1>k, <1>f, <1>4, LinkStep, FirstMentionStep, Zenon DEF EncodeBlock
<1>5. CASE EncodeFuncType
  BY <1>k, <1>f, <1>5, LinkStep, FirstMentionStep, Zenon DEF EncodeFuncType
<1>6. CASE EncodeType
  BY <1>k, <1>f, <1>6, LinkStep, FirstMentionStep, Zenon DEF EncodeType
<1>7. CASE EncodeNode
  BY <1>k, <1>f, <1>7, LinkStep, FirstMentionStep, Zenon DEF EncodeNode
<1>8. CASE EncodePanics
  BY <1>8, EncodePanicsStep
<1>9. CASE EncodeField
  BY <1>9, FieldStep
<1>10. CASE EndField
  BY <1>10, EndFieldStep
<1>11. CASE WriteFile \/ ReadNode \/ ConstructNode \/ ConstructInvoke \/ EndDecoding
  BY <1>11, DecoderStep
<1>12. CASE UNCHANGED vars
  <2>1. IsWalk(tree, nodeRefs, nodeIDCounter, calls)'
    BY <1>12, WalkAfter DEF vars, WalkInv
  <2>2. MapOk(tree, allNodes)' /\ MapOk(tree, allTypes)'
    BY <1>12 DEF vars, WalkInv, MapOk
  <2> QED
    BY <1>12, <2>1, <2>2 DEF vars, WalkInv
<1>13. CASE Done
  BY <1>12, <1>13 DEF Done
<1> QED
  BY <1>1, <1>2, <1>3, <1>4, <1>5, <1>6, <1>7, <1>8, <1>9, <1>10, <1>11, <1>12, <1>13
  DEF Next

LEMMA Walks == Spec => []WalkInv
BY InitWalk, NextWalk, PTL DEF Spec

(***************************************************************************)
(* Every variable of the encoder and of the decoder keeps its type: an     *)
(* object has an id below the counter once it is mentioned, and what is    *)
(* entered in allNodes or allTypes under an id has that id.                *)
(***************************************************************************)
THEOREM EncodingTypeCorrect == Spec => []TypeOK
<1>1. WalkInv => TypeOK
  <2> SUFFICES ASSUME WalkInv PROVE TypeOK
    OBVIOUS
  <2>1. /\ tree \in Seq(Nodes) /\ RefsOk(nodeRefs, nodeIDCounter)
        /\ \A n \in 1 .. Len(tree) : NodeOk(nodeRefs, tree[n], n)
    BY DEF WalkInv, IsWalk
  <2>2. DOMAIN tree = 1 .. Len(tree) /\ \A n \in DOMAIN tree : tree[n] \in Nodes
    BY <2>1
  <2>3. {tree[n].of : n \in DOMAIN tree} \subseteq DOMAIN Objects
    BY <2>2 DEF Nodes
  <2>4. \A n \in DOMAIN tree : tree[n].in < n
    BY <2>1, <2>2 DEF NodeOk
  <2>5. /\ DOMAIN nodeRefs \subseteq DOMAIN Objects
        /\ \A o \in DOMAIN nodeRefs :
              nodeRefs[o] \in IF KindOf(o) = "Field" THEN 1 .. nodeIDCounter
                              ELSE 1 .. nodeIDCounter - 1
    BY <2>1 DEF RefsOk, IsField
  <2>6. \A map \in {allNodes, allTypes} : \A id \in DOMAIN map : tree[map[id]].id = id
    BY DEF WalkInv, MapOk
  <2> QED
    BY <2>3, <2>4, <2>5, <2>6 DEF WalkInv, TypeOK
<1> QED
  BY <1>1, Walks, PTL

(***************************************************************************)
(* For every package, however its objects refer to each other, and in      *)
(* whatever order its functions come: each object is written in full at    *)
(* most once, and every link comes after what it links to and has its id.  *)
(***************************************************************************)
THEOREM EachIsWrittenOnce == Spec => []WrittenOnce
<1>1. WalkInv => WrittenOnce
  <2> SUFFICES ASSUME WalkInv, NEW m \in DOMAIN tree, NEW n \in DOMAIN tree,
                      tree[m].of = tree[n].of, InFull(m)
               PROVE  IF InFull(n) THEN m = n
                      ELSE m < n /\ tree[n].linkId = tree[m].id
    BY DEF WrittenOnce
  <2>1. /\ tree \in Seq(Nodes) /\ Once(tree)
        /\ \A k \in 1 .. Len(tree) : NodeOk(nodeRefs, tree[k], k)
    BY DEF WalkInv, IsWalk
  <2>2. m \in 1 .. Len(tree) /\ n \in 1 .. Len(tree)
    BY <2>1
  <2>3. (InFull(m) <=> Full(tree[m])) /\ (InFull(n) <=> Full(tree[n]))
    BY DEF InFull, IsLink, Full
  <2>4. IF Full(tree[n]) THEN m = n ELSE m < n
    BY <2>1, <2>2, <2>3 DEF Once
  <2>5. NodeOk(nodeRefs, tree[m], m) /\ NodeOk(nodeRefs, tree[n], n)
    BY <2>1, <2>2
  <2>6. ~ Full(tree[n]) => tree[n].linkId = tree[m].id
    BY <2>3, <2>5 DEF NodeOk
  <2> QED
    BY <2>3, <2>4, <2>6
<1> QED
  BY <1>1, Walks, PTL

-----------------------------------------------------------------------------

(* The order of nodes and calls *)

(***************************************************************************)
(* A walk as one sequence: the nodes that were written, and behind them    *)
(* those that the calls will write.  Writing a node leaves the sequence as *)
(* it is, but for the parts of the node, which are put behind it.          *)
(***************************************************************************)
Slot(x) == [of |-> x.of, in |-> x.in, key |-> x.key, nr |-> x.nr]

Slots(t, cs) == [i \in 1 .. Len(t) + Len(cs) |->
                    IF i <= Len(t) THEN Slot(t[i]) ELSE Slot(cs[i - Len(t)])]

IsEnd(x) == x.key = "end"

KeyBefore(kind, a, b) ==
    \E k, l \in DOMAIN KeysOf(kind) : k < l /\ KeysOf(kind)[k] = a /\ KeysOf(kind)[l] = b

\* Part x is a part of object o, under its key and with its number.
IsPart(o, x) ==
    /\ \E k \in DOMAIN KeysOf(KindOf(o)) : KeysOf(KindOf(o))[k] = x.key
    /\ x.nr \in DOMAIN At(o, x.key)
    /\ x.of = At(o, x.key)[x.nr]

\* A function at the top, of the set fs.
IsTop(fs, x) == x.key = "top" /\ x.nr \in 1 .. Cardinality(fs) /\ x.of \in fs

\* x is written before y, both parts of the same object, or at the top.
Before(s, x, y) ==
    \/ x.key = y.key /\ x.nr < y.nr
    \/ x.in # NoNode /\ KeyBefore(KindOf(s[x.in].of), x.key, y.key)

Inside(s, N) == \A i \in DOMAIN s : s[i].in \in Nat /\ s[i].in <= N /\ s[i].in < i

\* Subtrees do not cross: what is behind i is in it, or in what it is in.
Nested(s) == \A i, j \in DOMAIN s : i < j => s[j].in >= i \/ s[j].in <= s[i].in

\* The end of a field is a call, and what is behind it is not in the field.
EndsLast(s, N) ==
    \A i \in DOMAIN s : IsEnd(s[i]) =>
        /\ i > N
        /\ s[i].in # NoNode
        /\ \A j \in DOMAIN s : i < j => s[j].in < s[i].in

IsPartOf(s, full, fs, x) ==
    IF x.in = NoNode THEN IsTop(fs, x) ELSE x.in \in full /\ IsPart(s[x.in].of, x)

PartsOnly(s, full, fs) == \A i \in DOMAIN s : ~ IsEnd(s[i]) => IsPartOf(s, full, fs, s[i])

InOrder(s) ==
    \A i, j \in DOMAIN s :
        i < j /\ s[i].in = s[j].in /\ ~ IsEnd(s[i]) /\ ~ IsEnd(s[j]) => Before(s, s[i], s[j])

\* Every part of every object has its place.
HasPart(s, n, key, nr) == \E i \in DOMAIN s : s[i].in = n /\ s[i].key = key /\ s[i].nr = nr

AllParts(s, full) ==
    \A n \in full : \A k \in DOMAIN KeysOf(KindOf(s[n].of)) :
        LET key == KeysOf(KindOf(s[n].of))[k]
        IN  \A nr \in DOMAIN At(s[n].of, key) : HasPart(s, n, key, nr)

AllTops(s, fs) ==
    /\ \A nr \in 1 .. Cardinality(fs) : HasPart(s, NoNode, "top", nr)
    /\ \A f \in fs : \E i \in DOMAIN s : s[i].in = NoNode /\ ~ IsEnd(s[i]) /\ s[i].of = f

IsOrder(s, N, full, fs) ==
    /\ Inside(s, N) /\ Nested(s) /\ EndsLast(s, N)
    /\ PartsOnly(s, full, fs) /\ InOrder(s)
    /\ AllParts(s, full) /\ AllTops(s, fs)

FullNodes(t) == {n \in 1 .. Len(t) : Full(t[n])}

(***************************************************************************)
(* Ids grow with the places of nodes.  The id of a field is given out once *)
(* more: to a node behind the field that is not in it.                     *)
(***************************************************************************)
IdsGrow(t, next) ==
    \A n \in 1 .. Len(t) : ~ IsField(t[n].of) =>
        /\ t[n].id < next
        /\ \A m \in 1 .. Len(t) : m < n /\ ~ IsField(t[m].of) => t[m].id < t[n].id

HasEnded(s, f) == \A i \in DOMAIN s : IsEnd(s[i]) => s[i].in # f

FieldIds(t, next, s) ==
    \A f \in 1 .. Len(t) : IsField(t[f].of) /\ HasEnded(s, f) =>
        /\ t[f].id <= next
        /\ t[f].id = next => \A i \in DOMAIN s : i > Len(t) => s[i].in < f
        /\ \A n \in 1 .. Len(t) :
              ~ IsField(t[n].of) /\ t[n].id = t[f].id => f < n /\ t[n].in < f

\* Nodes and links are of the kind of their object.
LinkFits(linkKind, kind) ==
    /\ linkKind \in LinkKinds
    /\ linkKind = "LinkToType" <=> kind \in TypeKinds
    /\ linkKind = "LinkToFunc" <=> kind = "Func"
    /\ linkKind = "LinkToBlock" => kind = "BasicBlock"
    /\ linkKind = "LinkToParam" => kind = "Parameter"

NodeFits(node) ==
    IF Full(node) THEN node.kind = KindOf(node.of) /\ ~ HasLowOrMax(node.of)
    ELSE LinkFits(node.kind, KindOf(node.of))

CallFits(c) ==
    /\ c.encode = "encodeFunction" => KindOf(c.of) = "Function"
    /\ Takes(c.encode, KindOf(c.of))

\* What has an id was written in full.
Written(t, refs) ==
    \A o \in DOMAIN refs : ~ IsField(o) => \E m \in 1 .. Len(t) : Full(t[m]) /\ t[m].of = o

IsTree(t, refs, next, cs, fs) ==
    /\ IsOrder(Slots(t, cs), Len(t), FullNodes(t), fs)
    /\ IdsGrow(t, next)
    /\ FieldIds(t, next, Slots(t, cs))
    /\ \A n \in 1 .. Len(t) : NodeFits(t[n])
    /\ \A k \in 1 .. Len(cs) : CallFits(cs[k])
    /\ Written(t, refs)

TreeInv == IsTree(tree, nodeRefs, nodeIDCounter, calls, Programs[prog].functions \ todo)

-----------------------------------------------------------------------------

(* The decoder: it reads the nodes in their order *)

IsRead(item) == item.step = "read"

Constructed(q, r) ==
    {n \in 1 .. r : \A k \in 1 .. Len(q) : ~ IsRead(q[k]) => q[k].node # n}

Items == [step : {"read", "construct"}, node : Nat]

ItemsOk(t, q, r) ==
    /\ q \in Seq(Items)
    /\ \A k \in 1 .. Len(q) :
          /\ q[k].node \in 1 .. Len(t)
          /\ IF IsRead(q[k]) THEN q[k].node > r /\ t[q[k].node].in <= r
             ELSE q[k].node <= r

\* What is to be read next, and in what it is.
FrontierOk(t, q, r) ==
    \A n \in 1 .. Len(t) :
        n > r /\ t[n].in <= r => \E k \in 1 .. Len(q) : IsRead(q[k]) /\ q[k].node = n

ItemsInOrder(t, q) ==
    \A j, k \in 1 .. Len(q) : j < k =>
        IF IsRead(q[k]) THEN IsRead(q[j]) => q[j].node < q[k].node
        ELSE q[k].node <= t[q[j].node].in

\* What is before a constructed node, and not in what it is in, is constructed.
ConstructedFirst(t, C) ==
    \A n \in C : \A h \in 1 .. Len(t) : t[n].in < h /\ h < n => h \in C

MapsHold(t, C, nodes, types) ==
    \A n \in C : ~ IsField(t[n].of) =>
        LET map == IF IsSsaType(t[n]) THEN types ELSE nodes
        IN  t[n].id \in DOMAIN map /\ map[t[n].id] = n

IsDecoding(t, q, r, nodes, types) ==
    /\ ItemsOk(t, q, r) /\ FrontierOk(t, q, r) /\ ItemsInOrder(t, q)
    /\ ConstructedFirst(t, Constructed(q, r))
    /\ MapsHold(t, Constructed(q, r), nodes, types)

DecodeInv ==
    phase \in {"decode", "decoded"} =>
        /\ calls = <<>> /\ todo = {}
        /\ \E r \in 0 .. Len(tree) : IsDecoding(tree, reading, r, allNodes, allTypes)
        /\ phase = "decoded" => reading = <<>>

-----------------------------------------------------------------------------

(* The order of the parts of an object *)

LEMMA ConcatFacts ==
    ASSUME NEW S, NEW p \in Seq(S), NEW q \in Seq(S)
    PROVE  /\ p \o q \in Seq(S) /\ Len(p) \in Nat /\ Len(q) \in Nat
           /\ Len(p \o q) = Len(p) + Len(q)
           /\ \A i \in 1 .. Len(p) : i \in 1 .. Len(p \o q) /\ (p \o q)[i] = p[i]
           /\ \A i \in 1 .. Len(q) :
                 i + Len(p) \in 1 .. Len(p \o q) /\ (p \o q)[i + Len(p)] = q[i]
           /\ \A i \in 1 .. Len(p \o q) :
                 \/ i \in 1 .. Len(p) /\ (p \o q)[i] = p[i]
                 \/ i > Len(p) /\ i - Len(p) \in 1 .. Len(q) /\ (p \o q)[i] = q[i - Len(p)]
OBVIOUS

\* Pairs of elements of a sequence, in its order.
Pairwise(q, R) == \A i, j \in 1 .. Len(q) : i < j => <<q[i], q[j]>> \in R

Has(q, x) == \E i \in 1 .. Len(q) : q[i] = x

LEMMA PairwiseConcat ==
    ASSUME NEW S, NEW R, NEW p \in Seq(S), NEW q \in Seq(S), Pairwise(p, R), Pairwise(q, R),
           \A x, y : Has(p, x) /\ Has(q, y) => <<x, y>> \in R
    PROVE  /\ Pairwise(p \o q, R)
           /\ \A x : Has(p \o q, x) <=> Has(p, x) \/ Has(q, x)
<1>1. PICK r : r = p \o q
  OBVIOUS
<1>2. /\ Len(p) \in Nat /\ Len(q) \in Nat /\ Len(r) = Len(p) + Len(q)
      /\ \A i \in 1 .. Len(p) : i \in 1 .. Len(r) /\ r[i] = p[i]
      /\ \A i \in 1 .. Len(q) : i + Len(p) \in 1 .. Len(r) /\ r[i + Len(p)] = q[i]
      /\ \A i \in 1 .. Len(r) :
            \/ i \in 1 .. Len(p) /\ r[i] = p[i]
            \/ i > Len(p) /\ i - Len(p) \in 1 .. Len(q) /\ r[i] = q[i - Len(p)]
  BY <1>1, ConcatFacts
<1>3. \A x : Has(r, x) <=> Has(p, x) \/ Has(q, x)
  BY <1>2 DEF Has
<1>4. ASSUME NEW i \in 1 .. Len(r), NEW j \in 1 .. Len(r), i < j PROVE <<r[i], r[j]>> \in R
  <2>1. CASE j \in 1 .. Len(p) /\ r[j] = p[j]
    <3>1. i \in 1 .. Len(p) /\ r[i] = p[i]
      BY <1>2, <1>4, <2>1
    <3> QED
      BY <1>4, <2>1, <3>1 DEF Pairwise
  <2>2. CASE j > Len(p) /\ j - Len(p) \in 1 .. Len(q) /\ r[j] = q[j - Len(p)]
    <3>1. CASE i \in 1 .. Len(p) /\ r[i] = p[i]
      BY <2>2, <3>1 DEF Has
    <3>2. CASE i > Len(p) /\ i - Len(p) \in 1 .. Len(q) /\ r[i] = q[i - Len(p)]
      <4>1. i - Len(p) < j - Len(p)
        BY <1>2, <1>4
      <4> QED
        BY <2>2, <3>2, <4>1 DEF Pairwise
    <3> QED
      BY <1>2, <3>1, <3>2
  <2> QED
    BY <1>2, <2>1, <2>2
<1> QED
  BY <1>1, <1>3, <1>4 DEF Pairwise

\* Lists in order, one after the other.
LEMMA FlattenInOrder ==
    ASSUME NEW S, NEW R, NEW seqs \in Seq(Seq(S)),
           \A k \in 1 .. Len(seqs) : Pairwise(seqs[k], R),
           \A k, l \in 1 .. Len(seqs) : k < l =>
              \A x, y : Has(seqs[k], x) /\ Has(seqs[l], y) => <<x, y>> \in R
    PROVE  /\ FlattenSeq(seqs) \in Seq(S)
           /\ Pairwise(FlattenSeq(seqs), R)
           /\ \A x : Has(FlattenSeq(seqs), x) <=> \E k \in 1 .. Len(seqs) : Has(seqs[k], x)
<1> DEFINE m == Len(seqs)
<1>1. m \in Nat /\ \A i \in 1 .. m : seqs[i] \in Seq(S)
  OBVIOUS
<1>h. PICK h : Flattens(h, S, seqs)
  BY FlattenFacts, Zenon
<1>2. /\ \A i \in 1 .. m :
            h[i] \in Seq(S) /\ h[i] = IF i = 1 THEN seqs[i] ELSE h[i - 1] \o seqs[i]
      /\ m # 0 => FlattenSeq(seqs) = h[m]
  BY <1>h DEF Flattens
<1>3. FlattenSeq(seqs) \in Seq(S) /\ (m = 0 => FlattenSeq(seqs) = seqs)
  BY FlattenFacts, Zenon
<1> DEFINE Good(n) == /\ Pairwise(h[n], R)
                      /\ \A x : Has(h[n], x) <=> \E k \in 1 .. n : Has(seqs[k], x)
           T == {n \in Nat : n + 1 <= m => Good(n + 1)}
<1> HIDE DEF m
<1>4. 0 \in T
  <2> SUFFICES ASSUME 0 + 1 <= m PROVE Good(0 + 1)
    OBVIOUS
  <2>1. 0 + 1 = 1 /\ 1 \in 1 .. m
    BY <1>1
  <2>2. h[1] = seqs[1]
    BY <1>2, <2>1
  <2>3. \A k \in 1 .. 1 : k = 1
    OBVIOUS
  <2>4. Good(1)
    BY <2>1, <2>2, <2>3 DEF m
  <2> HIDE DEF Good
  <2> QED
    BY <2>1, <2>4
<1>5. ASSUME NEW n \in Nat, n \in T PROVE n + 1 \in T
  <2> SUFFICES ASSUME (n + 1) + 1 <= m PROVE Good((n + 1) + 1)
    OBVIOUS
  <2>1. PICK a \in Nat : a = n + 1
    OBVIOUS
  <2>2. PICK b \in Nat : b = (n + 1) + 1
    OBVIOUS
  <2>3. /\ a \in 1 .. m /\ b \in 1 .. m /\ b # 1 /\ b - 1 = a /\ b = a + 1
        /\ \A k \in 1 .. b : k \in 1 .. a \/ k = b
        /\ \A k \in 1 .. a : k \in 1 .. b /\ k \in 1 .. m /\ k < b
    BY <1>1, <2>1, <2>2
  <2>4. Good(a)
    BY <1>5, <2>1, <2>3
  <2>5. h[b] = h[a] \o seqs[b] /\ h[a] \in Seq(S) /\ seqs[b] \in Seq(S)
    BY <1>1, <1>2, <2>3
  <2>6. Pairwise(seqs[b], R)
    BY <2>3 DEF m
  <2>7. \A x, y : Has(h[a], x) /\ Has(seqs[b], y) => <<x, y>> \in R
    <3> SUFFICES ASSUME NEW x, NEW y, Has(h[a], x), Has(seqs[b], y) PROVE <<x, y>> \in R
      OBVIOUS
    <3>1. PICK k \in 1 .. a : Has(seqs[k], x)
      BY <2>4
    <3> QED
      BY <2>3, <3>1 DEF m
  <2>8. Pairwise(h[b], R) /\ \A x : Has(h[b], x) <=> Has(h[a], x) \/ Has(seqs[b], x)
    BY <2>4, <2>5, <2>6, <2>7, PairwiseConcat
  <2>9. Good(b)
    BY <2>3, <2>4, <2>8
  <2> HIDE DEF Good
  <2> QED
    BY <2>2, <2>9
<1>6. Nat \subseteq T
  <2> HIDE DEF T
  <2> QED
    BY <1>4, <1>5, SetInduction
<1>7. CASE m = 0
  <2>1. FlattenSeq(seqs) = seqs /\ Len(seqs) = 0 /\ 1 .. 0 = {}
    BY <1>3, <1>7 DEF m
  <2> QED
    BY <1>3, <2>1 DEF Pairwise, Has
<1>8. CASE m # 0
  <2>1. m - 1 \in Nat /\ (m - 1) + 1 = m
    BY <1>1, <1>8
  <2>2. Good(m)
    <3>1. m - 1 \in T
      BY <1>6, <2>1
    <3> HIDE DEF Good
    <3>2. Good((m - 1) + 1)
      BY <1>1, <2>1, <3>1
    <3> QED
      BY <2>1, <3>2
  <2> QED
    BY <1>2, <1>3, <1>8, <2>2 DEF m
<1> QED
  BY <1>7, <1>8

\* The keys of an object, in the order in which their parts are encoded.
Matches(c, q) ==
    \E m \in 0 .. 3 :
        /\ DOMAIN c = 1 .. m /\ DOMAIN q = 1 .. m
        /\ \A i \in 1 .. m : c[i].key = q[i] /\ q[i] \in Keys
        /\ \A i, j \in 1 .. m : q[i] = q[j] => i = j

LEMMA Matching ==
    /\ Matches(<<>>, <<>>)
    /\ \A e, a : a \in Keys => Matches(<<Call(e, a)>>, <<a>>)
    /\ \A e, f, a, b : a \in Keys /\ b \in Keys /\ a # b =>
          Matches(<<Call(e, a), Call(f, b)>>, <<a, b>>)
    /\ \A e, f, g, a, b, c :
          a \in Keys /\ b \in Keys /\ c \in Keys /\ a # b /\ a # c /\ b # c =>
          Matches(<<Call(e, a), Call(f, b), Call(g, c)>>, <<a, b, c>>)
<1>0. /\ 0 \in 0 .. 3 /\ 1 \in 0 .. 3 /\ 2 \in 0 .. 3 /\ 3 \in 0 .. 3
      /\ 1 .. 0 = {} /\ 1 .. 1 = {1} /\ 1 .. 2 = {1, 2} /\ 1 .. 3 = {1, 2, 3}
  OBVIOUS
<1>k. \A e, a : Call(e, a).key = a
  BY DEF Call
<1>1. Matches(<<>>, <<>>)
  <2>1. DOMAIN <<>> = {}
    OBVIOUS
  <2> QED
    BY <1>0, <2>1 DEF Matches
<1>2. ASSUME NEW e, NEW a \in Keys PROVE Matches(<<Call(e, a)>>, <<a>>)
  <2>1. PICK c : c = Call(e, a)
    OBVIOUS
  <2>2. DOMAIN <<c>> = 1 .. 1 /\ DOMAIN <<a>> = 1 .. 1 /\ <<c>>[1] = c /\ <<a>>[1] = a
    OBVIOUS
  <2>3. \A i \in 1 .. 1 : i = 1
    OBVIOUS
  <2>4. Matches(<<c>>, <<a>>)
    BY <1>0, <1>k, <2>1, <2>2, <2>3 DEF Matches
  <2> QED
    BY <2>1, <2>4, Zenon
<1>3. ASSUME NEW e, NEW f, NEW a \in Keys, NEW b \in Keys, a # b
      PROVE  Matches(<<Call(e, a), Call(f, b)>>, <<a, b>>)
  <2>1. PICK c : c = Call(e, a)
    OBVIOUS
  <2>2. PICK d : d = Call(f, b)
    OBVIOUS
  <2>3. /\ DOMAIN <<c, d>> = 1 .. 2 /\ DOMAIN <<a, b>> = 1 .. 2
        /\ <<c, d>>[1] = c /\ <<c, d>>[2] = d /\ <<a, b>>[1] = a /\ <<a, b>>[2] = b
    OBVIOUS
  <2>4. \A i \in 1 .. 2 : i = 1 \/ i = 2
    OBVIOUS
  <2>5. Matches(<<c, d>>, <<a, b>>)
    BY <1>0, <1>3, <1>k, <2>1, <2>2, <2>3, <2>4 DEF Matches
  <2> QED
    BY <2>1, <2>2, <2>5, Zenon
<1>4. ASSUME NEW e, NEW f, NEW g, NEW a \in Keys, NEW b \in Keys, NEW k \in Keys,
             a # b, a # k, b # k
      PROVE  Matches(<<Call(e, a), Call(f, b), Call(g, k)>>, <<a, b, k>>)
  <2>1. PICK c : c = Call(e, a)
    OBVIOUS
  <2>2. PICK d : d = Call(f, b)
    OBVIOUS
  <2>3. PICK h : h = Call(g, k)
    OBVIOUS
  <2>4. /\ DOMAIN <<c, d, h>> = 1 .. 3 /\ DOMAIN <<a, b, k>> = 1 .. 3
        /\ <<c, d, h>>[1] = c /\ <<c, d, h>>[2] = d /\ <<c, d, h>>[3] = h
        /\ <<a, b, k>>[1] = a /\ <<a, b, k>>[2] = b /\ <<a, b, k>>[3] = k
    OBVIOUS
  <2>5. \A i \in 1 .. 3 : i = 1 \/ i = 2 \/ i = 3
    OBVIOUS
  <2>6. Matches(<<c, d, h>>, <<a, b, k>>)
    BY <1>0, <1>4, <1>k, <2>1, <2>2, <2>3, <2>4, <2>5 DEF Matches
  <2> QED
    BY <2>1, <2>2, <2>3, <2>6, Zenon
<1> QED
  BY <1>1, <1>2, <1>3, <1>4

LEMMA JoinedTuples ==
    /\ \A a : <<a>> \o <<>> = <<a>>
    /\ \A a, b : <<a>> \o <<b>> = <<a, b>>
    /\ \A a, b, c : <<a>> \o <<b, c>> = <<a, b, c>>
<1>1. ASSUME NEW a PROVE <<a>> \o <<>> = <<a>>
  OBVIOUS
<1>2. ASSUME NEW a, NEW b PROVE <<a>> \o <<b>> = <<a, b>>
  <2>1. PICK r : r = <<a>> \o <<b>>
    OBVIOUS
  <2>2. <<a>> \in Seq({a, b}) /\ <<b>> \in Seq({a, b}) /\ Len(<<a>>) = 1 /\ Len(<<b>>) = 1
    OBVIOUS
  <2>3. r \in Seq({a, b}) /\ Len(r) = 2 /\ r[1] = a /\ r[2] = b
    BY <2>1, <2>2, ConcatFacts
  <2>4. r = <<a, b>>
    BY <2>3
  <2> QED
    BY <2>1, <2>4, Zenon
<1>3. ASSUME NEW a, NEW b, NEW c PROVE <<a>> \o <<b, c>> = <<a, b, c>>
  <2>1. PICK r : r = <<a>> \o <<b, c>>
    OBVIOUS
  <2>2. /\ <<a>> \in Seq({a, b, c}) /\ <<b, c>> \in Seq({a, b, c})
        /\ Len(<<a>>) = 1 /\ Len(<<b, c>>) = 2
    OBVIOUS
  <2>3. r \in Seq({a, b, c}) /\ Len(r) = 3 /\ r[1] = a /\ r[2] = b /\ r[3] = c
    BY <2>1, <2>2, ConcatFacts
  <2>4. r = <<a, b, c>>
    BY <2>3
  <2> QED
    BY <2>1, <2>4, Zenon
<1> QED
  BY <1>1, <1>2, <1>3

LEMMA EncodeNodesAre ==
    /\ \A a : EncodeNodes(<<a>>) = <<Call("encodeNode", a)>>
    /\ \A a, b : EncodeNodes(<<a, b>>) = <<Call("encodeNode", a), Call("encodeNode", b)>>
<1> DEFINE Ca(a) == Call("encodeNode", a)
<1> HIDE DEF Ca
<1>1. \A keys : EncodeNodes(keys) = [i \in DOMAIN keys |-> Ca(keys[i])]
  BY DEF EncodeNodes, Ca
<1>2. \A a : EncodeNodes(<<a>>) = <<Ca(a)>>
  BY <1>1
<1>3. \A a, b : EncodeNodes(<<a, b>>) = <<Ca(a), Ca(b)>>
  BY <1>1
<1> QED
  BY <1>2, <1>3 DEF Ca


LEMMA KeysAreCalls == \A kind : Matches(CallsOf(kind), KeysOf(kind))
<1> SUFFICES ASSUME NEW kind PROVE Matches(CallsOf(kind), KeysOf(kind))
  OBVIOUS
<1>m. /\ Matches(<<>>, <<>>)
      /\ \A e, a : a \in Keys => Matches(<<Call(e, a)>>, <<a>>)
      /\ \A e, f, a, b : a \in Keys /\ b \in Keys /\ a # b =>
            Matches(<<Call(e, a), Call(f, b)>>, <<a, b>>)
      /\ \A e, f, g, a, b, c :
            a \in Keys /\ b \in Keys /\ c \in Keys /\ a # b /\ a # c /\ b # c =>
               Matches(<<Call(e, a), Call(f, b), Call(g, c)>>, <<a, b, c>>)
  BY Matching, Zenon
<1>k. \A a \in {"Function", "Parameter", "BasicBlock", "Func", "Field"} :
         a \notin TypeKinds /\ a \notin ValueKinds
  BY DEF TypeKinds, ValueKinds
<1>v. /\ EncodeNodes(<<"valueType">>) \o <<>> = <<Call("encodeNode", "valueType")>>
      /\ \A c : EncodeNodes(<<"valueType">>) \o <<c>> = <<Call("encodeNode", "valueType"), c>>
      /\ \A c, d : EncodeNodes(<<"valueType">>) \o <<c, d>>
                      = <<Call("encodeNode", "valueType"), c, d>>
  <2>1. PICK v : v = Call("encodeNode", "valueType")
    OBVIOUS
  <2>2. EncodeNodes(<<"valueType">>) = <<v>>
    BY <2>1, EncodeNodesAre, Zenon
  <2>3. /\ <<v>> \o <<>> = <<v>> /\ \A c : <<v>> \o <<c>> = <<v, c>>
        /\ \A c, d : <<v>> \o <<c, d>> = <<v, c, d>>
    BY JoinedTuples, Zenon
  <2> QED
    BY <2>1, <2>2, <2>3, Zenon
<1>d. TypeKinds \cap ValueKinds = {}
  BY DEF TypeKinds, ValueKinds

<1>1. CASE kind = "Function"
  <2>1. CallsOf(kind) = <<Call("encodeNode", "valueType"), Call("encodeParameter", "params"),
                          Call("encodeBlock", "body")>>
    BY <1>1, <1>k, EncodeNodesAre, Zenon DEF CallsOf, FunctionCalls
  <2>2. KeysOf(kind) = <<"valueType", "params", "body">>
    BY <1>1, <1>k, JoinedTuples DEF KeysOf, ValueNodeKeys
  <2> QED
    BY <1>m, <2>1, <2>2, Zenon DEF Keys
<1>2. CASE kind = "Parameter"
  <2>1. CallsOf(kind) = <<Call("encodeNode", "valueType")>>
    BY <1>2, <1>k, EncodeNodesAre, Zenon DEF CallsOf, ParameterCalls
  <2>2. KeysOf(kind) = <<"valueType">>
    BY <1>2, <1>k, JoinedTuples DEF KeysOf, ValueNodeKeys
  <2> QED
    BY <1>m, <2>1, <2>2, Zenon DEF Keys
<1>3. CASE kind = "BasicBlock"
  <2>1. CallsOf(kind) = <<Call("encodeNode", "instr")>>
    BY <1>3, <1>k, EncodeNodesAre, Zenon DEF CallsOf, BlockCalls
  <2>2. KeysOf(kind) = <<"instr">>
    BY <1>3, <1>k, JoinedTuples DEF KeysOf, NodeKeys
  <2> QED
    BY <1>m, <2>1, <2>2, Zenon DEF Keys
<1>4. CASE kind = "Func"
  <2>1. CallsOf(kind) = <<>>
    BY <1>4, <1>k, EncodeNodesAre, Zenon DEF CallsOf, FuncTypeCalls
  <2>2. KeysOf(kind) = <<>>
    BY <1>4, <1>k, JoinedTuples DEF KeysOf, TypeNodeKeys
  <2> QED
    BY <1>m, <2>1, <2>2, Zenon DEF Keys
<1>5. CASE kind = "Field"
  <2>1. CallsOf(kind) = <<Call("encodeNode", "elemType")>>
    BY <1>5, <1>k, EncodeNodesAre, Zenon DEF CallsOf, ParameterCalls
  <2>2. KeysOf(kind) = <<"elemType">>
    BY <1>5, <1>k, JoinedTuples DEF KeysOf, TypeNodeKeys
  <2> QED
    BY <1>m, <2>1, <2>2, Zenon DEF Keys
<1>6. CASE kind \in TypeKinds
  <2>1. CallsOf(kind) = TypeCalls(kind) /\ KeysOf(kind) = TypeNodeKeys(kind)
    BY <1>6, <1>k, <1>d DEF CallsOf, KeysOf
  <2>2. CASE kind = "Alias"
    <3>1. TypeCalls(kind) = <<Call("encodeType", "rhs")>> /\ TypeNodeKeys(kind) = <<"rhs">>
      BY <2>2, EncodeNodesAre, Zenon DEF TypeCalls, TypeNodeKeys
    <3> QED
      BY <1>m, <2>1, <3>1, Zenon DEF Keys
  <2>3. CASE kind = "Struct"
    <3>1. TypeCalls(kind) = <<Call("field", "fields")>> /\ TypeNodeKeys(kind) = <<"fields">>
      BY <2>3, EncodeNodesAre, Zenon DEF TypeCalls, TypeNodeKeys
    <3> QED
      BY <1>m, <2>1, <3>1, Zenon DEF Keys
  <2>4. CASE kind \in {"Pointer", "Slice type", "Array"}
    <3>1. /\ TypeCalls(kind) = <<Call("encodeNode", "elemType")>>
          /\ TypeNodeKeys(kind) = <<"elemType">>
      BY <2>4, EncodeNodesAre, Zenon DEF TypeCalls, TypeNodeKeys
    <3> QED
      BY <1>m, <2>1, <3>1, Zenon DEF Keys
  <2>5. CASE kind = "Interface"
    <3>1. /\ TypeCalls(kind) = <<Call("encodeNode", "methods"),
                                 Call("encodeNode", "embedded")>>
          /\ TypeNodeKeys(kind) = <<"methods", "embedded">>
      BY <2>5, EncodeNodesAre, Zenon DEF TypeCalls, TypeNodeKeys
    <3> QED
      BY <1>m, <2>1, <3>1, Zenon DEF Keys
  <2>6. CASE kind = "Named"
    <3>1. /\ TypeCalls(kind) = <<Call("encodeNode", "underlying"),
                                 Call("encodeNode", "methods")>>
          /\ TypeNodeKeys(kind) = <<"underlying", "methods">>
      BY <2>6, EncodeNodesAre, Zenon DEF TypeCalls, TypeNodeKeys
    <3> QED
      BY <1>m, <2>1, <3>1, Zenon DEF Keys
  <2>7. CASE ~ (\/ kind = "Alias" \/ kind = "Struct"
                \/ kind \in {"Pointer", "Slice type", "Array"}
                \/ kind = "Interface" \/ kind = "Named")
    <3>1. TypeCalls(kind) = <<>> /\ TypeNodeKeys(kind) = <<>>
      BY <1>6, <2>7 DEF TypeCalls, TypeNodeKeys, TypeKinds
    <3> QED
      BY <1>m, <2>1, <3>1, Zenon
  <2> QED
    BY <2>2, <2>3, <2>4, <2>5, <2>6, <2>7
<1>7. CASE kind \in ValueKinds
  <2>1. CallsOf(kind) = ValueCalls(kind) /\ KeysOf(kind) = ValueNodeKeys(kind)
    BY <1>7, <1>k, <1>d DEF CallsOf, KeysOf
  <2>2. CASE kind = "BinOp"
    <3>1. OperandCalls(kind) = <<Call("encodeNode", "x"), Call("encodeNode", "y")>>
      BY <2>2, EncodeNodesAre, Zenon DEF OperandCalls, PhiCalls
    <3>2. ValueCalls(kind) = <<Call("encodeNode", "valueType"), Call("encodeNode", "x"),
                               Call("encodeNode", "y")>>
      BY <1>v, <3>1, Zenon DEF ValueCalls
    <3>3. ValueNodeKeys(kind) = <<"valueType", "x", "y">>
      BY <2>2, JoinedTuples, Zenon DEF ValueNodeKeys
    <3> QED
      BY <1>m, <2>1, <3>2, <3>3, Zenon DEF Keys
  <2>3. CASE kind = "Call"
    <3>1. OperandCalls(kind) = <<Call("encodeNode", "value"), Call("encodeNode", "args")>>
      BY <2>3, EncodeNodesAre, Zenon DEF OperandCalls, PhiCalls
    <3>2. ValueCalls(kind) = <<Call("encodeNode", "valueType"), Call("encodeNode", "value"),
                               Call("encodeNode", "args")>>
      BY <1>v, <3>1, Zenon DEF ValueCalls
    <3>3. ValueNodeKeys(kind) = <<"valueType", "value", "args">>
      BY <2>3, JoinedTuples, Zenon DEF ValueNodeKeys
    <3> QED
      BY <1>m, <2>1, <3>2, <3>3, Zenon DEF Keys
  <2>4. CASE kind \in {"UnOp", "FieldAddr", "Convert", "MakeInterface"}
    <3>1. OperandCalls(kind) = <<Call("encodeNode", "x")>>
      BY <2>4, EncodeNodesAre, Zenon DEF OperandCalls, PhiCalls
    <3>2. ValueCalls(kind) = <<Call("encodeNode", "valueType"), Call("encodeNode", "x")>>
      BY <1>v, <3>1, Zenon DEF ValueCalls
    <3>3. ValueNodeKeys(kind) = <<"valueType", "x">>
      BY <2>4, JoinedTuples, Zenon DEF ValueNodeKeys
    <3> QED
      BY <1>m, <2>1, <3>2, <3>3, Zenon DEF Keys
  <2>5. CASE kind = "Slice"
    <3>1. OperandCalls(kind) = <<Call("encodeNode", "x"), Call("encodeNode", "high")>>
      BY <2>5, EncodeNodesAre, Zenon DEF OperandCalls, PhiCalls
    <3>2. ValueCalls(kind) = <<Call("encodeNode", "valueType"), Call("encodeNode", "x"),
                               Call("encodeNode", "high")>>
      BY <1>v, <3>1, Zenon DEF ValueCalls
    <3>3. ValueNodeKeys(kind) = <<"valueType", "x", "high">>
      BY <2>5, JoinedTuples, Zenon DEF ValueNodeKeys
    <3> QED
      BY <1>m, <2>1, <3>2, <3>3, Zenon DEF Keys
  <2>6. CASE kind = "Phi"
    <3>1. OperandCalls(kind) = <<Call("encodeNode", "edges"), Call("encodeBlock", "preds")>>
      BY <2>6, EncodeNodesAre, Zenon DEF OperandCalls, PhiCalls
    <3>2. ValueCalls(kind) = <<Call("encodeNode", "valueType"), Call("encodeNode", "edges"),
                               Call("encodeBlock", "preds")>>
      BY <1>v, <3>1, Zenon DEF ValueCalls
    <3>3. ValueNodeKeys(kind) = <<"valueType", "edges", "preds">>
      BY <2>6, JoinedTuples, Zenon DEF ValueNodeKeys
    <3> QED
      BY <1>m, <2>1, <3>2, <3>3, Zenon DEF Keys
  <2>7. CASE kind = "MakeSlice"
    <3>1. OperandCalls(kind) = <<Call("encodeNode", "len")>>
      BY <2>7, EncodeNodesAre, Zenon DEF OperandCalls, PhiCalls
    <3>2. ValueCalls(kind) = <<Call("encodeNode", "valueType"), Call("encodeNode", "len")>>
      BY <1>v, <3>1, Zenon DEF ValueCalls
    <3>3. ValueNodeKeys(kind) = <<"valueType", "len">>
      BY <2>7, JoinedTuples, Zenon DEF ValueNodeKeys
    <3> QED
      BY <1>m, <2>1, <3>2, <3>3, Zenon DEF Keys
  <2>8. CASE kind = "IndexAddr"
    <3>1. OperandCalls(kind) = <<Call("encodeNode", "x"), Call("encodeNode", "index")>>
      BY <2>8, EncodeNodesAre, Zenon DEF OperandCalls, PhiCalls
    <3>2. ValueCalls(kind) = <<Call("encodeNode", "valueType"), Call("encodeNode", "x"),
                               Call("encodeNode", "index")>>
      BY <1>v, <3>1, Zenon DEF ValueCalls
    <3>3. ValueNodeKeys(kind) = <<"valueType", "x", "index">>
      BY <2>8, JoinedTuples, Zenon DEF ValueNodeKeys
    <3> QED
      BY <1>m, <2>1, <3>2, <3>3, Zenon DEF Keys
  <2>9. CASE ~ (\/ kind = "BinOp" \/ kind = "Call"
                \/ kind \in {"UnOp", "FieldAddr", "Convert", "MakeInterface"}
                \/ kind = "Slice" \/ kind = "Phi" \/ kind = "MakeSlice"
                \/ kind = "IndexAddr")
    <3>1. OperandCalls(kind) = <<>>
      BY <2>9, Zenon DEF OperandCalls
    <3>2. ValueCalls(kind) = <<Call("encodeNode", "valueType")>>
      BY <1>v, <3>1, Zenon DEF ValueCalls
    <3>3. ValueNodeKeys(kind) = <<"valueType">>
      BY <1>7, <1>k, <2>9, JoinedTuples, Zenon DEF ValueNodeKeys
    <3> QED
      BY <1>m, <2>1, <3>2, <3>3, Zenon DEF Keys
  <2> QED
    BY <2>2, <2>3, <2>4, <2>5, <2>6, <2>7, <2>8, <2>9
<1>8. CASE /\ kind \notin {"Function", "Parameter", "BasicBlock", "Func", "Field"}
           /\ kind \notin TypeKinds /\ kind \notin ValueKinds
  <2>1. CallsOf(kind) = InstructionCalls(kind) /\ KeysOf(kind) = NodeKeys(kind)
    BY <1>8, <1>k, <1>d DEF CallsOf, KeysOf
  <2>2. CASE kind = "If"
    <3>1. /\ InstructionCalls(kind) = <<Call("encodeNode", "cond"), Call("encodeBlock", "body"),
                                        Call("encodeBlock", "elseBody")>>
          /\ NodeKeys(kind) = <<"cond", "body", "elseBody">>
      BY <2>2, EncodeNodesAre, Zenon DEF InstructionCalls, NodeKeys
    <3> QED
      BY <1>m, <2>1, <3>1, Zenon DEF Keys
  <2>3. CASE kind = "Jump"
    <3>1. /\ InstructionCalls(kind) = <<Call("encodeBlock", "successor")>>
          /\ NodeKeys(kind) = <<"successor">>
      BY <2>3, EncodeNodesAre, Zenon DEF InstructionCalls, NodeKeys
    <3> QED
      BY <1>m, <2>1, <3>1, Zenon DEF Keys
  <2>4. CASE kind = "Return"
    <3>1. /\ InstructionCalls(kind) = <<Call("encodeNode", "results")>>
          /\ NodeKeys(kind) = <<"results">>
      BY <2>4, EncodeNodesAre, Zenon DEF InstructionCalls, NodeKeys
    <3> QED
      BY <1>m, <2>1, <3>1, Zenon DEF Keys
  <2>5. CASE kind = "Store"
    <3>1. /\ InstructionCalls(kind) = <<Call("encodeNode", "addr"),
                                        Call("encodeNode", "value")>>
          /\ NodeKeys(kind) = <<"addr", "value">>
      BY <2>5, EncodeNodesAre, Zenon DEF InstructionCalls, NodeKeys
    <3> QED
      BY <1>m, <2>1, <3>1, Zenon DEF Keys
  <2>6. CASE kind = "Invoke"
    <3>1. /\ InstructionCalls(kind) = <<Call("encodeNode", "value"),
                                        Call("encodeNode", "args")>>
          /\ NodeKeys(kind) = <<"value", "args">>
      BY <2>6, EncodeNodesAre, Zenon DEF InstructionCalls, NodeKeys
    <3> QED
      BY <1>m, <2>1, <3>1, Zenon DEF Keys
  <2>7. CASE ~ (\/ kind = "If" \/ kind = "Jump" \/ kind = "Return"
                \/ kind = "Store" \/ kind = "Invoke")
    <3>1. InstructionCalls(kind) = <<>> /\ NodeKeys(kind) = <<>>
      BY <1>8, <2>7 DEF InstructionCalls, NodeKeys, TypeKinds
    <3> QED
      BY <1>m, <2>1, <3>1, Zenon
  <2> QED
    BY <2>2, <2>3, <2>4, <2>5, <2>6, <2>7
<1> QED
  BY <1>1, <1>2, <1>3, <1>4, <1>5, <1>6, <1>7, <1>8, Zenon

LEMMA ObjectsAreTyped ==
    ASSUME prog \in DOMAIN Programs, NEW o \in DOMAIN Objects
    PROVE  /\ KindOf(o) \notin LinkKinds
           /\ \A key \in DOMAIN Objects[o].at :
                 \/ \E k \in DOMAIN CallsOf(KindOf(o)) : CallsOf(KindOf(o))[k].key = key
                 \/ KindOf(o) = "Slice" /\ key \in {"low", "max"}
           /\ \A k \in DOMAIN CallsOf(KindOf(o)) :
                 \A i \in DOMAIN At(o, CallsOf(KindOf(o))[k].key) :
                    Takes(CallsOf(KindOf(o))[k].encode,
                          KindOf(At(o, CallsOf(KindOf(o))[k].key)[i]))
<1>1. IsPackage(Programs[prog])
  BY ProgramsAssumption
<1>2. PICK c : c = CallsOf(KindOf(o))
  OBVIOUS
<1>p. /\ KindOf(o) \notin LinkKinds
      /\ DOMAIN Objects[o].at \subseteq
            {CallsOf(KindOf(o))[k].key : k \in DOMAIN CallsOf(KindOf(o))} \cup
               (IF KindOf(o) = "Slice" THEN {"low", "max"} ELSE {})
      /\ \A k \in DOMAIN CallsOf(KindOf(o)) :
            CallsOf(KindOf(o))[k].key \in DOMAIN Objects[o].at =>
               \A i \in DOMAIN Objects[o].at[CallsOf(KindOf(o))[k].key] :
                  Takes(CallsOf(KindOf(o))[k].encode,
                        KindOf(Objects[o].at[CallsOf(KindOf(o))[k].key][i]))
  BY <1>1, Zenon DEF IsPackage, Objects, KindOf
<1>3. /\ KindOf(o) \notin LinkKinds
      /\ DOMAIN Objects[o].at \subseteq {c[k].key : k \in DOMAIN c} \cup
            (IF KindOf(o) = "Slice" THEN {"low", "max"} ELSE {})
      /\ \A k \in DOMAIN c : c[k].key \in DOMAIN Objects[o].at =>
            \A i \in DOMAIN Objects[o].at[c[k].key] :
               Takes(c[k].encode, KindOf(Objects[o].at[c[k].key][i]))
  BY <1>p, <1>2, Zenon
<1>4. ASSUME NEW k \in DOMAIN c, NEW i \in DOMAIN At(o, c[k].key)
      PROVE  Takes(c[k].encode, KindOf(At(o, c[k].key)[i]))
  <2>1. CASE c[k].key \in DOMAIN Objects[o].at
    <3>1. At(o, c[k].key) = Objects[o].at[c[k].key]
      BY <2>1, Zenon DEF At
    <3> QED
      BY <1>3, <2>1, <3>1
  <2>2. CASE c[k].key \notin DOMAIN Objects[o].at
    <3>1. At(o, c[k].key) = <<>> /\ DOMAIN <<>> = {}
      BY <2>2 DEF At
    <3> QED
      BY <3>1
  <2> QED
    BY <2>1, <2>2
<1>5. ASSUME NEW key \in DOMAIN Objects[o].at
      PROVE  \/ \E k \in DOMAIN c : c[k].key = key
             \/ KindOf(o) = "Slice" /\ key \in {"low", "max"}
  BY <1>3
<1> QED
  BY <1>2, <1>3, <1>4, <1>5, Zenon

Part(o, n, c, i) ==
    [encode |-> c.encode, of |-> At(o, c.key)[i], in |-> n, key |-> c.key, nr |-> i]

PartList(o, n, c) == [i \in DOMAIN At(o, c.key) |-> Part(o, n, c, i)]

PartsOf(o, n, c) == {Part(o, n, c, i) : i \in DOMAIN At(o, c.key)}

\* x is one of the calls for the parts under the key of c.
IsOneOf(o, n, c, x) == \E i \in 1 .. Len(At(o, c.key)) : x = Part(o, n, c, i)

\* x is before y in the order of the keys of an object of this kind.
PartBefore(kind, x, y) == (x.key = y.key /\ x.nr < y.nr) \/ KeyBefore(kind, x.key, y.key)

LEMMA PartListFacts ==
    ASSUME prog \in DOMAIN Programs, NEW o \in DOMAIN Objects, NEW n, NEW c
    PROVE  /\ DOMAIN At(o, c.key) = 1 .. Len(At(o, c.key))
           /\ PartList(o, n, c) \in Seq(PartsOf(o, n, c))
           /\ Len(PartList(o, n, c)) = Len(At(o, c.key))
           /\ \A i \in 1 .. Len(At(o, c.key)) : PartList(o, n, c)[i] = Part(o, n, c, i)
<1>1. PICK at : at = At(o, c.key)
  OBVIOUS
<1>2. at \in Seq(DOMAIN Objects)
  BY <1>1, ObjectFacts, Zenon
<1>3. DOMAIN at = 1 .. Len(at) /\ Len(at) \in Nat
  BY <1>2
<1>4. PICK S : S = PartsOf(o, n, c)
  OBVIOUS
<1>5. \A i \in 1 .. Len(at) : Part(o, n, c, i) \in S
  BY <1>1, <1>3, <1>4 DEF PartsOf
<1>6. PartList(o, n, c) = [i \in 1 .. Len(at) |-> Part(o, n, c, i)]
  BY <1>1, <1>3, Zenon DEF PartList
<1>7. PICK list : list = PartList(o, n, c)
  OBVIOUS
<1>8. /\ list \in Seq(S) /\ Len(list) = Len(at)
      /\ \A i \in 1 .. Len(at) : list[i] = Part(o, n, c, i)
  BY <1>3, <1>5, <1>6, <1>7
<1> QED
  BY <1>1, <1>3, <1>4, <1>7, <1>8, Zenon

LEMMA PartFields ==
    \A o, n, c, i : /\ Part(o, n, c, i).encode = c.encode
                    /\ Part(o, n, c, i).of = At(o, c.key)[i]
                    /\ Part(o, n, c, i).in = n
                    /\ Part(o, n, c, i).key = c.key
                    /\ Part(o, n, c, i).nr = i
BY DEF Part

\* The pairs of parts that are in order.
OrderedParts(kind, S) == {xy \in S \X S : PartBefore(kind, xy[1], xy[2])}

LEMMA OrderedPartsAre ==
    ASSUME NEW kind, NEW S, NEW x, NEW y
    PROVE  <<x, y>> \in OrderedParts(kind, S) <=> x \in S /\ y \in S /\ PartBefore(kind, x, y)
BY DEF OrderedParts

\* Calls new are those for the parts under the keys of c, in order.
ListsParts(o, n, c, m, new) ==
    /\ new \in Seq({new[i] : i \in 1 .. Len(new)})
    /\ \A a, b \in 1 .. Len(new) : a < b => PartBefore(KindOf(o), new[a], new[b])
    /\ \A x : Has(new, x) <=> \E k \in 1 .. m : IsOneOf(o, n, c[k], x)

LEMMA CallsForEach ==
    ASSUME prog \in DOMAIN Programs, NEW o \in DOMAIN Objects, NEW n,
           NEW c, c = CallsOf(KindOf(o)), NEW q, q = KeysOf(KindOf(o)),
           NEW m \in 0 .. 3, DOMAIN c = 1 .. m, DOMAIN q = 1 .. m,
           \A i \in 1 .. m : c[i].key = q[i],
           NEW new, new = CallsFor(o, n)
    PROVE  ListsParts(o, n, c, m, new)
<1>1. PICK lists : lists = [k \in 1 .. m |-> PartList(o, n, c[k])]
  OBVIOUS
<1>2. new = FlattenSeq(lists)
  BY <1>1, Zenon DEF CallsFor, PartList, Part
<1>3. PICK S : S = UNION {PartsOf(o, n, c[k]) : k \in 1 .. m}
  OBVIOUS
<1>4. PICK kind : kind = KindOf(o)
  OBVIOUS
<1>5. PICK R : R = OrderedParts(kind, S)
  OBVIOUS
<1>6. \A k \in 1 .. m : \A x : x \in PartsOf(o, n, c[k]) => x \in S
  BY <1>3
<1>7. \A k \in 1 .. m : PartList(o, n, c[k]) \in Seq(S)
  <2> SUFFICES ASSUME NEW k \in 1 .. m PROVE PartList(o, n, c[k]) \in Seq(S)
    OBVIOUS
  <2>1. PartsOf(o, n, c[k]) \subseteq S
    BY <1>6
  <2>2. PartList(o, n, c[k]) \in Seq(PartsOf(o, n, c[k]))
    BY PartListFacts
  <2> QED
    BY <2>1, <2>2, SeqOfMore, Zenon
<1>8. /\ lists \in Seq(Seq(S)) /\ Len(lists) = m
      /\ \A k \in 1 .. m : lists[k] = PartList(o, n, c[k])
  BY <1>1, <1>7
<1>9. \A k \in 1 .. m : \A x : Has(lists[k], x) <=> IsOneOf(o, n, c[k], x)
  <2> SUFFICES ASSUME NEW k \in 1 .. m
               PROVE  \A x : Has(lists[k], x) <=> IsOneOf(o, n, c[k], x)
    OBVIOUS
  <2>1. PICK L : L = Len(At(o, c[k].key))
    OBVIOUS
  <2>2. Len(lists[k]) = L /\ \A i \in 1 .. L : lists[k][i] = Part(o, n, c[k], i)
    BY <1>8, <2>1, PartListFacts
  <2>3. \A x : Has(lists[k], x) <=> \E i \in 1 .. L : x = Part(o, n, c[k], i)
    BY <2>2, Zenon DEF Has
  <2> QED
    BY <2>1, <2>3 DEF IsOneOf
<1>10. \A k \in 1 .. m : \A x : Has(lists[k], x) => x \in S /\ x.key = c[k].key
  <2> SUFFICES ASSUME NEW k \in 1 .. m, NEW x, Has(lists[k], x)
               PROVE  x \in S /\ x.key = c[k].key
    OBVIOUS
  <2>1. PICK i \in 1 .. Len(At(o, c[k].key)) : x = Part(o, n, c[k], i)
    <3>1. IsOneOf(o, n, c[k], x)
      BY <1>9, Zenon
    <3> QED
      BY <3>1 DEF IsOneOf
  <2>2. i \in DOMAIN At(o, c[k].key)
    BY PartListFacts
  <2>3. x \in PartsOf(o, n, c[k])
    BY <2>1, <2>2, Zenon DEF PartsOf
  <2> QED
    BY <1>6, <2>1, <2>3, PartFields
<1>11. \A k \in 1 .. m : Pairwise(lists[k], R)
  <2> SUFFICES ASSUME NEW k \in 1 .. m,
                      NEW i \in 1 .. Len(lists[k]), NEW j \in 1 .. Len(lists[k]),
                      i < j
               PROVE  <<lists[k][i], lists[k][j]>> \in R
    BY DEF Pairwise
  <2>1. PICK x : x = lists[k][i]
    OBVIOUS
  <2>2. PICK y : y = lists[k][j]
    OBVIOUS
  <2>3. Has(lists[k], x) /\ Has(lists[k], y)
    BY <2>1, <2>2, Zenon DEF Has
  <2>4. Len(lists[k]) = Len(At(o, c[k].key))
    BY <1>8, PartListFacts
  <2>5. x = Part(o, n, c[k], i) /\ y = Part(o, n, c[k], j)
    BY <1>8, <2>1, <2>2, <2>4, PartListFacts
  <2>6. x.nr = i /\ y.nr = j
    BY <2>5, PartFields
  <2>7. x \in S /\ y \in S /\ x.key = y.key
    BY <1>10, <2>3, Zenon
  <2>8. PartBefore(kind, x, y)
    BY <2>6, <2>7, Zenon DEF PartBefore
  <2> QED
    BY <1>5, <2>1, <2>2, <2>7, <2>8, OrderedPartsAre, Zenon
<1>12. ASSUME NEW k \in 1 .. m, NEW l \in 1 .. m, k < l, NEW x, NEW y,
              Has(lists[k], x), Has(lists[l], y)
       PROVE  <<x, y>> \in R
  <2>1. x \in S /\ y \in S /\ x.key = c[k].key /\ y.key = c[l].key
    BY <1>10, <1>12, Zenon
  <2>2. x.key = q[k] /\ y.key = q[l] /\ k \in DOMAIN q /\ l \in DOMAIN q
    BY <2>1, Zenon
  <2>3. KeyBefore(kind, x.key, y.key)
    BY <1>4, <1>12, <2>2, Zenon DEF KeyBefore
  <2> QED
    BY <1>5, <2>1, <2>3, OrderedPartsAre, Zenon DEF PartBefore
<1>13. /\ new \in Seq(S) /\ Pairwise(new, R)
       /\ \A x : Has(new, x) <=> \E k \in 1 .. m : Has(lists[k], x)
  BY <1>2, <1>8, <1>11, <1>12, FlattenInOrder
<1>14. \A a, b \in 1 .. Len(new) : a < b => PartBefore(kind, new[a], new[b])
  <2> SUFFICES ASSUME NEW a \in 1 .. Len(new), NEW b \in 1 .. Len(new), a < b
               PROVE  PartBefore(kind, new[a], new[b])
    OBVIOUS
  <2>1. <<new[a], new[b]>> \in R
    BY <1>13 DEF Pairwise
  <2> QED
    BY <1>5, <2>1, OrderedPartsAre, Zenon
<1>15. new \in Seq({new[i] : i \in 1 .. Len(new)})
  BY <1>13
<1>16. \A x : Has(new, x) <=> \E k \in 1 .. m : IsOneOf(o, n, c[k], x)
  BY <1>9, <1>13, Zenon
<1> QED
  BY <1>4, <1>14, <1>15, <1>16, Zenon DEF ListsParts

\* A call that encodes a part of an object.
IsPartCall(o, n, x) == x.in = n /\ IsPart(o, x) /\ CallFits(x) /\ ~ IsEnd(x)

LEMMA PartCallIs ==
    ASSUME prog \in DOMAIN Programs, NEW o \in DOMAIN Objects, NEW n,
           NEW k \in DOMAIN CallsOf(KindOf(o)), k \in DOMAIN KeysOf(KindOf(o)),
           NEW key, key = CallsOf(KindOf(o))[k].key, key = KeysOf(KindOf(o))[k], key \in Keys,
           NEW i \in 1 .. Len(At(o, key)),
           NEW x, x = Part(o, n, CallsOf(KindOf(o))[k], i)
    PROVE  IsPartCall(o, n, x)
<1>1. PICK c : c = CallsOf(KindOf(o))
  OBVIOUS
<1>2. i \in DOMAIN At(o, key) /\ k \in DOMAIN c /\ key = c[k].key
  BY <1>1, PartListFacts
<1>3. /\ x.in = n /\ x.key = key /\ x.nr = i
      /\ x.of = At(o, key)[i] /\ x.encode = c[k].encode
  BY <1>1, <1>2, PartFields
<1>4. IsPart(o, x)
  BY <1>2, <1>3, Zenon DEF IsPart
<1>5. ~ IsEnd(x)
  BY <1>3 DEF IsEnd, Keys
<1>6. c[k].encode # "encodeFunction"
  <2>1. CASE KindOf(o) = "Struct"
    <3>1. c = <<Call("field", "fields")>>
      BY <1>1, <2>1, CallsOfFacts
    <3>2. k = 1
      BY <1>2, <3>1
    <3> QED
      BY <3>1, <3>2 DEF Call
  <2>2. CASE KindOf(o) # "Struct"
    <3>1. c \in Seq(PartCalls)
      BY <1>1, <2>2, CallsOfFacts, Zenon
    <3>2. c[k] \in PartCalls
      BY <1>2, <3>1
    <3> QED
      BY <3>2, PartCallsAre DEF Encoders
  <2> QED
    BY <2>1, <2>2
<1>7. Takes(c[k].encode, KindOf(x.of))
  BY <1>1, <1>2, <1>3, ObjectsAreTyped
<1>8. CallFits(x)
  BY <1>3, <1>6, <1>7, Zenon DEF CallFits
<1> QED
  BY <1>3, <1>4, <1>5, <1>8, Zenon DEF IsPartCall

\* The calls for the parts of an object: each part once, in the order of the keys.
ArePartCalls(o, n, new) ==
    /\ Len(new) \in Nat /\ new \in Seq({new[i] : i \in 1 .. Len(new)})
    /\ \A b \in 1 .. Len(new) : IsPartCall(o, n, new[b])
    /\ \A a, b \in 1 .. Len(new) : a < b => PartBefore(KindOf(o), new[a], new[b])
    /\ \A k \in DOMAIN KeysOf(KindOf(o)) : \A nr \in DOMAIN At(o, KeysOf(KindOf(o))[k]) :
          \E b \in 1 .. Len(new) : new[b].key = KeysOf(KindOf(o))[k] /\ new[b].nr = nr

LEMMA CallsForOrder ==
    ASSUME prog \in DOMAIN Programs, NEW o \in DOMAIN Objects, NEW n
    PROVE  ArePartCalls(o, n, CallsFor(o, n))
<1>0. PICK new : new = CallsFor(o, n)
  OBVIOUS
<1>1. PICK c : c = CallsOf(KindOf(o))
  OBVIOUS
<1>2. PICK q : q = KeysOf(KindOf(o))
  OBVIOUS
<1>3. PICK m \in 0 .. 3 : /\ DOMAIN c = 1 .. m /\ DOMAIN q = 1 .. m
                          /\ \A i \in 1 .. m : c[i].key = q[i] /\ q[i] \in Keys
  <2>1. Matches(c, q)
    BY <1>1, <1>2, KeysAreCalls, Zenon
  <2> QED
    BY <2>1, Zenon DEF Matches
<1>4. ListsParts(o, n, c, m, new)
  <2>1. \A i \in 1 .. m : c[i].key = q[i]
    BY <1>3, Zenon
  <2>2. m \in 0 .. 3 /\ DOMAIN c = 1 .. m /\ DOMAIN q = 1 .. m
    BY <1>3, Zenon
  <2> QED
    BY <1>0, <1>1, <1>2, <2>1, <2>2, CallsForEach, Zenon
<1>5. /\ new \in Seq({new[i] : i \in 1 .. Len(new)})
       /\ \A a, b \in 1 .. Len(new) : a < b => PartBefore(KindOf(o), new[a], new[b])
       /\ \A x : Has(new, x) <=> \E k \in 1 .. m : IsOneOf(o, n, c[k], x)
  BY <1>4, Zenon DEF ListsParts
<1>6. Len(new) \in Nat /\ new \in Seq({new[i] : i \in 1 .. Len(new)})
  BY <1>5
<1>11. ASSUME NEW x PROVE Has(new, x) <=> \E k \in 1 .. m : IsOneOf(o, n, c[k], x)
  BY <1>4, Zenon DEF ListsParts
<1>7. ASSUME NEW b \in 1 .. Len(new) PROVE IsPartCall(o, n, new[b])
  <2>1. Has(new, new[b])
    BY DEF Has
  <2>2. PICK k \in 1 .. m : IsOneOf(o, n, c[k], new[b])
    BY <1>11, <2>1, Zenon
  <2>3. PICK i \in 1 .. Len(At(o, c[k].key)) : new[b] = Part(o, n, c[k], i)
    BY <2>2 DEF IsOneOf
  <2>4. k \in DOMAIN c /\ k \in DOMAIN q /\ c[k].key = q[k] /\ q[k] \in Keys
    BY <1>3
  <2> QED
    BY <1>1, <1>2, <2>3, <2>4, PartCallIs, Zenon
<1>8. \A k \in DOMAIN KeysOf(KindOf(o)) : \A nr \in DOMAIN At(o, KeysOf(KindOf(o))[k]) :
         \E b \in 1 .. Len(new) : new[b].key = KeysOf(KindOf(o))[k] /\ new[b].nr = nr
  <2> SUFFICES ASSUME NEW k \in DOMAIN q, NEW nr \in DOMAIN At(o, q[k])
               PROVE  \E b \in 1 .. Len(new) : new[b].key = q[k] /\ new[b].nr = nr
    BY <1>2, Zenon
  <2>1. k \in 1 .. m /\ c[k].key = q[k]
    BY <1>3
  <2>2. nr \in 1 .. Len(At(o, c[k].key))
    BY <2>1, PartListFacts
  <2>3. PICK x : x = Part(o, n, c[k], nr)
    OBVIOUS
  <2>4. Has(new, x)
    <3>1. IsOneOf(o, n, c[k], x)
      BY <2>2, <2>3, Zenon DEF IsOneOf
    <3>2. \E j \in 1 .. m : IsOneOf(o, n, c[j], x)
      BY <2>1, <3>1, Zenon
    <3> QED
      BY <1>11, <3>2, Zenon
  <2>5. PICK b \in 1 .. Len(new) : new[b] = x
    BY <2>4, Zenon DEF Has
  <2>6. new[b].key = q[k] /\ new[b].nr = nr
    BY <2>1, <2>3, <2>5, PartFields
  <2> QED
    BY <2>6, Zenon
<1>9. \A b \in 1 .. Len(new) : IsPartCall(o, n, new[b])
  BY <1>7, Zenon
<1>10. ArePartCalls(o, n, new)
  BY <1>5, <1>6, <1>8, <1>9, Zenon DEF ArePartCalls
<1> QED
  BY <1>0, <1>10, Zenon

LEMMA KeysAreNoEnd ==
    ASSUME NEW kind, NEW k \in DOMAIN KeysOf(kind)
    PROVE  KeysOf(kind)[k] \in Keys /\ KeysOf(kind)[k] # "end" /\ KeysOf(kind)[k] # "top"
<1>1. Matches(CallsOf(kind), KeysOf(kind))
  BY KeysAreCalls
<1>2. KeysOf(kind)[k] \in Keys
  BY <1>1 DEF Matches
<1> QED
  BY <1>2 DEF Keys

\* The same key is not twice among the keys of an object.
LEMMA KeysDiffer ==
    ASSUME NEW kind, NEW k \in DOMAIN KeysOf(kind), NEW l \in DOMAIN KeysOf(kind),
           KeysOf(kind)[k] = KeysOf(kind)[l]
    PROVE  k = l
<1>1. Matches(CallsOf(kind), KeysOf(kind))
  BY KeysAreCalls
<1> QED
  BY <1>1 DEF Matches

LEMMA KeysAreFew ==
    ASSUME NEW kind
    PROVE  \E m \in 0 .. 3 : DOMAIN KeysOf(kind) = 1 .. m
<1>1. Matches(CallsOf(kind), KeysOf(kind))
  BY KeysAreCalls
<1> QED
  BY <1>1 DEF Matches

-----------------------------------------------------------------------------

(* How a step of the encoder changes the order *)

\* s2 is s with B parts of object o behind what is at N + 1.
IsLonger(s2, s, N, K, B, o) ==
    /\ N \in Nat /\ K \in Nat /\ B \in Nat /\ N < K
    /\ DOMAIN s = 1 .. K /\ DOMAIN s2 = 1 .. K + B
    /\ \A i \in 1 .. N + 1 : s2[i] = s[i]
    /\ \A i \in 1 .. K : i > N + 1 => s2[i + B] = s[i]
    /\ \A i \in N + 2 .. N + 1 + B :
          /\ s2[i].in = N + 1
          /\ IsEnd(s2[i]) => i = N + 1 + B
          /\ ~ IsEnd(s2[i]) => IsPart(o, s2[i])
    /\ \A i, j \in N + 2 .. N + 1 + B :
          i < j /\ ~ IsEnd(s2[i]) /\ ~ IsEnd(s2[j]) => PartBefore(KindOf(o), s2[i], s2[j])
    /\ \A k \in DOMAIN KeysOf(KindOf(o)) : \A nr \in DOMAIN At(o, KeysOf(KindOf(o))[k]) :
          \E i \in N + 2 .. N + 1 + B : s2[i].key = KeysOf(KindOf(o))[k] /\ s2[i].nr = nr

\* A node is written: its parts, and the end of a field, are put behind it.
LEMMA PutBehind ==
    ASSUME NEW N, NEW K, NEW B, NEW s, NEW s2, NEW o, IsLonger(s2, s, N, K, B, o),
           NEW full, full \subseteq 1 .. N, NEW fs, IsOrder(s, N, full, fs),
           ~ IsEnd(s[N + 1]), o = s[N + 1].of
    PROVE  IsOrder(s2, N + 1, full \cup {N + 1}, fs)
<1>0. /\ N \in Nat /\ K \in Nat /\ B \in Nat /\ N < K
      /\ DOMAIN s = 1 .. K /\ DOMAIN s2 = 1 .. K + B
      /\ \A i \in 1 .. N + 1 : s2[i] = s[i]
      /\ \A i \in 1 .. K : i > N + 1 => s2[i + B] = s[i]
      /\ \A i \in N + 2 .. N + 1 + B :
            /\ s2[i].in = N + 1
            /\ IsEnd(s2[i]) => i = N + 1 + B
            /\ ~ IsEnd(s2[i]) => IsPart(o, s2[i])
      /\ \A i, j \in N + 2 .. N + 1 + B :
            i < j /\ ~ IsEnd(s2[i]) /\ ~ IsEnd(s2[j]) => PartBefore(KindOf(o), s2[i], s2[j])
      /\ \A k \in DOMAIN KeysOf(KindOf(o)) : \A nr \in DOMAIN At(o, KeysOf(KindOf(o))[k]) :
            \E i \in N + 2 .. N + 1 + B : s2[i].key = KeysOf(KindOf(o))[k] /\ s2[i].nr = nr
  BY Zenon DEF IsLonger
<1> USE <1>0
<1> DEFINE full2 == full \cup {N + 1}
<1>1. /\ Inside(s, N) /\ Nested(s) /\ EndsLast(s, N) /\ PartsOnly(s, full, fs) /\ InOrder(s)
      /\ AllParts(s, full) /\ AllTops(s, fs)
  BY DEF IsOrder
<1>2. /\ N + 1 \in 1 .. K /\ N + 1 \in 1 .. K + B /\ N + 1 \in Nat
      /\ \A i \in 1 .. N : i \in 1 .. K /\ i \in 1 .. N + 1
  OBVIOUS
<1>3. ASSUME NEW i \in 1 .. K + B
      PROVE  \/ i \in 1 .. N + 1 /\ i \in 1 .. K /\ s2[i] = s[i]
             \/ i \in N + 2 .. N + 1 + B
             \/ i > N + 1 + B /\ i - B \in 1 .. K /\ i - B > N + 1 /\ s2[i] = s[i - B]
  <2>1. CASE i <= N + 1
    BY <2>1
  <2>2. CASE i > N + 1 /\ i <= N + 1 + B
    BY <2>2
  <2>3. CASE i > N + 1 + B
    <3>1. i - B \in 1 .. K /\ i - B > N + 1 /\ (i - B) + B = i
      BY <2>3
    <3> QED
      BY <2>3, <3>1
  <2> QED
    BY <2>1, <2>2, <2>3
<1>4. \A i \in 1 .. K : \E j \in 1 .. K + B : s2[j] = s[i]
  <2> SUFFICES ASSUME NEW i \in 1 .. K PROVE \E j \in 1 .. K + B : s2[j] = s[i]
    OBVIOUS
  <2>1. CASE i <= N + 1
    <3>1. i \in 1 .. K + B /\ i \in 1 .. N + 1
      BY <2>1
    <3> QED
      BY <3>1
  <2>2. CASE i > N + 1
    <3>1. i + B \in 1 .. K + B
      OBVIOUS
    <3> QED
      BY <2>2, <3>1
  <2> QED
    BY <2>1, <2>2
<1>5. \A i \in 1 .. K : s[i].in \in Nat /\ s[i].in <= N /\ s[i].in < i
  BY <1>1 DEF Inside
<1>6. Inside(s2, N + 1)
  <2> SUFFICES ASSUME NEW i \in 1 .. K + B
               PROVE  s2[i].in \in Nat /\ s2[i].in <= N + 1 /\ s2[i].in < i
    BY DEF Inside
  <2>1. CASE i \in 1 .. K /\ s2[i] = s[i]
    <3>1. s[i].in \in Nat /\ s[i].in <= N /\ s[i].in < i
      BY <1>5, <2>1
    <3> QED
      BY <2>1, <3>1
  <2>2. CASE i \in N + 2 .. N + 1 + B
    BY <2>2
  <2>3. CASE i - B \in 1 .. K /\ s2[i] = s[i - B]
    <3>1. s[i - B].in \in Nat /\ s[i - B].in <= N /\ s[i - B].in < i - B
      BY <1>5, <2>3
    <3> QED
      BY <2>3, <3>1
  <2> QED
    BY <1>3, <2>1, <2>2, <2>3
<1>7. Nested(s2)
  <2> SUFFICES ASSUME NEW i \in 1 .. K + B, NEW j \in 1 .. K + B, i < j
               PROVE  s2[j].in >= i \/ s2[j].in <= s2[i].in
    BY DEF Nested
  <2>1. \A h, l \in 1 .. K : h < l => s[l].in >= h \/ s[l].in <= s[h].in
    BY <1>1 DEF Nested
  <2>2. CASE i \in 1 .. N + 1 /\ i \in 1 .. K /\ s2[i] = s[i]
    <3>1. CASE j \in 1 .. N + 1 /\ j \in 1 .. K /\ s2[j] = s[j]
      BY <2>1, <2>2, <3>1
    <3>2. CASE j \in N + 2 .. N + 1 + B
      BY <2>2, <3>2
    <3>3. CASE j > N + 1 + B /\ j - B \in 1 .. K /\ j - B > N + 1 /\ s2[j] = s[j - B]
      BY <2>1, <2>2, <3>3
    <3> QED
      BY <1>3, <3>1, <3>2, <3>3
  <2>3. CASE i \in N + 2 .. N + 1 + B
    <3>1. s2[j].in \in Nat /\ s2[j].in <= N + 1 /\ s2[i].in = N + 1
      BY <1>6, <2>3 DEF Inside
    <3> QED
      BY <3>1
  <2>4. CASE i > N + 1 + B /\ i - B \in 1 .. K /\ i - B > N + 1 /\ s2[i] = s[i - B]
    <3>1. j - B \in 1 .. K /\ j - B > N + 1 /\ s2[j] = s[j - B] /\ i - B < j - B
      BY <1>3, <2>4
    <3>2. s[j - B].in >= i - B \/ s[j - B].in <= s[i - B].in
      BY <2>1, <2>4, <3>1
    <3>3. s[j - B].in \in Nat /\ s[j - B].in <= N
      BY <1>5, <3>1
    <3> QED
      BY <2>4, <3>1, <3>2, <3>3
  <2> QED
    BY <1>3, <2>2, <2>3, <2>4
<1>8. EndsLast(s2, N + 1)
  <2> SUFFICES ASSUME NEW i \in 1 .. K + B, IsEnd(s2[i])
               PROVE  /\ i > N + 1
                      /\ s2[i].in # NoNode
                      /\ \A j \in 1 .. K + B : i < j => s2[j].in < s2[i].in
    BY DEF EndsLast
  <2>1. \A h \in 1 .. K : IsEnd(s[h]) => /\ h > N /\ s[h].in # NoNode
                                         /\ \A j \in 1 .. K : h < j => s[j].in < s[h].in
    BY <1>1 DEF EndsLast
  <2>2. CASE i \in 1 .. N + 1 /\ i \in 1 .. K /\ s2[i] = s[i]
    <3>1. i > N
      BY <2>1, <2>2
    <3>2. i = N + 1
      BY <2>2, <3>1
    <3> QED
      BY <2>2, <3>2
  <2>3. CASE i \in N + 2 .. N + 1 + B
    <3>1. i = N + 1 + B /\ s2[i].in = N + 1
      BY <2>3
    <3>2. ASSUME NEW j \in 1 .. K + B, i < j PROVE s2[j].in < s2[i].in
      <4>1. j - B \in 1 .. K /\ s2[j] = s[j - B]
        BY <1>3, <3>1, <3>2
      <4> QED
        BY <1>5, <3>1, <4>1
    <3> QED
      BY <3>1, <3>2 DEF NoNode
  <2>4. CASE i > N + 1 + B /\ i - B \in 1 .. K /\ i - B > N + 1 /\ s2[i] = s[i - B]
    <3>1. s[i - B].in # NoNode /\ \A j \in 1 .. K : i - B < j => s[j].in < s[i - B].in
      BY <2>1, <2>4
    <3>2. ASSUME NEW j \in 1 .. K + B, i < j PROVE s2[j].in < s2[i].in
      <4>1. j - B \in 1 .. K /\ s2[j] = s[j - B] /\ i - B < j - B
        BY <1>3, <2>4, <3>2
      <4> QED
        BY <2>4, <3>1, <4>1
    <3> QED
      BY <2>4, <3>1, <3>2
  <2> QED
    BY <1>3, <2>2, <2>3, <2>4
<1>9. ASSUME NEW i \in 1 .. K
      PROVE  s[i].in # NoNode => s[i].in \in 1 .. N /\ s2[s[i].in] = s[s[i].in]
  BY <1>2, <1>5 DEF NoNode
<1>10. ASSUME NEW i \in 1 .. K, ~ IsEnd(s[i]) PROVE IsPartOf(s2, full2, fs, s[i])
  <2>1. IsPartOf(s, full, fs, s[i])
    BY <1>1, <1>10 DEF PartsOnly
  <2>2. CASE s[i].in = NoNode
    BY <2>1, <2>2 DEF IsPartOf
  <2>3. CASE s[i].in # NoNode
    <3>1. s[i].in \in full /\ IsPart(s[s[i].in].of, s[i])
      BY <2>1, <2>3 DEF IsPartOf
    <3>2. s2[s[i].in] = s[s[i].in]
      BY <1>9, <2>3
    <3> QED
      BY <2>3, <3>1, <3>2 DEF IsPartOf
  <2> QED
    BY <2>2, <2>3
<1>11. PartsOnly(s2, full2, fs)
  <2> SUFFICES ASSUME NEW i \in 1 .. K + B, ~ IsEnd(s2[i]) PROVE IsPartOf(s2, full2, fs, s2[i])
    BY Zenon DEF PartsOnly
  <2>1. CASE i \in N + 2 .. N + 1 + B
    <3>1. s2[i].in = N + 1 /\ s2[i].in # NoNode /\ N + 1 \in full2
      BY <2>1 DEF NoNode
    <3>2. s2[N + 1].of = o
      BY <1>2
    <3>3. IsPart(s2[s2[i].in].of, s2[i])
      BY <2>1, <3>1, <3>2
    <3> QED
      BY <3>1, <3>3 DEF IsPartOf
  <2>2. CASE \E h \in 1 .. K : s2[i] = s[h]
    BY <1>10, <2>2
  <2> QED
    BY <1>3, <2>1, <2>2
<1>12. ASSUME NEW i \in 1 .. K, NEW j \in 1 .. K, i < j, s[i].in = s[j].in,
              ~ IsEnd(s[i]), ~ IsEnd(s[j])
       PROVE  Before(s2, s[i], s[j])
  <2>1. Before(s, s[i], s[j])
    BY <1>1, <1>12 DEF InOrder
  <2> QED
    BY <1>9, <2>1 DEF Before
<1>13. InOrder(s2)
  <2> SUFFICES ASSUME NEW i \in 1 .. K + B, NEW j \in 1 .. K + B, i < j,
                      s2[i].in = s2[j].in, ~ IsEnd(s2[i]), ~ IsEnd(s2[j])
               PROVE  Before(s2, s2[i], s2[j])
    BY Zenon DEF InOrder
  <2>1. CASE i \in N + 2 .. N + 1 + B
    <3>1. j \in N + 2 .. N + 1 + B
      <4>1. s2[j].in = N + 1
        BY <2>1
      <4> QED
        BY <1>3, <1>5, <4>1
    <3>2. PartBefore(KindOf(o), s2[i], s2[j])
      BY <2>1, <3>1
    <3>3. s2[i].in = N + 1 /\ N + 1 # NoNode /\ s2[N + 1].of = o
      BY <1>2, <2>1 DEF NoNode
    <3> QED
      BY <3>2, <3>3 DEF PartBefore, Before
  <2>2. CASE i \in 1 .. N + 1 /\ i \in 1 .. K /\ s2[i] = s[i]
    <3>1. CASE j \in 1 .. N + 1 /\ j \in 1 .. K /\ s2[j] = s[j]
      BY <1>12, <2>2, <3>1
    <3>2. CASE j \in N + 2 .. N + 1 + B
      <4>1. s[i].in = N + 1
        BY <2>2, <3>2
      <4> QED
        BY <1>5, <2>2, <4>1
    <3>3. CASE j > N + 1 + B /\ j - B \in 1 .. K /\ j - B > N + 1 /\ s2[j] = s[j - B]
      BY <1>12, <2>2, <3>3
    <3> QED
      BY <1>3, <3>1, <3>2, <3>3
  <2>3. CASE i > N + 1 + B /\ i - B \in 1 .. K /\ i - B > N + 1 /\ s2[i] = s[i - B]
    <3>1. j - B \in 1 .. K /\ s2[j] = s[j - B] /\ i - B < j - B
      BY <1>3, <2>3
    <3> QED
      BY <1>12, <2>3, <3>1
  <2> QED
    BY <1>3, <2>1, <2>2, <2>3
<1>14. ASSUME NEW n, NEW key, NEW nr, HasPart(s, n, key, nr) PROVE HasPart(s2, n, key, nr)
  BY <1>4, <1>14 DEF HasPart
<1>15. AllParts(s2, full2)
  <2> SUFFICES ASSUME NEW n \in full2, NEW k \in DOMAIN KeysOf(KindOf(s2[n].of)),
                      NEW nr \in DOMAIN At(s2[n].of, KeysOf(KindOf(s2[n].of))[k])
               PROVE  HasPart(s2, n, KeysOf(KindOf(s2[n].of))[k], nr)
    BY Zenon DEF AllParts
  <2>1. CASE n \in full
    <3>1. s2[n] = s[n]
      BY <1>2, <2>1
    <3>2. HasPart(s, n, KeysOf(KindOf(s[n].of))[k], nr)
      BY <1>1, <2>1, <3>1 DEF AllParts
    <3> QED
      BY <1>14, <3>1, <3>2
  <2>2. CASE n = N + 1
    <3>1. s2[n].of = o
      BY <1>2, <2>2
    <3>2. PICK i \in N + 2 .. N + 1 + B :
                  s2[i].key = KeysOf(KindOf(o))[k] /\ s2[i].nr = nr
      BY <3>1
    <3>3. i \in DOMAIN s2 /\ s2[i].in = n
      BY <2>2
    <3> QED
      BY <3>1, <3>2, <3>3 DEF HasPart
  <2> QED
    BY <2>1, <2>2
<1>16. AllTops(s2, fs)
  <2>1. \A nr \in 1 .. Cardinality(fs) : HasPart(s2, NoNode, "top", nr)
    BY <1>1, <1>14 DEF AllTops
  <2>2. ASSUME NEW f \in fs
        PROVE  \E i \in DOMAIN s2 : s2[i].in = NoNode /\ ~ IsEnd(s2[i]) /\ s2[i].of = f
    <3>1. PICK i \in 1 .. K : s[i].in = NoNode /\ ~ IsEnd(s[i]) /\ s[i].of = f
      BY <1>1 DEF AllTops
    <3> QED
      BY <1>4, <3>1
  <2> QED
    BY <2>1, <2>2 DEF AllTops
<1> QED
  BY <1>6, <1>7, <1>8, <1>11, <1>13, <1>15, <1>16 DEF IsOrder

\* A link is written: the order stays.
LEMMA GoOn ==
    ASSUME NEW N \in Nat, NEW K \in Nat, NEW s, DOMAIN s = 1 .. K,
           NEW full, NEW fs, IsOrder(s, N, full, fs), ~ IsEnd(s[N + 1])
    PROVE  IsOrder(s, N + 1, full, fs)
<1>1. Inside(s, N) /\ EndsLast(s, N)
  BY DEF IsOrder
<1>2. Inside(s, N + 1)
  <2> SUFFICES ASSUME NEW i \in 1 .. K
               PROVE  s[i].in \in Nat /\ s[i].in <= N + 1 /\ s[i].in < i
    BY DEF Inside
  <2> QED
    BY <1>1 DEF Inside
<1>3. EndsLast(s, N + 1)
  <2>1. \A i \in 1 .. K : IsEnd(s[i]) => i > N /\ i # N + 1
    BY <1>1 DEF EndsLast
  <2>2. \A i \in 1 .. K : IsEnd(s[i]) => i > N + 1
    BY <2>1
  <2> QED
    BY <1>1, <2>2 DEF EndsLast
<1> QED
  BY <1>2, <1>3 DEF IsOrder

LEMMA OneBefore ==
    ASSUME NEW N \in Nat, NEW K \in Nat, NEW i \in 1 .. K, i > N, i # N + 1
    PROVE  i - 1 \in 1 .. K - 1 /\ i - 1 > N /\ (i - 1) + 1 = i
OBVIOUS

\* s2 is s without what is at N + 1.
IsWithout(s2, s, N, K) ==
    /\ N \in Nat /\ K \in Nat /\ N < K
    /\ DOMAIN s = 1 .. K /\ DOMAIN s2 = 1 .. K - 1
    /\ \A i \in 1 .. N : s2[i] = s[i]
    /\ \A i \in 1 .. K - 1 : i > N => s2[i] = s[i + 1]

IsShorter(s2, s, N, K) ==
    /\ \A i \in 1 .. K - 1 :
          \/ i \in 1 .. N /\ i \in 1 .. K /\ s2[i] = s[i]
          \/ i > N /\ i + 1 \in 1 .. K /\ i + 1 > N + 1 /\ s2[i] = s[i + 1]
    /\ \A i \in 1 .. K : i # N + 1 => \E j \in 1 .. K - 1 : s2[j] = s[i]

LEMMA OneIsGone ==
    ASSUME NEW s, NEW s2, NEW N, NEW K, IsWithout(s2, s, N, K)
    PROVE  IsShorter(s2, s, N, K)
<1> SUFFICES ASSUME N \in Nat, K \in Nat, N < K,
                    DOMAIN s = 1 .. K, DOMAIN s2 = 1 .. K - 1,
                    \A i \in 1 .. N : s2[i] = s[i],
                    \A i \in 1 .. K - 1 : i > N => s2[i] = s[i + 1]
             PROVE  IsShorter(s2, s, N, K)
  BY DEF IsWithout
<1>1. ASSUME NEW i \in 1 .. K - 1
      PROVE  \/ i \in 1 .. N /\ i \in 1 .. K /\ s2[i] = s[i]
             \/ i > N /\ i + 1 \in 1 .. K /\ i + 1 > N + 1 /\ s2[i] = s[i + 1]
  <2>1. CASE i <= N
    <3>1. i \in 1 .. N /\ i \in 1 .. K
      BY <2>1
    <3> QED
      BY <3>1
  <2>2. CASE i > N
    <3>1. i + 1 \in 1 .. K /\ i + 1 > N + 1
      BY <2>2
    <3> QED
      BY <2>2, <3>1
  <2> QED
    BY <2>1, <2>2
<1>2. ASSUME NEW i \in 1 .. K, i # N + 1 PROVE \E j \in 1 .. K - 1 : s2[j] = s[i]
  <2>1. CASE i <= N
    <3>1. i \in 1 .. K - 1 /\ i \in 1 .. N
      BY <2>1
    <3> QED
      BY <3>1
  <2>2. CASE i > N
    <3>1. i - 1 \in 1 .. K - 1 /\ i - 1 > N /\ (i - 1) + 1 = i
      BY <1>2, <2>2, OneBefore
    <3> QED
      BY <3>1
  <2> QED
    BY <2>1, <2>2
<1> QED
  BY <1>1, <1>2, Zenon DEF IsShorter

\* A field ends: the call is gone.
LEMMA TakeAway ==
    ASSUME NEW N, NEW K, NEW s, NEW s2, IsWithout(s2, s, N, K),
           NEW full, full \subseteq 1 .. N, NEW fs, IsOrder(s, N, full, fs),
           IsEnd(s[N + 1])
    PROVE  IsOrder(s2, N, full, fs)
<1> SUFFICES ASSUME N \in Nat, K \in Nat, N < K,
                    DOMAIN s = 1 .. K, DOMAIN s2 = 1 .. K - 1,
                    \A i \in 1 .. N : s2[i] = s[i],
                    \A i \in 1 .. K - 1 : i > N => s2[i] = s[i + 1]
             PROVE  IsOrder(s2, N, full, fs)
  BY DEF IsWithout
<1>0. IsShorter(s2, s, N, K)
  BY OneIsGone
<1>1. /\ Inside(s, N) /\ Nested(s) /\ EndsLast(s, N) /\ PartsOnly(s, full, fs) /\ InOrder(s)
      /\ AllParts(s, full) /\ AllTops(s, fs)
  BY DEF IsOrder
<1>2. \A i \in 1 .. N : i \in 1 .. K /\ i \in 1 .. K - 1
  OBVIOUS
<1>3. \A i \in 1 .. K : s[i].in \in Nat /\ s[i].in <= N /\ s[i].in < i
  BY <1>1 DEF Inside
<1>4. \A i \in 1 .. K - 1 :
         \/ i \in 1 .. N /\ i \in 1 .. K /\ s2[i] = s[i]
         \/ i > N /\ i + 1 \in 1 .. K /\ s2[i] = s[i + 1]
  BY <1>0, OneIsGone DEF IsShorter
<1>5. \A i \in 1 .. K : i # N + 1 => \E j \in 1 .. K - 1 : s2[j] = s[i]
  BY <1>0, OneIsGone, Zenon DEF IsShorter
<1>6. Inside(s2, N)
  <2> SUFFICES ASSUME NEW i \in 1 .. K - 1
               PROVE  s2[i].in \in Nat /\ s2[i].in <= N /\ s2[i].in < i
    BY DEF Inside
  <2>1. CASE i \in 1 .. N /\ i \in 1 .. K /\ s2[i] = s[i]
    BY <1>3, <2>1
  <2>2. CASE i > N /\ i + 1 \in 1 .. K /\ s2[i] = s[i + 1]
    <3>1. s[i + 1].in \in Nat /\ s[i + 1].in <= N
      BY <1>3, <2>2
    <3> QED
      BY <2>2, <3>1
  <2> QED
    BY <1>4, <2>1, <2>2
<1>7. ASSUME NEW i \in 1 .. K - 1, NEW j \in 1 .. K - 1, i < j
      PROVE  \E h, l \in 1 .. K : h < l /\ s2[i] = s[h] /\ s2[j] = s[l] /\ (h = i \/ h > N)
  <2>1. CASE i \in 1 .. N /\ i \in 1 .. K /\ s2[i] = s[i]
    <3>1. CASE j \in 1 .. N /\ j \in 1 .. K /\ s2[j] = s[j]
      BY <1>7, <2>1, <3>1
    <3>2. CASE j > N /\ j + 1 \in 1 .. K /\ s2[j] = s[j + 1]
      <4>1. i < j + 1
        BY <1>7
      <4> QED
        BY <2>1, <3>2, <4>1
    <3> QED
      BY <1>4, <3>1, <3>2
  <2>2. CASE i > N /\ i + 1 \in 1 .. K /\ s2[i] = s[i + 1]
    <3>1. j + 1 \in 1 .. K /\ s2[j] = s[j + 1] /\ i + 1 < j + 1 /\ i + 1 > N
      BY <1>4, <1>7, <2>2
    <3> QED
      BY <2>2, <3>1
  <2> QED
    BY <1>4, <2>1, <2>2
<1>8. Nested(s2)
  <2> SUFFICES ASSUME NEW i \in 1 .. K - 1, NEW j \in 1 .. K - 1, i < j
               PROVE  s2[j].in >= i \/ s2[j].in <= s2[i].in
    BY DEF Nested
  <2>1. PICK h \in 1 .. K, l \in 1 .. K :
                h < l /\ s2[i] = s[h] /\ s2[j] = s[l] /\ (h = i \/ h > N)
    BY <1>7
  <2>2. s[l].in >= h \/ s[l].in <= s[h].in
    BY <1>1, <2>1 DEF Nested
  <2>3. s[l].in \in Nat /\ s[l].in <= N
    BY <1>3
  <2> QED
    BY <2>1, <2>2, <2>3
<1>9. EndsLast(s2, N)
  <2> SUFFICES ASSUME NEW i \in 1 .. K - 1, IsEnd(s2[i])
               PROVE  /\ i > N
                      /\ s2[i].in # NoNode
                      /\ \A j \in 1 .. K - 1 : i < j => s2[j].in < s2[i].in
    BY DEF EndsLast
  <2>1. \A h \in 1 .. K : IsEnd(s[h]) => /\ h > N /\ s[h].in # NoNode
                                         /\ \A j \in 1 .. K : h < j => s[j].in < s[h].in
    BY <1>1 DEF EndsLast
  <2>2. i > N /\ i + 1 \in 1 .. K /\ s2[i] = s[i + 1]
    BY <1>4, <2>1
  <2>3. s2[i].in # NoNode /\ \A j \in 1 .. K : i + 1 < j => s[j].in < s2[i].in
    BY <2>1, <2>2
  <2>4. ASSUME NEW j \in 1 .. K - 1, i < j PROVE s2[j].in < s2[i].in
    <3>1. j + 1 \in 1 .. K /\ s2[j] = s[j + 1] /\ i + 1 < j + 1
      BY <2>2, <2>4
    <3> QED
      BY <2>3, <3>1
  <2> QED
    BY <2>2, <2>3, <2>4
<1>10. ASSUME NEW i \in 1 .. K
       PROVE  s[i].in # NoNode => s[i].in \in 1 .. N /\ s2[s[i].in] = s[s[i].in]
  BY <1>3 DEF NoNode
<1>11. PartsOnly(s2, full, fs)
  <2> SUFFICES ASSUME NEW i \in 1 .. K - 1, ~ IsEnd(s2[i]) PROVE IsPartOf(s2, full, fs, s2[i])
    BY Zenon DEF PartsOnly
  <2>1. PICK h \in 1 .. K : s2[i] = s[h]
    BY <1>4
  <2>2. IsPartOf(s, full, fs, s[h])
    BY <1>1, <2>1 DEF PartsOnly
  <2>3. CASE s[h].in = NoNode
    BY <2>1, <2>2, <2>3 DEF IsPartOf
  <2>4. CASE s[h].in # NoNode
    <3>1. s[h].in \in full /\ IsPart(s[s[h].in].of, s[h])
      BY <2>2, <2>4 DEF IsPartOf
    <3>2. s2[s[h].in] = s[s[h].in]
      BY <1>10, <2>4
    <3> QED
      BY <2>1, <2>4, <3>1, <3>2 DEF IsPartOf
  <2> QED
    BY <2>3, <2>4
<1>12. InOrder(s2)
  <2> SUFFICES ASSUME NEW i \in 1 .. K - 1, NEW j \in 1 .. K - 1, i < j,
                      s2[i].in = s2[j].in, ~ IsEnd(s2[i]), ~ IsEnd(s2[j])
               PROVE  Before(s2, s2[i], s2[j])
    BY Zenon DEF InOrder
  <2>1. PICK h \in 1 .. K, l \in 1 .. K : h < l /\ s2[i] = s[h] /\ s2[j] = s[l]
    BY <1>7
  <2>2. Before(s, s[h], s[l])
    BY <1>1, <2>1 DEF InOrder
  <2>3. Before(s2, s[h], s[l])
    BY <1>10, <2>2 DEF Before
  <2> QED
    BY <2>1, <2>3
<1>13. ASSUME NEW n, NEW key, NEW nr, HasPart(s, n, key, nr), key # "end"
       PROVE  HasPart(s2, n, key, nr)
  <2>1. PICK i \in 1 .. K : s[i].in = n /\ s[i].key = key /\ s[i].nr = nr
    BY <1>13 DEF HasPart
  <2>2. i # N + 1
    BY <1>13, <2>1 DEF IsEnd
  <2> QED
    BY <1>5, <2>1, <2>2 DEF HasPart
<1>14. AllParts(s2, full)
  <2> SUFFICES ASSUME NEW n \in full, NEW k \in DOMAIN KeysOf(KindOf(s2[n].of)),
                      NEW nr \in DOMAIN At(s2[n].of, KeysOf(KindOf(s2[n].of))[k])
               PROVE  HasPart(s2, n, KeysOf(KindOf(s2[n].of))[k], nr)
    BY Zenon DEF AllParts
  <2>1. s2[n] = s[n]
    BY <1>2
  <2>2. HasPart(s, n, KeysOf(KindOf(s[n].of))[k], nr)
    BY <1>1, <2>1 DEF AllParts
  <2>3. KeysOf(KindOf(s[n].of))[k] # "end"
    BY <2>1, KeysAreNoEnd
  <2> QED
    BY <1>13, <2>1, <2>2, <2>3
<1>15. AllTops(s2, fs)
  <2>1. \A nr \in 1 .. Cardinality(fs) : HasPart(s2, NoNode, "top", nr)
    BY <1>1, <1>13 DEF AllTops
  <2>2. ASSUME NEW f \in fs
        PROVE  \E i \in DOMAIN s2 : s2[i].in = NoNode /\ ~ IsEnd(s2[i]) /\ s2[i].of = f
    <3>1. PICK i \in 1 .. K : s[i].in = NoNode /\ ~ IsEnd(s[i]) /\ s[i].of = f
      BY <1>1 DEF AllTops
    <3>2. i # N + 1
      BY <3>1
    <3> QED
      BY <1>5, <3>1, <3>2
  <2> QED
    BY <2>1, <2>2 DEF AllTops
<1> QED
  BY <1>6, <1>8, <1>9, <1>11, <1>12, <1>14, <1>15 DEF IsOrder

\* The next function is called at the top.
LEMMA PutAtEnd ==
    ASSUME NEW N \in Nat, NEW s, DOMAIN s = 1 .. N, NEW s2, DOMAIN s2 = 1 .. N + 1,
           NEW full, full \subseteq 1 .. N, NEW fs, NEW fs2, NEW f, fs2 = fs \cup {f},
           Cardinality(fs) \in Nat, Cardinality(fs2) = Cardinality(fs) + 1,
           IsOrder(s, N, full, fs),
           \A i \in 1 .. N : s2[i] = s[i],
           s2[N + 1].in = NoNode, s2[N + 1].key = "top", s2[N + 1].of = f,
           s2[N + 1].nr = Cardinality(fs) + 1
    PROVE  IsOrder(s2, N, full, fs2)
<1>1. /\ Inside(s, N) /\ Nested(s) /\ EndsLast(s, N) /\ PartsOnly(s, full, fs) /\ InOrder(s)
      /\ AllParts(s, full) /\ AllTops(s, fs)
  BY DEF IsOrder
<1>2. \A i \in 1 .. N + 1 : i \in 1 .. N \/ i = N + 1
  OBVIOUS
<1>3. \A i \in 1 .. N : i \in 1 .. N + 1 /\ i # N + 1 /\ s2[i] = s[i]
  OBVIOUS
<1>4. \A i \in 1 .. N : s[i].in \in Nat /\ s[i].in <= N /\ s[i].in < i
  BY <1>1 DEF Inside
<1>5. ~ IsEnd(s2[N + 1]) /\ \A i \in 1 .. N : ~ IsEnd(s[i])
  <2>1. \A i \in 1 .. N : ~ IsEnd(s[i])
    BY <1>1 DEF EndsLast
  <2> QED
    BY <2>1 DEF IsEnd
<1>6. Inside(s2, N)
  <2> SUFFICES ASSUME NEW i \in 1 .. N + 1
               PROVE  s2[i].in \in Nat /\ s2[i].in <= N /\ s2[i].in < i
    BY DEF Inside
  <2> QED
    BY <1>2, <1>3, <1>4 DEF NoNode
<1>7. Nested(s2)
  <2> SUFFICES ASSUME NEW i \in 1 .. N + 1, NEW j \in 1 .. N + 1, i < j
               PROVE  s2[j].in >= i \/ s2[j].in <= s2[i].in
    BY DEF Nested
  <2>1. CASE j = N + 1
    BY <1>2, <1>3, <1>4, <2>1 DEF NoNode
  <2>2. CASE j \in 1 .. N
    <3>1. i \in 1 .. N
      BY <2>2
    <3> QED
      BY <1>1, <1>3, <2>2, <3>1 DEF Nested
  <2> QED
    BY <1>2, <2>1, <2>2
<1>8. EndsLast(s2, N)
  BY <1>2, <1>3, <1>5 DEF EndsLast
<1>9. ASSUME NEW i \in 1 .. N
      PROVE  s[i].in # NoNode => s[i].in \in 1 .. N /\ s2[s[i].in] = s[s[i].in]
  BY <1>4 DEF NoNode
<1>10. ASSUME NEW i \in 1 .. N PROVE IsPartOf(s, full, fs, s[i])
  BY <1>1, <1>5 DEF PartsOnly
<1>11. PartsOnly(s2, full, fs2)
  <2> SUFFICES ASSUME NEW i \in 1 .. N + 1 PROVE IsPartOf(s2, full, fs2, s2[i])
    BY Zenon DEF PartsOnly
  <2>1. CASE i = N + 1
    BY <2>1 DEF IsPartOf, IsTop
  <2>2. CASE i \in 1 .. N /\ s[i].in = NoNode
    <3>1. IsTop(fs, s[i])
      BY <1>10, <2>2 DEF IsPartOf
    <3>2. IsTop(fs2, s[i])
      BY <3>1 DEF IsTop
    <3> QED
      BY <1>3, <2>2, <3>2 DEF IsPartOf
  <2>3. CASE i \in 1 .. N /\ s[i].in # NoNode
    <3>1. s[i].in \in full /\ IsPart(s[s[i].in].of, s[i])
      BY <1>10, <2>3 DEF IsPartOf
    <3>2. s2[s[i].in] = s[s[i].in] /\ s2[i] = s[i]
      BY <1>9, <2>3
    <3> QED
      BY <2>3, <3>1, <3>2 DEF IsPartOf
  <2> QED
    BY <1>2, <2>1, <2>2, <2>3
<1>12. InOrder(s2)
  <2> SUFFICES ASSUME NEW i \in 1 .. N + 1, NEW j \in 1 .. N + 1, i < j, s2[i].in = s2[j].in
               PROVE  Before(s2, s2[i], s2[j])
    BY Zenon DEF InOrder
  <2>0. i \in 1 .. N
    OBVIOUS
  <2>1. CASE j = N + 1
    <3>1. IsTop(fs, s2[i])
      BY <1>3, <1>10, <2>0, <2>1 DEF IsPartOf
    <3> QED
      BY <2>1, <3>1 DEF IsTop, Before
  <2>2. CASE j \in 1 .. N
    <3>1. Before(s, s[i], s[j])
      BY <1>1, <1>3, <1>5, <2>0, <2>2 DEF InOrder
    <3>2. Before(s2, s[i], s[j])
      BY <1>9, <2>0, <3>1 DEF Before
    <3> QED
      BY <1>3, <2>0, <2>2, <3>2
  <2> QED
    BY <1>2, <2>1, <2>2
<1>13. ASSUME NEW n, NEW key, NEW nr, HasPart(s, n, key, nr) PROVE HasPart(s2, n, key, nr)
  BY <1>3, <1>13 DEF HasPart
<1>14. AllParts(s2, full)
  <2> SUFFICES ASSUME NEW n \in full, NEW k \in DOMAIN KeysOf(KindOf(s2[n].of)),
                      NEW nr \in DOMAIN At(s2[n].of, KeysOf(KindOf(s2[n].of))[k])
               PROVE  HasPart(s2, n, KeysOf(KindOf(s2[n].of))[k], nr)
    BY Zenon DEF AllParts
  <2>1. s2[n] = s[n]
    BY <1>3
  <2>2. HasPart(s, n, KeysOf(KindOf(s[n].of))[k], nr)
    BY <1>1, <2>1 DEF AllParts
  <2> QED
    BY <1>13, <2>1, <2>2
<1>15. AllTops(s2, fs2)
  <2>1. ASSUME NEW nr \in 1 .. Cardinality(fs2) PROVE HasPart(s2, NoNode, "top", nr)
    <3>1. CASE nr = Cardinality(fs) + 1
      <4>1. N + 1 \in DOMAIN s2
        OBVIOUS
      <4> QED
        BY <3>1, <4>1 DEF HasPart
    <3>2. CASE nr \in 1 .. Cardinality(fs)
      BY <1>1, <1>13, <3>2 DEF AllTops
    <3> QED
      BY <3>1, <3>2
  <2>2. ASSUME NEW g \in fs2
        PROVE  \E i \in DOMAIN s2 : s2[i].in = NoNode /\ ~ IsEnd(s2[i]) /\ s2[i].of = g
    <3>1. CASE g = f
      <4>1. N + 1 \in DOMAIN s2
        OBVIOUS
      <4> QED
        BY <1>5, <3>1, <4>1
    <3>2. CASE g \in fs
      <4>1. PICK i \in 1 .. N : s[i].in = NoNode /\ ~ IsEnd(s[i]) /\ s[i].of = g
        BY <1>1, <3>2 DEF AllTops
      <4> QED
        BY <1>3, <4>1
    <3> QED
      BY <3>1, <3>2
  <2> QED
    BY <2>1, <2>2 DEF AllTops
<1> QED
  BY <1>6, <1>7, <1>8, <1>11, <1>12, <1>14, <1>15 DEF IsOrder

(* How it changes the ids *)

HasIds(t, next) == next \in Nat /\ Len(t) \in Nat /\ \A n \in 1 .. Len(t) : t[n].id \in Nat

\* A node is written, with the next id if it is no field; a field has not yet ended.
LEMMA IdsAfterNode ==
    ASSUME NEW t, NEW next, HasIds(t, next), NEW N, N = Len(t),
           NEW t2, Len(t2) = N + 1, \A n \in 1 .. N : t2[n] = t[n], NEW e, t2[N + 1] = e,
           NEW s, N + 1 \in DOMAIN s, s[N + 1].in = e.in, NEW s2,
           IdsGrow(t, next), FieldIds(t, next, s),
           ~ IsField(e.of) => e.id = next,
           \A f \in 1 .. N : HasEnded(s2, f) => HasEnded(s, f),
           IsField(e.of) => ~ HasEnded(s2, N + 1)
    PROVE  IdsGrow(t2, next + 1) /\ FieldIds(t2, next + 1, s2)
<1>1. N \in Nat /\ next \in Nat /\ \A n \in 1 .. N : t[n].id \in Nat
  BY DEF HasIds
<1>2. \A n \in 1 .. N + 1 : n \in 1 .. N \/ n = N + 1
  BY <1>1
<1>3. ASSUME NEW n \in 1 .. N + 1, ~ IsField(t2[n].of)
      PROVE  /\ t2[n].id < next + 1
             /\ \A m \in 1 .. N + 1 : m < n /\ ~ IsField(t2[m].of) => t2[m].id < t2[n].id
  <2>1. \A k \in 1 .. N : ~ IsField(t[k].of) =>
           /\ t[k].id < next
           /\ \A m \in 1 .. N : m < k /\ ~ IsField(t[m].of) => t[m].id < t[k].id
    BY DEF IdsGrow
  <2>2. CASE n \in 1 .. N
    <3>1. \A m \in 1 .. N + 1 : m < n => m \in 1 .. N
      BY <1>1, <2>2
    <3>2. t2[n] = t[n] /\ t[n].id < next /\ t[n].id \in Nat
      BY <1>1, <1>3, <2>1, <2>2
    <3>3. t2[n].id < next + 1
      BY <1>1, <3>2
    <3> QED
      BY <1>3, <2>1, <2>2, <3>1, <3>2, <3>3
  <2>3. CASE n = N + 1
    <3>1. t2[n].id = next
      BY <1>3, <2>3
    <3>2. \A m \in 1 .. N + 1 : m < n => m \in 1 .. N /\ t2[m] = t[m]
      BY <1>1, <2>3
    <3> QED
      BY <1>1, <2>1, <3>1, <3>2
  <2> QED
    BY <1>2, <2>2, <2>3
<1>4. ASSUME NEW f \in 1 .. N + 1, IsField(t2[f].of), HasEnded(s2, f)
      PROVE  /\ t2[f].id <= next + 1
             /\ t2[f].id # next + 1
             /\ \A n \in 1 .. N + 1 : ~ IsField(t2[n].of) /\ t2[n].id = t2[f].id =>
                   f < n /\ t2[n].in < f
  <2>1. f \in 1 .. N
    BY <1>2, <1>4
  <2>2. t2[f] = t[f] /\ IsField(t[f].of) /\ HasEnded(s, f)
    BY <1>4, <2>1
  <2>3. /\ t[f].id <= next
        /\ t[f].id = next => \A i \in DOMAIN s : i > N => s[i].in < f
        /\ \A n \in 1 .. N : ~ IsField(t[n].of) /\ t[n].id = t[f].id => f < n /\ t[n].in < f
    BY <2>1, <2>2 DEF FieldIds
  <2>4. ASSUME ~ IsField(t2[N + 1].of), t2[N + 1].id = t[f].id
        PROVE  f < N + 1 /\ t2[N + 1].in < f
    <3>1. t[f].id = next
      BY <2>4
    <3>2. s[N + 1].in < f
      BY <1>1, <2>3, <3>1
    <3> QED
      BY <1>1, <2>1, <3>2
  <2>5. t[f].id \in Nat
    BY <1>1, <2>1
  <2> QED
    BY <1>1, <1>2, <2>2, <2>3, <2>4, <2>5
<1>5. IdsGrow(t2, next + 1)
  BY <1>3 DEF IdsGrow
<1>6. FieldIds(t2, next + 1, s2)
  BY <1>4 DEF FieldIds
<1> QED
  BY <1>5, <1>6

\* In tree t2 with s2 behind it the field at k has ended, which has not in t and s.
IsEnded(t2, s2, t, s, N, k, next) ==
    /\ HasIds(t, next) /\ N \in Nat /\ N = Len(t) /\ k \in 1 .. N /\ IsField(t[k].of)
    /\ Len(t2) = N /\ \A n \in 1 .. N : n # k => t2[n] = t[n]
    /\ t2[k].id = next /\ t2[k].of = t[k].of
    /\ N + 1 \in DOMAIN s
    /\ \A i \in DOMAIN s2 : i > N => \E j \in DOMAIN s : N + 1 < j /\ s2[i] = s[j]
    /\ \A i \in DOMAIN s : i # N + 1 => \E j \in DOMAIN s2 : s2[j] = s[i]
    /\ \A j \in DOMAIN s : j \in Nat
    /\ EndsLast(s, N) /\ IsEnd(s[N + 1]) /\ s[N + 1].in = k

\* A field ends, and gets the id that is next.
LEMMA IdsAfterEnd ==
    ASSUME NEW t, NEW next, NEW N, NEW k, NEW t2, NEW s, NEW s2,
           IsEnded(t2, s2, t, s, N, k, next),
           IdsGrow(t, next), FieldIds(t, next, s)
    PROVE  IdsGrow(t2, next) /\ FieldIds(t2, next, s2)
<1>0. /\ HasIds(t, next) /\ N \in Nat /\ N = Len(t) /\ k \in 1 .. N /\ IsField(t[k].of)
      /\ Len(t2) = N /\ \A n \in 1 .. N : n # k => t2[n] = t[n]
      /\ t2[k].id = next /\ t2[k].of = t[k].of
      /\ N + 1 \in DOMAIN s
      /\ \A i \in DOMAIN s2 : i > N => \E j \in DOMAIN s : N + 1 < j /\ s2[i] = s[j]
      /\ \A i \in DOMAIN s : i # N + 1 => \E j \in DOMAIN s2 : s2[j] = s[i]
      /\ \A j \in DOMAIN s : j \in Nat
      /\ EndsLast(s, N) /\ IsEnd(s[N + 1]) /\ s[N + 1].in = k
  BY Zenon DEF IsEnded
<1> USE <1>0
<1>1. N \in Nat /\ next \in Nat /\ \A n \in 1 .. N : t[n].id \in Nat
  BY DEF HasIds
<1>2. ASSUME NEW n \in 1 .. N, ~ IsField(t2[n].of) PROVE t2[n] = t[n] /\ ~ IsField(t[n].of)
  BY <1>2
<1>3. \A n \in 1 .. N : ~ IsField(t[n].of) =>
         /\ t[n].id < next
         /\ \A m \in 1 .. N : m < n /\ ~ IsField(t[m].of) => t[m].id < t[n].id
  BY DEF IdsGrow
<1>4. IdsGrow(t2, next)
  BY <1>2, <1>3 DEF IdsGrow
<1>7. ASSUME NEW f \in 1 .. N, IsField(t2[f].of), HasEnded(s2, f)
      PROVE  /\ t2[f].id <= next
             /\ t2[f].id = next => \A i \in DOMAIN s2 : i > N => s2[i].in < f
             /\ \A n \in 1 .. N : ~ IsField(t2[n].of) /\ t2[n].id = t2[f].id =>
                   f < n /\ t2[n].in < f
  <2>1. CASE f = k
    <3>1. ASSUME NEW i \in DOMAIN s2, i > N PROVE s2[i].in < f
      <4>1. \A j \in DOMAIN s : N + 1 < j => s[j].in < s[N + 1].in
        BY DEF EndsLast
      <4>2. PICK j \in DOMAIN s : N + 1 < j /\ s2[i] = s[j]
        BY <3>1
      <4> QED
        BY <2>1, <4>1, <4>2
    <3>2. ASSUME NEW n \in 1 .. N, ~ IsField(t2[n].of) PROVE t2[n].id # next
      BY <1>1, <1>2, <1>3, <3>2
    <3>3. t2[f].id = next
      BY <2>1
    <3>4. next <= next
      BY <1>1
    <3> QED
      BY <3>1, <3>2, <3>3, <3>4, Zenon
  <2>2. CASE f # k
    <3>1. t2[f] = t[f] /\ IsField(t[f].of)
      BY <1>7, <2>2
    <3>2. HasEnded(s, f)
      <4> SUFFICES ASSUME NEW i \in DOMAIN s, IsEnd(s[i]), s[i].in = f PROVE FALSE
        BY DEF HasEnded
      <4>1. i # N + 1
        BY <2>2
      <4> QED
        BY <1>7, <4>1 DEF HasEnded
    <3>3. /\ t[f].id <= next
          /\ t[f].id = next => \A i \in DOMAIN s : i > N => s[i].in < f
          /\ \A n \in 1 .. N : ~ IsField(t[n].of) /\ t[n].id = t[f].id => f < n /\ t[n].in < f
      BY <3>1, <3>2 DEF FieldIds
    <3>4. t[f].id = next => \A i \in DOMAIN s2 : i > N => s2[i].in < f
      <4>1. \A j \in DOMAIN s : N + 1 < j => j > N
        BY <1>1
      <4> QED
        BY <3>3, <4>1
    <3> QED
      BY <1>2, <3>1, <3>3, <3>4
  <2> QED
    BY <2>1, <2>2
<1>8. FieldIds(t2, next, s2)
  BY <1>7 DEF FieldIds
<1> QED
  BY <1>4, <1>8

\* A function is called at the top.
LEMMA IdsAfterTop ==
    ASSUME NEW t, NEW next, NEW N \in Nat, N = Len(t),
           NEW s, DOMAIN s = 1 .. N, NEW s2, DOMAIN s2 = 1 .. N + 1,
           \A i \in 1 .. N : s2[i] = s[i], s2[N + 1].in = NoNode, FieldIds(t, next, s)
    PROVE  FieldIds(t, next, s2)
<1> SUFFICES ASSUME NEW f \in 1 .. N, IsField(t[f].of), HasEnded(s2, f)
             PROVE  /\ t[f].id <= next
                    /\ t[f].id = next => \A i \in 1 .. N + 1 : i > N => s2[i].in < f
                    /\ \A n \in 1 .. N : ~ IsField(t[n].of) /\ t[n].id = t[f].id =>
                          f < n /\ t[n].in < f
  BY DEF FieldIds
<1>1. \A i \in 1 .. N : i \in 1 .. N + 1
  OBVIOUS
<1>2. HasEnded(s, f)
  BY <1>1 DEF HasEnded
<1>3. /\ t[f].id <= next
      /\ \A n \in 1 .. N : ~ IsField(t[n].of) /\ t[n].id = t[f].id => f < n /\ t[n].in < f
  BY <1>2 DEF FieldIds
<1>4. \A i \in 1 .. N + 1 : i > N => s2[i].in < f
  BY DEF NoNode
<1> QED
  BY <1>3, <1>4

-----------------------------------------------------------------------------

(* The steps of the encoder *)

LEMMA SlotFacts ==
    /\ \A x : /\ Slot(x).of = x.of /\ Slot(x).in = x.in
              /\ Slot(x).key = x.key /\ Slot(x).nr = x.nr
    /\ \A x : IsEnd(Slot(x)) <=> IsEnd(x)
    /\ \A o, x : IsPart(o, x) => IsPart(o, Slot(x))
    /\ \A kind, x, y : PartBefore(kind, x, y) => PartBefore(kind, Slot(x), Slot(y))
<1>1. \A x : /\ Slot(x).of = x.of /\ Slot(x).in = x.in
             /\ Slot(x).key = x.key /\ Slot(x).nr = x.nr
  BY DEF Slot
<1>2. \A x : IsEnd(Slot(x)) <=> IsEnd(x)
  BY <1>1 DEF IsEnd
<1>3. ASSUME NEW o, NEW x, IsPart(o, x) PROVE IsPart(o, Slot(x))
  <2>1. PICK y : y = Slot(x)
    OBVIOUS
  <2>2. y.of = x.of /\ y.key = x.key /\ y.nr = x.nr
    BY <1>1, <2>1
  <2>3. IsPart(o, y)
    BY <1>3, <2>2 DEF IsPart
  <2> QED
    BY <2>1, <2>3
<1>4. ASSUME NEW kind, NEW x, NEW y, PartBefore(kind, x, y)
      PROVE  PartBefore(kind, Slot(x), Slot(y))
  BY <1>1, <1>4 DEF PartBefore
<1> QED
  BY <1>1, <1>2, <1>3, <1>4

\* The order with call c first.
HasSlots(s, t, c, rest) ==
    /\ s = [i \in 1 .. Len(t) + 1 + Len(rest) |-> s[i]]
    /\ \A i \in 1 .. Len(t) : s[i] = Slot(t[i])
    /\ s[Len(t) + 1] = Slot(c)
    /\ \A k \in 1 .. Len(rest) : s[Len(t) + 1 + k] = Slot(rest[k])

LEMMA SlotsOfCut ==
    ASSUME NEW t \in Seq(Nodes), NEW cs \in Seq(WalkCalls), cs # <<>>
    PROVE  HasSlots(Slots(t, cs), t, Head(cs), Tail(cs))
<1>1. PICK rest : rest = Tail(cs)
  OBVIOUS
<1>2. PICK c : c = Head(cs)
  OBVIOUS
<1>3. /\ Len(cs) \in Nat \ {0} /\ Len(rest) \in Nat /\ Len(cs) = Len(rest) + 1
      /\ c = cs[1] /\ \A k \in 1 .. Len(rest) : rest[k] = cs[k + 1]
  BY <1>1, <1>2
<1>4. PICK N \in Nat : N = Len(t)
  OBVIOUS
<1>5. PICK L \in Nat : L = Len(rest)
  BY <1>3
<1>6. PICK s : s = Slots(t, cs)
  OBVIOUS
<1>7. s = [i \in 1 .. N + (L + 1) |-> IF i <= N THEN Slot(t[i]) ELSE Slot(cs[i - N])]
  BY <1>3, <1>4, <1>5, <1>6 DEF Slots
<1>8. s = [i \in 1 .. N + 1 + L |-> s[i]]
  <2>1. N + (L + 1) = N + 1 + L
    OBVIOUS
  <2> QED
    BY <1>7, <2>1
<1>9. \A i \in 1 .. N : s[i] = Slot(t[i])
  BY <1>7
<1>10. s[N + 1] = Slot(c)
  <2>1. N + 1 \in 1 .. N + (L + 1) /\ ~ (N + 1 <= N) /\ (N + 1) - N = 1
    OBVIOUS
  <2> QED
    BY <1>3, <1>7, <2>1
<1>11. ASSUME NEW k \in 1 .. L PROVE s[N + 1 + k] = Slot(rest[k])
  <2>1. /\ N + 1 + k \in 1 .. N + (L + 1) /\ ~ (N + 1 + k <= N) /\ (N + 1 + k) - N = k + 1
    OBVIOUS
  <2> QED
    BY <1>3, <1>5, <1>7, <2>1
<1> QED
  BY <1>1, <1>2, <1>4, <1>5, <1>6, <1>8, <1>9, <1>10, <1>11, Zenon DEF HasSlots

\* The order with calls new before the rest.
AreNewSlots(s, t, N, new, rest) ==
    /\ DOMAIN s = 1 .. N + Len(new) + Len(rest)
    /\ \A i \in 1 .. N : s[i] = Slot(t[i])
    /\ \A k \in 1 .. Len(new) : s[N + k] = Slot(new[k])
    /\ \A k \in 1 .. Len(rest) : s[N + Len(new) + k] = Slot(rest[k])

LEMMA SlotsOfNew ==
    ASSUME NEW t, NEW N \in Nat, N = Len(t), NEW S, NEW new \in Seq(S), NEW rest \in Seq(S),
           NEW s, s = Slots(t, new \o rest)
    PROVE  AreNewSlots(s, t, N, new, rest)
<1>1. PICK cs : cs = new \o rest
  OBVIOUS
<1>2. PICK A \in Nat : A = Len(new)
  OBVIOUS
<1>3. PICK B \in Nat : B = Len(rest)
  OBVIOUS
<1>4. /\ Len(cs) = A + B
      /\ \A k \in 1 .. A : cs[k] = new[k]
      /\ \A k \in 1 .. B : cs[k + A] = rest[k]
  BY <1>1, <1>2, <1>3, ConcatFacts
<1>5. s = [i \in 1 .. N + (A + B) |-> IF i <= N THEN Slot(t[i]) ELSE Slot(cs[i - N])]
  BY <1>1, <1>4 DEF Slots
<1>6. \A i \in 1 .. N : s[i] = Slot(t[i])
  BY <1>5
<1>7. ASSUME NEW k \in 1 .. A PROVE s[N + k] = Slot(new[k])
  <2>1. N + k \in 1 .. N + (A + B) /\ ~ (N + k <= N) /\ (N + k) - N = k
    OBVIOUS
  <2> QED
    BY <1>4, <1>5, <2>1
<1>8. ASSUME NEW k \in 1 .. B PROVE s[N + A + k] = Slot(rest[k])
  <2>1. N + A + k \in 1 .. N + (A + B) /\ ~ (N + A + k <= N) /\ (N + A + k) - N = k + A
    OBVIOUS
  <2> QED
    BY <1>4, <1>5, <2>1
<1>9. DOMAIN s = 1 .. N + A + B
  <2>1. N + (A + B) = N + A + B
    OBVIOUS
  <2> QED
    BY <1>5, <2>1
<1> QED
  BY <1>2, <1>3, <1>6, <1>7, <1>8, <1>9, Zenon DEF AreNewSlots

\* A tree with call c first, and the others behind it.
TreeCut(t, refs, next, c, rest, s, fs) ==
    /\ HasSlots(s, t, c, rest)
    /\ IsOrder(s, Len(t), FullNodes(t), fs)
    /\ IdsGrow(t, next) /\ FieldIds(t, next, s)
    /\ \A n \in 1 .. Len(t) : NodeFits(t[n])
    /\ CallFits(c) /\ \A k \in 1 .. Len(rest) : CallFits(rest[k])
    /\ Written(t, refs)

LEMMA TreeIsCut ==
    ASSUME NEW t \in Seq(Nodes), NEW refs, NEW next, NEW cs \in Seq(WalkCalls), cs # <<>>,
           NEW fs, IsTree(t, refs, next, cs, fs)
    PROVE  TreeCut(t, refs, next, Head(cs), Tail(cs), Slots(t, cs), fs)
<1>1. HasSlots(Slots(t, cs), t, Head(cs), Tail(cs))
  BY SlotsOfCut
<1>2. /\ Len(cs) \in Nat \ {0} /\ Len(Tail(cs)) = Len(cs) - 1 /\ Head(cs) = cs[1]
      /\ \A k \in 1 .. Len(Tail(cs)) : Tail(cs)[k] = cs[k + 1] /\ k + 1 \in 1 .. Len(cs)
  OBVIOUS
<1>3. CallFits(Head(cs)) /\ \A k \in 1 .. Len(Tail(cs)) : CallFits(Tail(cs)[k])
  <2>1. \A k \in 1 .. Len(cs) : CallFits(cs[k])
    BY Zenon DEF IsTree
  <2>2. 1 \in 1 .. Len(cs)
    BY <1>2
  <2> QED
    BY <1>2, <2>1, <2>2
<1> QED
  BY <1>1, <1>3, Zenon DEF TreeCut, IsTree

\* Tree t2 is t with node e behind it.
OneMore(t2, t, N, e) ==
    /\ Len(t2) = N + 1
    /\ \A n \in 1 .. N : t2[n] = t[n] /\ n \in 1 .. N + 1
    /\ t2[N + 1] = e
    /\ \A n \in 1 .. N + 1 : n \in 1 .. N \/ n = N + 1
    /\ Full(e) => FullNodes(t2) = FullNodes(t) \cup {N + 1}
    /\ ~ Full(e) => FullNodes(t2) = FullNodes(t)
    /\ FullNodes(t) \subseteq 1 .. N

LEMMA AppendNode ==
    ASSUME NEW t \in Seq(Nodes), NEW N, N = Len(t), NEW e \in Nodes,
           NEW t2, t2 = Append(t, e)
    PROVE  OneMore(t2, t, N, e)
<1>0. N \in Nat
  OBVIOUS
<1>1. /\ Len(t2) = N + 1 /\ t2[N + 1] = e
      /\ \A n \in 1 .. N : t2[n] = t[n] /\ n \in 1 .. N + 1
  BY AppendFacts
<1>2. \A n \in 1 .. N + 1 : n \in 1 .. N \/ n = N + 1
  BY <1>0
<1>3. N + 1 \in 1 .. N + 1 /\ N + 1 \notin 1 .. N
  BY <1>0
<1>4. Full(e) => FullNodes(t2) = FullNodes(t) \cup {N + 1}
  BY <1>1, <1>2, <1>3 DEF FullNodes
<1>5. ~ Full(e) => FullNodes(t2) = FullNodes(t)
  BY <1>1, <1>2, <1>3 DEF FullNodes
<1>6. FullNodes(t) \subseteq 1 .. N
  BY DEF FullNodes
<1> QED
  BY <1>1, <1>2, <1>4, <1>5, <1>6 DEF OneMore

\* What of a tree is not about the order: its nodes, and what has an id.
LEMMA FitsStay ==
    ASSUME NEW t \in Seq(Nodes), NEW e \in Nodes, NodeFits(e),
           \A n \in 1 .. Len(t) : NodeFits(t[n]),
           NEW refs, NEW refs2, Written(t, refs),
           DOMAIN refs2 \subseteq DOMAIN refs \cup (IF Full(e) THEN {e.of} ELSE {}),
           NEW t2, t2 = Append(t, e)
    PROVE  /\ \A n \in 1 .. Len(t2) : NodeFits(t2[n])
           /\ Written(t2, refs2)
<1>1. PICK N \in Nat : N = Len(t)
  OBVIOUS
<1>2. /\ Len(t2) = N + 1
      /\ \A n \in 1 .. N : t2[n] = t[n] /\ n \in 1 .. N + 1
      /\ t2[N + 1] = e
      /\ \A n \in 1 .. N + 1 : n \in 1 .. N \/ n = N + 1
  BY <1>1, AppendNode DEF OneMore
<1>3. \A n \in 1 .. Len(t2) : NodeFits(t2[n])
  BY <1>1, <1>2
<1>4. ASSUME NEW o \in DOMAIN refs2, ~ IsField(o)
      PROVE  \E m \in 1 .. Len(t2) : Full(t2[m]) /\ t2[m].of = o
  <2>1. CASE o \in DOMAIN refs
    <3>1. PICK m \in 1 .. N : Full(t[m]) /\ t[m].of = o
      BY <1>1, <1>4, <2>1 DEF Written
    <3> QED
      BY <1>2, <3>1
  <2>2. CASE Full(e) /\ o = e.of
    <3>1. N + 1 \in 1 .. N + 1
      BY <1>1
    <3> QED
      BY <1>2, <2>2, <3>1
  <2> QED
    BY <2>1, <2>2
<1> QED
  BY <1>3, <1>4 DEF Written

\* A link is written.
LEMMA TreeLink ==
    ASSUME NEW t, NEW refs, NEW next, NEW c, NEW rest, Cut(t, refs, next, c, rest),
           NEW s, NEW fs, TreeCut(t, refs, next, c, rest, s, fs),
           IsWrite(c), Mentioned(refs, c),
           NEW kind \in NodeKinds, LinkFits(kind, KindOf(c.of))
    PROVE  IsTree(Append(t, Node(next, kind, refs[c.of], c)), refs, next + 1, rest, fs)
<1>1. PICK e : e = Node(next, kind, refs[c.of], c)
  OBVIOUS
<1>2. /\ t \in Seq(Nodes) /\ RefsOk(refs, next) /\ next \in Nat
      /\ rest \in Seq(WalkCalls) /\ c \in WalkCalls /\ CallOk(t, refs, c)
  BY CutFacts, Zenon
<1>3. c.key # "end" /\ ~ IsField(c.of)
  BY <1>2 DEF CallOk, IsWrite
<1>4. refs[c.of] \in Nat \ {0}
  BY <1>2, RefsFacts, Zenon DEF Mentioned
<1>5. e \in Nodes
  BY <1>1, <1>2, <1>3, <1>4, NodeIsNode
<1>6. /\ e.id = next /\ e.kind = kind /\ e.of = c.of /\ e.in = c.in
      /\ e.linkId = refs[c.of] /\ ~ Full(e)
  <2>1. /\ e.id = next /\ e.kind = kind /\ e.of = c.of /\ e.in = c.in
        /\ e.linkId = refs[c.of] /\ e.key = c.key /\ e.nr = c.nr
    BY <1>1 DEF Node
  <2> QED
    BY <1>4, <2>1 DEF Full, NoNode
<1>7. Slot(e) = Slot(c)
  BY <1>1 DEF Node, Slot
<1>8. PICK N \in Nat : N = Len(t)
  BY <1>2
<1>9. PICK L \in Nat : L = Len(rest)
  BY <1>2
<1>10. PICK t2 : t2 = Append(t, e)
  OBVIOUS
<1>11. /\ Len(t2) = N + 1
       /\ \A n \in 1 .. N : t2[n] = t[n]
       /\ t2[N + 1] = e
       /\ \A n \in 1 .. N + 1 : n \in 1 .. N \/ n = N + 1
       /\ FullNodes(t2) = FullNodes(t)
  <2>1. OneMore(t2, t, N, e)
    BY <1>2, <1>5, <1>8, <1>10, AppendNode, Zenon
  <2> QED
    BY <1>6, <2>1 DEF OneMore
<1>12. /\ s = [i \in 1 .. N + 1 + L |-> s[i]]
       /\ \A i \in 1 .. N : s[i] = Slot(t[i])
       /\ s[N + 1] = Slot(c)
       /\ \A k \in 1 .. L : s[N + 1 + k] = Slot(rest[k])
       /\ IsOrder(s, N, FullNodes(t), fs)
       /\ IdsGrow(t, next) /\ FieldIds(t, next, s)
       /\ \A n \in 1 .. N : NodeFits(t[n])
       /\ \A k \in 1 .. L : CallFits(rest[k])
       /\ Written(t, refs)
  BY <1>8, <1>9, Zenon DEF TreeCut, HasSlots
<1>13. Slots(t2, rest) = s
  <2>1. Slots(t2, rest) = [i \in 1 .. N + 1 + L |->
                              IF i <= N + 1 THEN Slot(t2[i]) ELSE Slot(rest[i - (N + 1)])]
    BY <1>9, <1>11 DEF Slots
  <2>2. ASSUME NEW i \in 1 .. N + 1 + L
        PROVE  s[i] = IF i <= N + 1 THEN Slot(t2[i]) ELSE Slot(rest[i - (N + 1)])
    <3>1. CASE i <= N + 1
      <4>1. s[i] = Slot(t2[i])
        <5>1. i \in 1 .. N \/ i = N + 1
          BY <3>1
        <5> QED
          BY <1>7, <1>11, <1>12, <5>1
      <4> QED
        BY <3>1, <4>1
    <3>2. CASE ~ (i <= N + 1)
      <4>1. PICK k : k = i - (N + 1)
        OBVIOUS
      <4>2. k \in 1 .. L /\ N + 1 + k = i
        BY <3>2, <4>1
      <4>3. s[i] = Slot(rest[k])
        BY <1>12, <4>2
      <4> QED
        BY <3>2, <4>1, <4>3
    <3> QED
      BY <3>1, <3>2
  <2>3. PICK g : g = Slots(t2, rest)
    OBVIOUS
  <2>4. \A i \in 1 .. N + 1 + L : g[i] = s[i]
    BY <2>1, <2>2, <2>3
  <2>5. g = [i \in 1 .. N + 1 + L |-> g[i]]
    BY <2>1, <2>3
  <2> QED
    BY <1>12, <2>3, <2>4, <2>5
<1>14. N + 1 \in DOMAIN s /\ DOMAIN s = 1 .. N + 1 + L /\ N + 1 + L \in Nat
  BY <1>12
<1>15. s[N + 1].in = e.in /\ ~ IsEnd(s[N + 1])
  BY <1>3, <1>6, <1>12, SlotFacts DEF IsEnd
<1>16. IsOrder(s, N + 1, FullNodes(t2), fs)
  BY <1>11, <1>12, <1>14, <1>15, GoOn
<1>17. HasIds(t, next)
  <2>1. \A n \in 1 .. Len(t) : t[n] \in Nodes
    BY <1>2
  <2> QED
    BY <1>2, <2>1 DEF HasIds, Nodes
<1>18. IdsGrow(t2, next + 1) /\ FieldIds(t2, next + 1, s)
  <2>1. ~ IsField(e.of)
    BY <1>3, <1>6
  <2> QED
    BY <1>6, <1>8, <1>11, <1>12, <1>14, <1>15, <1>17, <2>1, IdsAfterNode
<1>19. NodeFits(e)
  BY <1>6 DEF NodeFits
<1>20. /\ \A n \in 1 .. Len(t2) : NodeFits(t2[n])
       /\ Written(t2, refs)
  BY <1>2, <1>5, <1>8, <1>10, <1>12, <1>19, FitsStay
<1>21. IsTree(t2, refs, next + 1, rest, fs)
  BY <1>9, <1>11, <1>12, <1>13, <1>16, <1>18, <1>20, Zenon DEF IsTree
<1> QED
  BY <1>1, <1>10, <1>21

\* The calls that are made for object o, which is written at place n.
NewCalls(o, n, new) ==
    /\ \A k \in 1 .. Len(new) : /\ new[k].in = n
                                /\ CallFits(new[k])
                                /\ IsEnd(new[k]) => k = Len(new)
                                /\ ~ IsEnd(new[k]) => IsPart(o, new[k])
    /\ \A j, k \in 1 .. Len(new) : j < k /\ ~ IsEnd(new[j]) /\ ~ IsEnd(new[k]) =>
          PartBefore(KindOf(o), new[j], new[k])
    /\ \A k \in DOMAIN KeysOf(KindOf(o)) : \A nr \in DOMAIN At(o, KeysOf(KindOf(o))[k]) :
          \E b \in 1 .. Len(new) : new[b].key = KeysOf(KindOf(o))[k] /\ new[b].nr = nr
    /\ IsField(o) <=> \E b \in 1 .. Len(new) : IsEnd(new[b])

LEMMA OneBehind ==
    ASSUME NEW S, NEW q \in Seq(S), NEW x \in S, NEW P \in Nat, P = Len(q),
           NEW r, r = q \o <<x>>
    PROVE  /\ r \in Seq(S) /\ Len(r) = P + 1
           /\ \A i \in 1 .. P : i \in 1 .. P + 1 /\ r[i] = q[i]
           /\ r[P + 1] = x
OBVIOUS

LEMMA NewCallsAre ==
    ASSUME prog \in DOMAIN Programs, NEW o \in DOMAIN Objects, NEW n,
           NEW last, IF IsField(o) THEN \E c : c.of = o /\ last = <<EndCall(c, n)>>
                     ELSE last = <<>>,
           NEW new, new = CallsFor(o, n) \o last
    PROVE  NewCalls(o, n, new) /\ \E S : new \in Seq(S)
<1>1. PICK parts : parts = CallsFor(o, n)
  OBVIOUS
<1>2. /\ Len(parts) \in Nat /\ parts \in Seq({parts[i] : i \in 1 .. Len(parts)})
      /\ \A b \in 1 .. Len(parts) : IsPartCall(o, n, parts[b])
      /\ \A a, b \in 1 .. Len(parts) : a < b => PartBefore(KindOf(o), parts[a], parts[b])
      /\ \A k \in DOMAIN KeysOf(KindOf(o)) :
            \A nr \in DOMAIN At(o, KeysOf(KindOf(o))[k]) :
               \E b \in 1 .. Len(parts) :
                  parts[b].key = KeysOf(KindOf(o))[k] /\ parts[b].nr = nr
  <2>1. ArePartCalls(o, n, parts)
    BY <1>1, CallsForOrder
  <2> QED
    BY <2>1 DEF ArePartCalls
<1>3. PICK P \in Nat : P = Len(parts)
  BY <1>2
<1>4. \A b \in 1 .. P : /\ parts[b].in = n /\ IsPart(o, parts[b]) /\ CallFits(parts[b])
                        /\ ~ IsEnd(parts[b])
  BY <1>2, <1>3, Zenon DEF IsPartCall
<1>5. CASE ~ IsField(o)
  <2>1. last = <<>>
    BY <1>5
  <2>2. new = parts
    BY <1>1, <1>2, <2>1
  <2> QED
    <3>1. \A k \in 1 .. P : /\ parts[k].in = n
                            /\ CallFits(parts[k])
                            /\ IsEnd(parts[k]) => k = P
                            /\ ~ IsEnd(parts[k]) => IsPart(o, parts[k])
      BY <1>4, Zenon
    <3>2. ~ \E b \in 1 .. P : IsEnd(parts[b])
      BY <1>4, Zenon
    <3>3. NewCalls(o, n, parts)
      BY <1>2, <1>3, <1>5, <3>1, <3>2 DEF NewCalls
    <3> QED
      BY <1>2, <2>2, <3>3
<1>6. CASE IsField(o)
  <2>1. PICK c : c.of = o /\ last = <<EndCall(c, n)>>
    BY <1>6
  <2>2. PICK end : end = EndCall(c, n)
    OBVIOUS
  <2>3. end.in = n /\ end.encode = "end of field" /\ end.key = "end"
    BY <2>2 DEF EndCall
  <2>4. IsEnd(end) /\ CallFits(end)
    BY <2>3 DEF IsEnd, CallFits, Takes
  <2>5. PICK S : S = {parts[i] : i \in 1 .. P} \cup {end}
    OBVIOUS
  <2>6. parts \in Seq(S) /\ last \in Seq(S) /\ Len(last) = 1 /\ last[1] = end
    <3>1. {parts[i] : i \in 1 .. Len(parts)} \subseteq S
      BY <1>3, <2>5
    <3>2. parts \in Seq(S)
      BY <1>2, <3>1, SeqOfMore, Zenon
    <3>3. end \in S
      BY <2>5
    <3> QED
      BY <2>1, <2>2, <3>2, <3>3
  <2>7. /\ new \in Seq(S) /\ Len(new) = P + 1
        /\ \A i \in 1 .. P : i \in 1 .. P + 1 /\ new[i] = parts[i]
        /\ new[P + 1] = end
    <3>1. new = parts \o <<end>>
      BY <1>1, <2>1, <2>2
    <3>2. end \in S
      BY <2>5
    <3> QED
      BY <1>3, <2>6, <3>1, <3>2, OneBehind
  <2>8. \A k \in 1 .. P + 1 : k \in 1 .. P \/ k = P + 1
    OBVIOUS
  <2>9. ASSUME NEW k \in 1 .. P + 1
        PROVE  /\ new[k].in = n
               /\ CallFits(new[k])
               /\ IsEnd(new[k]) => k = P + 1
               /\ ~ IsEnd(new[k]) => k \in 1 .. P /\ new[k] = parts[k] /\ IsPart(o, new[k])
    <3>1. CASE k \in 1 .. P
      BY <1>4, <2>7, <3>1
    <3>2. CASE k = P + 1
      BY <2>3, <2>4, <2>7, <3>2
    <3> QED
      BY <2>8, <3>1, <3>2
  <2>10. ASSUME NEW j \in 1 .. P + 1, NEW k \in 1 .. P + 1, j < k,
                ~ IsEnd(new[j]), ~ IsEnd(new[k])
         PROVE  PartBefore(KindOf(o), new[j], new[k])
    BY <1>2, <1>3, <2>9, <2>10
  <2>11. ASSUME NEW k \in DOMAIN KeysOf(KindOf(o)),
                NEW nr \in DOMAIN At(o, KeysOf(KindOf(o))[k])
         PROVE  \E b \in 1 .. P + 1 : new[b].key = KeysOf(KindOf(o))[k] /\ new[b].nr = nr
    <3>1. PICK b \in 1 .. P : parts[b].key = KeysOf(KindOf(o))[k] /\ parts[b].nr = nr
      BY <1>2, <1>3
    <3> QED
      BY <2>7, <3>1
  <2>12. IsField(o) <=> \E b \in 1 .. P + 1 : IsEnd(new[b])
    <3>1. P + 1 \in 1 .. P + 1
      OBVIOUS
    <3> QED
      BY <1>6, <2>4, <2>7, <3>1
  <2>13. \E T : new \in Seq(T)
    BY <2>7, Zenon
  <2> QED
    <3>1. PICK B : B = P + 1
      OBVIOUS
    <3>2. Len(new) = B
      BY <2>7, <3>1
    <3>3. /\ \A k \in 1 .. B : /\ new[k].in = n
                               /\ CallFits(new[k])
                               /\ IsEnd(new[k]) => k = B
                               /\ ~ IsEnd(new[k]) => IsPart(o, new[k])
          /\ \A j, k \in 1 .. B : j < k /\ ~ IsEnd(new[j]) /\ ~ IsEnd(new[k]) =>
                PartBefore(KindOf(o), new[j], new[k])
      BY <2>9, <2>10, <3>1
    <3>4. \A k \in DOMAIN KeysOf(KindOf(o)) : \A nr \in DOMAIN At(o, KeysOf(KindOf(o))[k]) :
             \E b \in 1 .. B : new[b].key = KeysOf(KindOf(o))[k] /\ new[b].nr = nr
      BY <2>11, <3>1
    <3>5. IsField(o) <=> \E b \in 1 .. B : IsEnd(new[b])
      BY <2>12, <3>1
    <3>6. NewCalls(o, n, new)
      BY <3>2, <3>3, <3>4, <3>5, Zenon DEF NewCalls
    <3> QED
      BY <2>13, <3>6
<1> QED
  BY <1>5, <1>6

\* The order when a node is written, and calls new are to be made before the rest.
IsOrderWith(s, s2, t, N, B, new, L) ==
    /\ DOMAIN s = 1 .. N + 1 + L /\ DOMAIN s2 = (1 .. (N + 1 + L) + B)
    /\ \A i \in 1 .. N + 1 : s2[i] = s[i]
    /\ \A i \in 1 .. N + 1 + L : i > N + 1 => s2[i + B] = s[i]
    /\ \A i \in N + 2 .. N + 1 + B : i - (N + 1) \in 1 .. B /\ s2[i] = Slot(new[i - (N + 1)])
    /\ \A k \in 1 .. B : N + 1 + k \in N + 2 .. N + 1 + B /\ s2[N + 1 + k] = Slot(new[k])

LEMMA SlotsOfNode ==
    ASSUME NEW t, NEW N \in Nat, N = Len(t), NEW c, NEW S, NEW rest \in Seq(S),
           NEW L \in Nat, L = Len(rest),
           NEW s, HasSlots(s, t, c, rest),
           NEW e, Slot(e) = Slot(c),
           NEW t2, OneMore(t2, t, N, e),
           NEW new \in Seq(S), NEW B \in Nat, B = Len(new),
           NEW s2, s2 = Slots(t2, new \o rest)
    PROVE  IsOrderWith(s, s2, t, N, B, new, L)
<1>1. /\ s = [i \in 1 .. N + 1 + L |-> s[i]]
      /\ \A i \in 1 .. N : s[i] = Slot(t[i])
      /\ s[N + 1] = Slot(c)
      /\ \A k \in 1 .. L : s[N + 1 + k] = Slot(rest[k])
  BY DEF HasSlots
<1>2. /\ Len(t2) = N + 1 /\ t2[N + 1] = e
      /\ \A n \in 1 .. N : t2[n] = t[n]
      /\ \A n \in 1 .. N + 1 : n \in 1 .. N \/ n = N + 1
  BY DEF OneMore
<1>3. /\ DOMAIN s2 = 1 .. (N + 1) + B + L
      /\ \A i \in 1 .. N + 1 : s2[i] = Slot(t2[i])
      /\ \A k \in 1 .. B : s2[(N + 1) + k] = Slot(new[k])
      /\ \A k \in 1 .. L : s2[(N + 1) + B + k] = Slot(rest[k])
  <2>1. PICK M \in Nat : M = N + 1
    OBVIOUS
  <2>2. M = Len(t2)
    BY <1>2, <2>1
  <2>3. /\ DOMAIN s2 = 1 .. M + Len(new) + Len(rest)
        /\ \A i \in 1 .. M : s2[i] = Slot(t2[i])
        /\ \A k \in 1 .. Len(new) : s2[M + k] = Slot(new[k])
        /\ \A k \in 1 .. Len(rest) : s2[M + Len(new) + k] = Slot(rest[k])
    <3>1. AreNewSlots(s2, t2, M, new, rest)
      BY <2>2, SlotsOfNew
    <3> QED
      BY <3>1, Zenon DEF AreNewSlots
  <2> QED
    BY <2>1, <2>3, Zenon
<1>4. DOMAIN s = 1 .. N + 1 + L
  BY <1>1
<1>5. DOMAIN s2 = 1 .. (N + 1 + L) + B
  BY <1>3
<1>6. ASSUME NEW i \in 1 .. N + 1 PROVE s2[i] = s[i]
  <2>1. CASE i \in 1 .. N
    BY <1>1, <1>2, <1>3, <2>1
  <2>2. CASE i = N + 1
    BY <1>1, <1>2, <1>3, <2>2
  <2> QED
    BY <1>2, <2>1, <2>2
<1>7. ASSUME NEW i \in 1 .. N + 1 + L, i > N + 1 PROVE s2[i + B] = s[i]
  <2>1. PICK k : k = i - (N + 1)
    OBVIOUS
  <2>2. k \in 1 .. L /\ N + 1 + k = i /\ N + 1 + B + k = i + B
    BY <1>7, <2>1
  <2>3. s[i] = Slot(rest[k])
    BY <1>1, <2>2
  <2>4. s2[i + B] = Slot(rest[k])
    BY <1>3, <2>2
  <2> QED
    BY <2>3, <2>4
<1>8. ASSUME NEW i \in N + 2 .. N + 1 + B
      PROVE  i - (N + 1) \in 1 .. B /\ s2[i] = Slot(new[i - (N + 1)])
  <2>1. PICK k : k = i - (N + 1)
    OBVIOUS
  <2>2. k \in 1 .. B /\ N + 1 + k = i
    BY <2>1
  <2>3. s2[i] = Slot(new[k])
    BY <1>3, <2>2
  <2> QED
    BY <2>1, <2>2, <2>3
<1>9. ASSUME NEW k \in 1 .. B
      PROVE  N + 1 + k \in N + 2 .. N + 1 + B /\ s2[N + 1 + k] = Slot(new[k])
  BY <1>3
<1> QED
  BY <1>4, <1>5, <1>6, <1>7, <1>8, <1>9, Zenon DEF IsOrderWith

LEMMA OrderOfNode ==
    ASSUME NEW t, NEW N \in Nat, NEW L \in Nat, NEW B \in Nat,
           NEW s, NEW s2, NEW new, IsOrderWith(s, s2, t, N, B, new, L), B = Len(new),
           NEW full, full \subseteq 1 .. N, NEW fs, IsOrder(s, N, full, fs),
           ~ IsEnd(s[N + 1]), NEW o, o = s[N + 1].of, NewCalls(o, N + 1, new)
    PROVE  IsOrder(s2, N + 1, full \cup {N + 1}, fs)
<1>1. /\ DOMAIN s = 1 .. N + 1 + L /\ DOMAIN s2 = (1 .. (N + 1 + L) + B)
      /\ \A i \in 1 .. N + 1 : s2[i] = s[i]
      /\ \A i \in 1 .. N + 1 + L : i > N + 1 => s2[i + B] = s[i]
      /\ \A i \in N + 2 .. N + 1 + B : i - (N + 1) \in 1 .. B /\ s2[i] = Slot(new[i - (N + 1)])
      /\ \A k \in 1 .. B : N + 1 + k \in N + 2 .. N + 1 + B /\ s2[N + 1 + k] = Slot(new[k])
  BY DEF IsOrderWith
<1>2. /\ \A k \in 1 .. B : /\ new[k].in = N + 1
                           /\ IsEnd(new[k]) => k = B
                           /\ ~ IsEnd(new[k]) => IsPart(o, new[k])
      /\ \A j, k \in 1 .. B : j < k /\ ~ IsEnd(new[j]) /\ ~ IsEnd(new[k]) =>
            PartBefore(KindOf(o), new[j], new[k])
      /\ \A k \in DOMAIN KeysOf(KindOf(o)) : \A nr \in DOMAIN At(o, KeysOf(KindOf(o))[k]) :
            \E b \in 1 .. B : new[b].key = KeysOf(KindOf(o))[k] /\ new[b].nr = nr
  BY Zenon DEF NewCalls
<1>3. ASSUME NEW i \in N + 2 .. N + 1 + B
      PROVE  /\ s2[i].in = N + 1
             /\ IsEnd(s2[i]) => i = N + 1 + B
             /\ ~ IsEnd(s2[i]) => IsPart(o, s2[i])
  <2>1. PICK k : k = i - (N + 1)
    OBVIOUS
  <2>2. k \in 1 .. B /\ s2[i] = Slot(new[k])
    BY <1>1, <2>1
  <2>3. k = B => i = N + 1 + B
    BY <2>1
  <2>4. (IsEnd(s2[i]) <=> IsEnd(new[k])) /\ s2[i].in = new[k].in
    BY <2>2, SlotFacts
  <2>5. IsPart(o, new[k]) => IsPart(o, s2[i])
    BY <2>2, SlotFacts
  <2>6. /\ new[k].in = N + 1
        /\ IsEnd(new[k]) => k = B
        /\ ~ IsEnd(new[k]) => IsPart(o, new[k])
    BY <1>2, <2>2
  <2> QED
    BY <2>3, <2>4, <2>5, <2>6
<1>4. ASSUME NEW i \in N + 2 .. N + 1 + B, NEW j \in N + 2 .. N + 1 + B,
             i < j, ~ IsEnd(s2[i]), ~ IsEnd(s2[j])
      PROVE  PartBefore(KindOf(o), s2[i], s2[j])
  <2>1. PICK k : k = i - (N + 1)
    OBVIOUS
  <2>2. PICK l : l = j - (N + 1)
    OBVIOUS
  <2>3. /\ k \in 1 .. B /\ s2[i] = Slot(new[k])
        /\ l \in 1 .. B /\ s2[j] = Slot(new[l])
    BY <1>1, <2>1, <2>2
  <2>4. k < l
    BY <1>4, <2>1, <2>2
  <2>5. ~ IsEnd(new[k]) /\ ~ IsEnd(new[l])
    BY <1>4, <2>3, SlotFacts
  <2>6. PartBefore(KindOf(o), new[k], new[l])
    BY <1>2, <2>3, <2>4, <2>5
  <2>7. PartBefore(KindOf(o), Slot(new[k]), Slot(new[l]))
    BY <2>6, SlotFacts, Zenon
  <2> QED
    BY <2>3, <2>7
<1>5. ASSUME NEW k \in DOMAIN KeysOf(KindOf(o)), NEW nr \in DOMAIN At(o, KeysOf(KindOf(o))[k])
      PROVE  \E i \in N + 2 .. N + 1 + B : s2[i].key = KeysOf(KindOf(o))[k] /\ s2[i].nr = nr
  <2>1. PICK b \in 1 .. B : new[b].key = KeysOf(KindOf(o))[k] /\ new[b].nr = nr
    BY <1>2, Zenon
  <2>2. PICK i : i = N + 1 + b
    OBVIOUS
  <2>3. i \in N + 2 .. N + 1 + B /\ s2[i] = Slot(new[b])
    BY <1>1, <2>2
  <2>4. s2[i].key = new[b].key /\ s2[i].nr = new[b].nr
    BY <2>3, SlotFacts
  <2> QED
    BY <2>1, <2>3, <2>4
<1>6. PICK K \in Nat : K = N + 1 + L /\ N < K
  OBVIOUS
<1>7. DOMAIN s = 1 .. K /\ DOMAIN s2 = 1 .. K + B
  BY <1>1, <1>6
<1>8. \A i \in 1 .. K : i > N + 1 => s2[i + B] = s[i]
  BY <1>1, <1>6
<1>9. \A i \in N + 2 .. N + 1 + B :
         /\ s2[i].in = N + 1
         /\ IsEnd(s2[i]) => i = N + 1 + B
         /\ ~ IsEnd(s2[i]) => IsPart(o, s2[i])
  BY <1>3, Zenon
<1>10. \A i, j \in N + 2 .. N + 1 + B :
          i < j /\ ~ IsEnd(s2[i]) /\ ~ IsEnd(s2[j]) => PartBefore(KindOf(o), s2[i], s2[j])
  BY <1>4, Zenon
<1>11. \A k \in DOMAIN KeysOf(KindOf(o)) : \A nr \in DOMAIN At(o, KeysOf(KindOf(o))[k]) :
          \E i \in N + 2 .. N + 1 + B : s2[i].key = KeysOf(KindOf(o))[k] /\ s2[i].nr = nr
  BY <1>5, Zenon
<1>12. \A i \in 1 .. N + 1 : s2[i] = s[i]
  BY <1>1, Zenon
<1> QED
  <2>1. IsLonger(s2, s, N, K, B, o)
    BY <1>6, <1>7, <1>8, <1>9, <1>10, <1>11, <1>12, Zenon DEF IsLonger
  <2> QED
    BY <2>1, PutBehind, Zenon

\* A node is written in full.
LEMMA TreeNode ==
    ASSUME prog \in DOMAIN Programs,
           NEW t, NEW refs, NEW next, NEW c, NEW rest, Cut(t, refs, next, c, rest),
           NEW s, NEW fs, TreeCut(t, refs, next, c, rest, s, fs),
           c.key # "end",
           NEW e \in Nodes, Full(e), e.of = c.of, Slot(e) = Slot(c), NodeFits(e),
           ~ IsField(c.of) => e.id = next,
           NEW last \in Seq(WalkCalls),
           IF IsField(c.of) THEN \E d : d.of = c.of /\ last = <<EndCall(d, Len(t) + 1)>>
                            ELSE last = <<>>,
           NEW new \in Seq(WalkCalls), new = CallsFor(c.of, Len(t) + 1) \o last,
           NEW refs2, DOMAIN refs2 \subseteq DOMAIN refs \cup {c.of}
    PROVE  IsTree(Append(t, e), refs2, next + 1, new \o rest, fs)
<1>1. /\ t \in Seq(Nodes) /\ next \in Nat /\ rest \in Seq(WalkCalls)
      /\ c.of \in DOMAIN Objects
  BY CutFacts
<1>2. PICK N \in Nat : N = Len(t)
  BY <1>1
<1>3. PICK L \in Nat : L = Len(rest)
  BY <1>1
<1>4. PICK B \in Nat : B = Len(new)
  OBVIOUS
<1>5. PICK t2 : t2 = Append(t, e)
  OBVIOUS
<1>6. PICK s2 : s2 = Slots(t2, new \o rest)
  OBVIOUS
<1>7. PICK o : o = c.of
  OBVIOUS
<1>8. OneMore(t2, t, N, e)
  BY <1>1, <1>2, <1>5, AppendNode, Zenon
<1>9. /\ Len(t2) = N + 1
      /\ \A n \in 1 .. N : t2[n] = t[n]
      /\ t2[N + 1] = e
      /\ FullNodes(t2) = FullNodes(t) \cup {N + 1}
      /\ FullNodes(t) \subseteq 1 .. N
  BY <1>8 DEF OneMore
<1>10. NewCalls(o, N + 1, new)
  BY <1>1, <1>2, <1>7, NewCallsAre, Zenon
<1>11. /\ HasSlots(s, t, c, rest)
       /\ IsOrder(s, N, FullNodes(t), fs)
       /\ IdsGrow(t, next) /\ FieldIds(t, next, s)
       /\ \A n \in 1 .. N : NodeFits(t[n])
       /\ \A k \in 1 .. L : CallFits(rest[k])
       /\ Written(t, refs)
  BY <1>2, <1>3, Zenon DEF TreeCut
<1>12. IsOrderWith(s, s2, t, N, B, new, L)
  BY <1>1, <1>2, <1>3, <1>4, <1>6, <1>8, <1>11, SlotsOfNode, Zenon
<1>13. s[N + 1] = Slot(c) /\ ~ IsEnd(s[N + 1]) /\ s[N + 1].of = o /\ s[N + 1].in = e.in
  <2>1. s[N + 1] = Slot(c)
    BY <1>2, <1>11 DEF HasSlots
  <2>2. Slot(c).in = e.in
    BY SlotFacts
  <2> QED
    BY <1>7, <2>1, <2>2, SlotFacts DEF IsEnd
<1>14. IsOrder(s2, N + 1, FullNodes(t2), fs)
  <2>1. IsOrder(s2, N + 1, FullNodes(t) \cup {N + 1}, fs)
    BY <1>4, <1>9, <1>10, <1>11, <1>12, <1>13, OrderOfNode, Zenon
  <2> QED
    BY <1>9, <2>1, Zenon
<1>15. /\ DOMAIN s = 1 .. N + 1 + L
       /\ DOMAIN s2 = (1 .. (N + 1 + L) + B)
       /\ \A i \in 1 .. N + 1 : s2[i] = s[i]
       /\ \A i \in 1 .. N + 1 + L : i > N + 1 => s2[i + B] = s[i]
       /\ \A i \in N + 2 .. N + 1 + B :
             i - (N + 1) \in 1 .. B /\ s2[i] = Slot(new[i - (N + 1)])
       /\ \A k \in 1 .. B : N + 1 + k \in N + 2 .. N + 1 + B /\ s2[N + 1 + k] = Slot(new[k])
  BY <1>12, Zenon DEF IsOrderWith
<1>24. N + 1 \in DOMAIN s
  BY <1>15
<1>25. \A i \in 1 .. N + 1 : i \in DOMAIN s2
  BY <1>15
<1>26. \A i \in N + 2 .. N + 1 + B : i \in DOMAIN s2
  BY <1>15
<1>27. \A i \in 1 .. N + 1 + L : i > N + 1 => i + B \in DOMAIN s2
  BY <1>15
<1>16. ASSUME NEW f \in 1 .. N, HasEnded(s2, f) PROVE HasEnded(s, f)
  <2> SUFFICES ASSUME NEW i \in 1 .. N + 1 + L, IsEnd(s[i]) PROVE s[i].in # f
    BY <1>15 DEF HasEnded
  <2>1. CASE i \in 1 .. N + 1
    <3>1. i \in DOMAIN s2 /\ s2[i] = s[i]
      BY <1>15, <1>25, <2>1
    <3> QED
      BY <1>16, <3>1 DEF HasEnded
  <2>2. CASE i > N + 1
    <3>1. i + B \in DOMAIN s2 /\ s2[i + B] = s[i]
      BY <1>15, <1>27, <2>2
    <3> QED
      BY <1>16, <3>1 DEF HasEnded
  <2> QED
    BY <2>1, <2>2
<1>17. ASSUME IsField(e.of) PROVE ~ HasEnded(s2, N + 1)
  <2>1. PICK b \in 1 .. B : IsEnd(new[b])
    BY <1>4, <1>7, <1>10, <1>17 DEF NewCalls
  <2>2. new[b].in = N + 1
    BY <1>4, <1>10 DEF NewCalls
  <2>3. PICK i : i = N + 1 + b
    OBVIOUS
  <2>4. i \in DOMAIN s2 /\ s2[i] = Slot(new[b])
    BY <1>15, <1>26, <2>3
  <2>5. IsEnd(s2[i]) /\ s2[i].in = N + 1
    BY <2>1, <2>2, <2>4, SlotFacts
  <2> QED
    BY <2>4, <2>5 DEF HasEnded
<1>18. HasIds(t, next)
  <2>1. \A n \in 1 .. Len(t) : t[n] \in Nodes
    BY <1>1
  <2> QED
    BY <1>1, <1>2, <2>1 DEF HasIds, Nodes
<1>19. IdsGrow(t2, next + 1) /\ FieldIds(t2, next + 1, s2)
  <2>1. ~ IsField(e.of) => e.id = next
    OBVIOUS
  <2> QED
    BY <1>2, <1>9, <1>11, <1>13, <1>15, <1>16, <1>17, <1>18, <1>24, <2>1, IdsAfterNode
<1>20. /\ \A n \in 1 .. Len(t2) : NodeFits(t2[n])
       /\ Written(t2, refs2)
  <2>1. DOMAIN refs2 \subseteq DOMAIN refs \cup (IF Full(e) THEN {e.of} ELSE {})
    OBVIOUS
  <2> QED
    BY <1>1, <1>2, <1>5, <1>11, <2>1, FitsStay
<1>21. PICK cs : cs = new \o rest
  OBVIOUS
<1>22. \A k \in 1 .. Len(cs) : CallFits(cs[k])
  <2>1. \A k \in 1 .. B : CallFits(new[k])
    BY <1>4, <1>10 DEF NewCalls
  <2>2. /\ Len(cs) = B + L
        /\ \A k \in 1 .. B : cs[k] = new[k]
        /\ \A k \in 1 .. L : cs[k + B] = rest[k]
    BY <1>1, <1>3, <1>4, <1>21, ConcatFacts
  <2>3. ASSUME NEW k \in 1 .. B + L PROVE CallFits(cs[k])
    <3>1. CASE k \in 1 .. B
      BY <2>1, <2>2, <3>1
    <3>2. CASE k \notin 1 .. B
      <4>1. k - B \in 1 .. L /\ (k - B) + B = k
        BY <3>2
      <4>2. cs[k] = rest[k - B]
        BY <2>2, <4>1
      <4> QED
        BY <1>11, <4>1, <4>2
    <3> QED
      BY <3>1, <3>2
  <2> QED
    BY <2>2, <2>3
<1>23. IsTree(t2, refs2, next + 1, cs, fs)
  BY <1>6, <1>9, <1>14, <1>19, <1>20, <1>21, <1>22, Zenon DEF IsTree
<1> QED
  BY <1>5, <1>21, <1>23

\* t2 is t with another id at k.
OtherId(t2, t, N, k, id) ==
    /\ Len(t2) = N
    /\ \A n \in 1 .. N : n # k => t2[n] = t[n]
    /\ t2[k].id = id /\ t2[k].kind = t[k].kind /\ t2[k].linkId = t[k].linkId
    /\ Slot(t2[k]) = Slot(t[k])

LEMMA IdIsSet ==
    ASSUME NEW t \in Seq(Nodes), NEW N, N = Len(t), NEW k \in 1 .. N, NEW id
    PROVE  OtherId([t EXCEPT ![k].id = id], t, N, k, id)
<1>1. PICK e : e = [t[k] EXCEPT !.id = id]
  OBVIOUS
<1>2. t[k] \in Nodes
  OBVIOUS
<1>3. e.id = id /\ e.kind = t[k].kind /\ e.linkId = t[k].linkId /\ Slot(e) = Slot(t[k])
  BY <1>1, <1>2 DEF Nodes, Slot
<1>4. PICK t2 : t2 = [t EXCEPT ![k] = e]
  OBVIOUS
<1>5. Len(t2) = N /\ \A n \in 1 .. N : n # k => t2[n] = t[n]
  BY <1>4
<1>6. t2[k] = e
  BY <1>4
<1>7. OtherId(t2, t, N, k, id)
  BY <1>3, <1>5, <1>6, Zenon DEF OtherId
<1> QED
  BY <1>1, <1>4, <1>7

\* What stays when an id is set.
LEMMA OtherIdFacts ==
    ASSUME NEW t, NEW N, N = Len(t), NEW k \in 1 .. N, NEW id,
           NEW t2, OtherId(t2, t, N, k, id)
    PROVE  /\ Len(t2) = N
           /\ \A n \in 1 .. N : /\ Slot(t2[n]) = Slot(t[n]) /\ t2[n].of = t[n].of
                                /\ Full(t2[n]) <=> Full(t[n])
                                /\ NodeFits(t2[n]) <=> NodeFits(t[n])
           /\ FullNodes(t2) = FullNodes(t)
<1>1. /\ Len(t2) = N
      /\ \A n \in 1 .. N : n # k => t2[n] = t[n]
      /\ t2[k].kind = t[k].kind /\ t2[k].linkId = t[k].linkId
      /\ Slot(t2[k]) = Slot(t[k])
  BY DEF OtherId
<1>2. t2[k].of = t[k].of
  <2>1. Slot(t2[k]).of = t2[k].of /\ Slot(t[k]).of = t[k].of
    BY SlotFacts
  <2> QED
    BY <1>1, <2>1
<1>3. Full(t2[k]) <=> Full(t[k])
  BY <1>1 DEF Full
<1>4. NodeFits(t2[k]) <=> NodeFits(t[k])
  BY <1>1, <1>2, <1>3 DEF NodeFits
<1>5. ASSUME NEW n \in 1 .. N
      PROVE  /\ Slot(t2[n]) = Slot(t[n]) /\ t2[n].of = t[n].of
             /\ Full(t2[n]) <=> Full(t[n])
             /\ NodeFits(t2[n]) <=> NodeFits(t[n])
  <2>1. CASE n = k
    BY <1>1, <1>2, <1>3, <1>4, <2>1
  <2>2. CASE n # k
    BY <1>1, <2>2
  <2> QED
    BY <2>1, <2>2
<1>6. FullNodes(t2) = FullNodes(t)
  BY <1>1, <1>5 DEF FullNodes
<1> QED
  BY <1>1, <1>5, <1>6

\* A field ends.
LEMMA TreeEnd ==
    ASSUME NEW t, NEW refs, NEW next, NEW c, NEW rest, Cut(t, refs, next, c, rest),
           NEW s, NEW fs, TreeCut(t, refs, next, c, rest, s, fs),
           IsEndCall(c)
    PROVE  IsTree([t EXCEPT ![c.in].id = next], With(refs, c.of, next), next, rest, fs)
<1>1. /\ t \in Seq(Nodes) /\ next \in Nat /\ rest \in Seq(WalkCalls) /\ CallOk(t, refs, c)
  BY CutFacts, Zenon
<1>2. PICK N \in Nat : N = Len(t)
  BY <1>1
<1>3. PICK L \in Nat : L = Len(rest)
  BY <1>1
<1>4. PICK k : k = c.in
  OBVIOUS
<1>5. k \in 1 .. N /\ t[k].of = c.of /\ IsField(c.of) /\ IsEnd(c)
  BY <1>1, <1>2, <1>4 DEF CallOk, IsEndCall, IsEnd
<1>6. PICK t2 : t2 = [t EXCEPT ![k].id = next]
  OBVIOUS
<1>7. OtherId(t2, t, N, k, next)
  BY <1>1, <1>2, <1>5, <1>6, IdIsSet
<1>8. /\ Len(t2) = N
      /\ \A n \in 1 .. N : /\ Slot(t2[n]) = Slot(t[n]) /\ t2[n].of = t[n].of
                           /\ Full(t2[n]) <=> Full(t[n])
                           /\ NodeFits(t2[n]) <=> NodeFits(t[n])
      /\ FullNodes(t2) = FullNodes(t)
  BY <1>2, <1>5, <1>7, OtherIdFacts
<1>9. /\ s = [i \in 1 .. N + 1 + L |-> s[i]]
      /\ \A i \in 1 .. N : s[i] = Slot(t[i])
      /\ s[N + 1] = Slot(c)
      /\ \A j \in 1 .. L : s[N + 1 + j] = Slot(rest[j])
      /\ IsOrder(s, N, FullNodes(t), fs)
      /\ IdsGrow(t, next) /\ FieldIds(t, next, s)
      /\ \A n \in 1 .. N : NodeFits(t[n])
      /\ \A j \in 1 .. L : CallFits(rest[j])
      /\ Written(t, refs)
  BY <1>2, <1>3, Zenon DEF TreeCut, HasSlots
<1>10. PICK s2 : s2 = Slots(t2, rest)
  OBVIOUS
<1>11. s2 = [i \in 1 .. N + L |-> IF i <= N THEN Slot(t2[i]) ELSE Slot(rest[i - N])]
  BY <1>3, <1>8, <1>10 DEF Slots
<1>12. PICK K \in Nat : K = N + 1 + L /\ K - 1 = N + L
  OBVIOUS
<1>13. IsWithout(s2, s, N, K)
  <2>1. N < K /\ DOMAIN s = 1 .. K /\ DOMAIN s2 = 1 .. K - 1
    BY <1>9, <1>11, <1>12
  <2>2. ASSUME NEW i \in 1 .. N PROVE s2[i] = s[i]
    <3>1. i \in 1 .. N + L /\ i <= N
      OBVIOUS
    <3>2. s2[i] = Slot(t2[i])
      BY <1>11, <3>1
    <3> QED
      BY <1>8, <1>9, <3>2
  <2>3. ASSUME NEW i \in 1 .. K - 1, i > N PROVE s2[i] = s[i + 1]
    <3>1. PICK j : j = i - N
      OBVIOUS
    <3>2. j \in 1 .. L /\ N + 1 + j = i + 1 /\ i \in 1 .. N + L /\ ~ (i <= N)
      BY <1>12, <2>3, <3>1
    <3>3. s2[i] = Slot(rest[j])
      BY <1>11, <3>1, <3>2
    <3> QED
      BY <1>9, <3>2, <3>3
  <2> QED
    BY <2>1, <2>2, <2>3, Zenon DEF IsWithout
<1>14. s[N + 1] = Slot(c) /\ IsEnd(s[N + 1]) /\ s[N + 1].in = k
  BY <1>4, <1>5, <1>9, SlotFacts DEF IsEnd
<1>15. IsOrder(s2, N, FullNodes(t2), fs)
  <2>1. FullNodes(t) \subseteq 1 .. N
    BY <1>2 DEF FullNodes
  <2>2. IsOrder(s2, N, FullNodes(t), fs)
    BY <1>9, <1>13, <1>14, <2>1, TakeAway, Zenon
  <2> QED
    BY <1>8, <2>2, Zenon
<1>16. IdsGrow(t2, next) /\ FieldIds(t2, next, s2)
  <2>1. HasIds(t, next)
    <3>1. \A n \in 1 .. Len(t) : t[n] \in Nodes
      BY <1>1
    <3> QED
      BY <1>1, <1>2, <3>1 DEF HasIds, Nodes
  <2>2. IsShorter(s2, s, N, K)
    BY <1>13, OneIsGone, Zenon
  <2>3. DOMAIN s = 1 .. K /\ DOMAIN s2 = 1 .. K - 1 /\ N + 1 \in DOMAIN s
    BY <1>9, <1>11, <1>12
  <2>4. \A i \in DOMAIN s2 : i > N => \E j \in DOMAIN s : N + 1 < j /\ s2[i] = s[j]
    <3> SUFFICES ASSUME NEW i \in 1 .. K - 1, i > N
                 PROVE  \E j \in 1 .. K : N + 1 < j /\ s2[i] = s[j]
      BY <2>3
    <3>1. i + 1 \in 1 .. K /\ i + 1 > N + 1 /\ i \notin 1 .. N
      OBVIOUS
    <3>2. s2[i] = s[i + 1]
      BY <2>2, <3>1 DEF IsShorter
    <3> QED
      BY <3>1, <3>2
  <2>5. \A i \in DOMAIN s : i # N + 1 => \E j \in DOMAIN s2 : s2[j] = s[i]
    BY <2>2, <2>3, Zenon DEF IsShorter
  <2>6. \A j \in DOMAIN s : j \in Nat
    BY <2>3
  <2>7. EndsLast(s, N)
    BY <1>9 DEF IsOrder
  <2>8. /\ Len(t2) = N /\ t2[k].id = next /\ t2[k].of = t[k].of /\ IsField(t[k].of)
        /\ \A n \in 1 .. N : n # k => t2[n] = t[n]
    BY <1>5, <1>7, <1>8 DEF OtherId
  <2> QED
    <3>1. IsEnded(t2, s2, t, s, N, k, next)
      BY <1>2, <1>5, <1>14, <2>1, <2>3, <2>4, <2>5, <2>6, <2>7, <2>8, Zenon DEF IsEnded
    <3> QED
      BY <1>9, <3>1, IdsAfterEnd, Zenon
<1>17. PICK refs2 : refs2 = With(refs, c.of, next)
  OBVIOUS
<1>18. Written(t2, refs2)
  <2> SUFFICES ASSUME NEW o \in DOMAIN refs2, ~ IsField(o)
               PROVE  \E m \in 1 .. N : Full(t2[m]) /\ t2[m].of = o
    BY <1>8 DEF Written
  <2>1. o \in DOMAIN refs
    <3>1. o # c.of
      BY <1>5
    <3>2. DOMAIN refs2 = DOMAIN refs \cup {c.of}
      BY <1>17 DEF With
    <3> QED
      BY <3>1, <3>2
  <2>2. PICK m \in 1 .. N : Full(t[m]) /\ t[m].of = o
    BY <1>2, <1>9, <2>1 DEF Written
  <2> QED
    BY <1>8, <2>2
<1>19. \A n \in 1 .. Len(t2) : NodeFits(t2[n])
  BY <1>8, <1>9
<1>20. IsTree(t2, refs2, next, rest, fs)
  BY <1>3, <1>8, <1>9, <1>10, <1>15, <1>16, <1>18, <1>19, Zenon DEF IsTree
<1> QED
  BY <1>4, <1>6, <1>17, <1>20

\* A function is called at the top.
LEMMA TreeTop ==
    ASSUME NEW t \in Seq(Nodes), NEW refs, NEW next, NEW fs, IsTree(t, refs, next, <<>>, fs),
           IsFiniteSet(fs), NEW f, f \notin fs, KindOf(f) = "Function",
           NEW c, c.encode = "encodeFunction", c.of = f, c.in = NoNode, c.key = "top",
           c.nr = Cardinality(fs) + 1
    PROVE  IsTree(t, refs, next, <<c>>, fs \cup {f})
<1>1. PICK N \in Nat : N = Len(t)
  OBVIOUS
<1>2. PICK s : s = Slots(t, <<>>)
  OBVIOUS
<1>3. PICK s2 : s2 = Slots(t, <<c>>)
  OBVIOUS
<1>4. s = [i \in 1 .. N |-> Slot(t[i])]
  <2>1. s = [i \in 1 .. N + 0 |-> IF i <= N THEN Slot(t[i]) ELSE Slot(<<>>[i - N])]
    BY <1>1, <1>2 DEF Slots
  <2>2. 1 .. N + 0 = 1 .. N /\ \A i \in 1 .. N : i <= N
    OBVIOUS
  <2> QED
    BY <2>1, <2>2
<1>5. s2 = [i \in 1 .. N + 1 |-> IF i <= N THEN Slot(t[i]) ELSE Slot(<<c>>[i - N])]
  BY <1>1, <1>3 DEF Slots
<1>6. DOMAIN s2 = 1 .. N + 1 /\ \A i \in 1 .. N : s2[i] = s[i]
  BY <1>4, <1>5
<1>7. s2[N + 1] = Slot(c)
  <2>1. N + 1 \in 1 .. N + 1 /\ ~ (N + 1 <= N) /\ (N + 1) - N = 1
    OBVIOUS
  <2>2. s2[N + 1] = Slot(<<c>>[1])
    BY <1>5, <2>1
  <2> QED
    BY <2>2
<1>8. /\ s2[N + 1].in = NoNode /\ s2[N + 1].key = "top" /\ s2[N + 1].of = f
      /\ s2[N + 1].nr = Cardinality(fs) + 1
  BY <1>7, SlotFacts
<1>9. PICK fs2 : fs2 = fs \cup {f}
  OBVIOUS
<1>10. Cardinality(fs) \in Nat /\ Cardinality(fs2) = Cardinality(fs) + 1
  BY <1>9, FS_AddElement, FS_CardinalityType
<1>11. /\ IsOrder(s, N, FullNodes(t), fs)
       /\ IdsGrow(t, next) /\ FieldIds(t, next, s)
       /\ \A n \in 1 .. Len(t) : NodeFits(t[n])
       /\ Written(t, refs)
  BY <1>1, <1>2, Zenon DEF IsTree
<1>12. DOMAIN s = 1 .. N /\ FullNodes(t) \subseteq 1 .. N
  BY <1>1, <1>4 DEF FullNodes
<1>13. IsOrder(s2, N, FullNodes(t), fs2)
  BY <1>6, <1>8, <1>9, <1>10, <1>11, <1>12, PutAtEnd
<1>14. FieldIds(t, next, s2)
  BY <1>1, <1>6, <1>8, <1>11, <1>12, IdsAfterTop
<1>15. CallFits(c)
  BY DEF CallFits, Takes
<1>16. PICK cs : cs = <<c>>
  OBVIOUS
<1>17. \A k \in 1 .. Len(cs) : CallFits(cs[k])
  BY <1>15, <1>16
<1>18. IsTree(t, refs, next, cs, fs2)
  BY <1>1, <1>3, <1>11, <1>13, <1>14, <1>16, <1>17, Zenon DEF IsTree
<1> QED
  BY <1>9, <1>16, <1>18

-----------------------------------------------------------------------------

(* Every step of the encoder keeps the order *)

LEMMA TreeAfter ==
    ASSUME prog' = prog,
           IsTree(tree', nodeRefs', nodeIDCounter', calls', Programs[prog].functions \ todo')
    PROVE  TreeInv'
<1>1. Objects' = Objects
  BY DEF Objects
<1>2. \A o : KindOf(o)' = KindOf(o)
  BY <1>1 DEF KindOf
<1>3. \A o, key : At(o, key)' = At(o, key)
  BY <1>1 DEF At
<1>4. \A o : IsField(o)' <=> IsField(o)
  BY <1>2 DEF IsField
<1>5. \A o, x : IsPart(o, x)' <=> IsPart(o, x)
  BY <1>2, <1>3 DEF IsPart
<1>6. \A s, x, y : Before(s, x, y)' <=> Before(s, x, y)
  BY <1>2 DEF Before
<1>7. \A s, full, fs, x : IsPartOf(s, full, fs, x)' <=> IsPartOf(s, full, fs, x)
  BY <1>5 DEF IsPartOf
<1>8. \A s, full, fs : PartsOnly(s, full, fs) => PartsOnly(s, full, fs)'
  BY <1>7 DEF PartsOnly
<1>9. \A s : InOrder(s) => InOrder(s)'
  BY <1>6 DEF InOrder
<1>10. \A s, full : AllParts(s, full) => AllParts(s, full)'
  BY <1>2, <1>3 DEF AllParts
<1>11. \A s, N, full, fs : IsOrder(s, N, full, fs) => IsOrder(s, N, full, fs)'
  BY <1>8, <1>9, <1>10 DEF IsOrder
<1>12. \A t, next : IdsGrow(t, next) => IdsGrow(t, next)'
  BY <1>4 DEF IdsGrow
<1>13. \A t, next, s : FieldIds(t, next, s) => FieldIds(t, next, s)'
  BY <1>4 DEF FieldIds
<1>14. \A o : HasLowOrMax(o)' <=> HasLowOrMax(o)
  BY <1>2, <1>3 DEF HasLowOrMax
<1>15. \A node : NodeFits(node) => NodeFits(node)'
  BY <1>2, <1>14 DEF NodeFits
<1>16. \A c : CallFits(c) => CallFits(c)'
  BY <1>2 DEF CallFits
<1>17. \A t, refs : Written(t, refs) => Written(t, refs)'
  BY <1>4 DEF Written
<1>18. \A t, refs, next, cs, fs :
          IsTree(t, refs, next, cs, fs) => IsTree(t, refs, next, cs, fs)'
  BY <1>11, <1>12, <1>13, <1>15, <1>16, <1>17 DEF IsTree
<1> QED
  BY <1>18 DEF TreeInv

LEMMA InitTree == Init => TreeInv
<1> SUFFICES ASSUME Init PROVE TreeInv
  OBVIOUS
<1> USE DEF Init
<1>1. PICK s : s = Slots(<<>>, <<>>)
  OBVIOUS
<1>2. DOMAIN s = {} /\ 1 .. Len(<<>>) = {}
  BY <1>1 DEF Slots
<1>3. FullNodes(<<>>) = {}
  BY <1>2 DEF FullNodes
<1>4. Programs[prog].functions \ todo = {} /\ Cardinality({}) = 0 /\ 1 .. 0 = {}
  BY FS_EmptySet
<1>5. IsOrder(s, 0, {}, {})
  BY <1>2, <1>4 DEF IsOrder, Inside, Nested, EndsLast, PartsOnly, InOrder, AllParts, AllTops
<1>6. IdsGrow(<<>>, 1) /\ FieldIds(<<>>, 1, s)
  BY <1>2 DEF IdsGrow, FieldIds
<1>7. Written(<<>>, <<>>)
  BY <1>2 DEF Written
<1>8. IsTree(<<>>, <<>>, 1, <<>>, {})
  <2>1. Len(<<>>) = 0
    OBVIOUS
  <2> QED
    BY <1>1, <1>2, <1>3, <1>5, <1>6, <1>7, <2>1 DEF IsTree
<1> QED
  BY <1>4, <1>8 DEF TreeInv

\* Which link, and which node, the functions write.
LEMMA EncoderFits ==
    ASSUME NEW c, CallFits(c), NEW kind, kind = KindOf(c.of), c.encode # "encodeFuncType"
    PROVE  /\ Encoder(c) = "encodeFunction"  => LinkFits("LinkToNode", kind) /\ kind # "Slice"
           /\ Encoder(c) = "encodeParameter" => LinkFits("LinkToParam", kind) /\ kind # "Slice"
           /\ Encoder(c) = "encodeBlock"     => LinkFits("LinkToBlock", kind) /\ kind # "Slice"
           /\ Encoder(c) = "encodeFuncType"  => LinkFits("LinkToFunc", kind) /\ kind # "Slice"
           /\ Encoder(c) = "encodeType"      => LinkFits("LinkToType", kind) /\ kind # "Slice"
           /\ Encoder(c) = "encodeNode"      => LinkFits("LinkToNode", kind)
<1>1. /\ c.encode = "encodeFunction" => kind = "Function"
      /\ c.encode = "encodeParameter" => kind = "Parameter"
      /\ c.encode = "encodeBlock" => kind = "BasicBlock"
      /\ c.encode = "encodeType" => kind \in TypeKinds
  BY DEF CallFits, Takes
<1>2. /\ Encoder(c) = "encodeFunction" => kind = "Function"
      /\ Encoder(c) = "encodeParameter" => kind = "Parameter"
      /\ Encoder(c) = "encodeBlock" => kind = "BasicBlock"
      /\ Encoder(c) = "encodeFuncType" => kind = "Func"
      /\ Encoder(c) = "encodeType" => kind \in TypeKinds
      /\ Encoder(c) = "encodeNode" =>
            kind \notin TypeKinds \cup {"Function", "BasicBlock", "Func"}
  <2>1. CASE c.encode # "encodeNode"
    BY <1>1, <2>1 DEF Encoder
  <2>2. CASE c.encode = "encodeNode"
    BY <2>2 DEF Encoder
  <2> QED
    BY <2>1, <2>2
<1>3. /\ LinkFits("LinkToNode", "Function") /\ LinkFits("LinkToParam", "Parameter")
      /\ LinkFits("LinkToBlock", "BasicBlock") /\ LinkFits("LinkToFunc", "Func")
  BY DEF LinkFits, LinkKinds, TypeKinds
<1>4. kind \in TypeKinds => LinkFits("LinkToType", kind) /\ kind # "Slice"
  BY DEF LinkFits, LinkKinds, TypeKinds
<1>5. kind \notin TypeKinds \cup {"Func"} => LinkFits("LinkToNode", kind)
  BY DEF LinkFits, LinkKinds
<1> QED
  BY <1>2, <1>3, <1>4, <1>5

\* What a step of the encoder starts from.
LEMMA EncodesTree ==
    ASSUME WalkInv, TreeInv, NEW function, Encodes(function),
           NEW fs, fs = Programs[prog].functions \ todo
    PROVE  /\ Cut(tree, nodeRefs, nodeIDCounter, Head(calls), Tail(calls))
           /\ TreeCut(tree, nodeRefs, nodeIDCounter, Head(calls), Tail(calls),
                      Slots(tree, calls), fs)
           /\ prog' = prog /\ prog \in DOMAIN Programs
           /\ fs = Programs[prog].functions \ todo'
<1>1. calls # <<>> /\ todo' = todo /\ prog' = prog
  BY DEF Encodes
<1>2. tree \in Seq(Nodes) /\ calls \in Seq(WalkCalls) /\ prog \in DOMAIN Programs
  BY DEF WalkInv, IsWalk
<1>3. IsTree(tree, nodeRefs, nodeIDCounter, calls, fs)
  BY DEF TreeInv
<1>4. TreeCut(tree, nodeRefs, nodeIDCounter, Head(calls), Tail(calls), Slots(tree, calls), fs)
  BY <1>1, <1>2, <1>3, TreeIsCut, Zenon
<1> QED
  BY <1>1, <1>2, <1>4, EncodesFacts

LEMMA LinkTree ==
    ASSUME WalkInv, TreeInv, NEW function, function \notin {"field", "end of field"},
           Encodes(function),
           NEW kind \in NodeKinds, LinkFits(kind, KindOf(Head(calls).of)), Link(kind)
    PROVE  TreeInv'
<1>1. PICK fs : fs = Programs[prog].functions \ todo
  OBVIOUS
<1>2. /\ Cut(tree, nodeRefs, nodeIDCounter, Head(calls), Tail(calls))
      /\ TreeCut(tree, nodeRefs, nodeIDCounter, Head(calls), Tail(calls),
                 Slots(tree, calls), fs)
      /\ prog' = prog /\ fs = Programs[prog].functions \ todo'
  BY <1>1, EncodesTree, Zenon
<1>3. IsWrite(Head(calls))
  <2>1. Encoder(Head(calls)) = function
    BY EncodesFacts, Zenon
  <2> QED
    BY <2>1, EncoderFacts, Zenon
<1>4. Mentioned(nodeRefs, Head(calls))
  BY DEF Link, Mentioned
<1>5. IsTree(Append(tree, Node(nodeIDCounter, kind, nodeRefs[Head(calls).of], Head(calls))),
             nodeRefs, nodeIDCounter + 1, Tail(calls), fs)
  BY <1>2, <1>3, <1>4, TreeLink, Zenon
<1>6. IsTree(tree', nodeRefs', nodeIDCounter', calls', fs)
  BY <1>5, Zenon DEF Link
<1> QED
  BY <1>2, <1>6, TreeAfter, Zenon

LEMMA CallsForWalk ==
    ASSUME prog \in DOMAIN Programs, NEW o \in DOMAIN Objects, NEW n \in Nat,
           NEW new, new = CallsFor(o, n)
    PROVE  new \in Seq(WalkCalls)
<1>1. CASE KindOf(o) # "Struct"
  <2>1. new \in Seq(PartsAt(n))
    BY <1>1, CallsForParts
  <2>2. PartsAt(n) \subseteq WalkCalls
    BY DEF PartsAt, WalkCalls
  <2> QED
    BY <2>1, <2>2, SeqOfMore
<1>2. CASE KindOf(o) = "Struct"
  <2>1. new = [i \in DOMAIN At(o, "fields") |-> FieldCall(o, i, n)]
    BY <1>2, CallsForFields
  <2>2. PICK fields : fields = At(o, "fields")
    OBVIOUS
  <2>3. fields \in Seq(DOMAIN Objects)
    BY <2>2, ObjectFacts, Zenon
  <2>4. PICK m \in Nat :
           DOMAIN fields = 1 .. m /\ \A i \in 1 .. m : fields[i] \in DOMAIN Objects
    BY <2>3
  <2>5. \A i \in 1 .. m : FieldCall(o, i, n) \in WalkCalls
    <3>1. "fields" \in Keys
      BY DEF Keys
    <3> QED
      BY <2>2, <2>4, <3>1 DEF FieldCall, WalkCalls
  <2> QED
    BY <2>1, <2>2, <2>4, <2>5
<1> QED
  BY <1>1, <1>2

IsNewNode(e, id, kind, c) ==
    /\ e \in Nodes /\ Full(e) /\ e.of = c.of /\ Slot(e) = Slot(c)
    /\ e.id = id /\ e.kind = kind

LEMMA NothingBehind ==
    ASSUME NEW S, NEW q \in Seq(S)
    PROVE  q = q \o <<>>
OBVIOUS

LEMMA NodeFacts ==
    ASSUME NEW id \in Nat, NEW kind \in NodeKinds, NEW c \in WalkCalls, c.key # "end",
           NEW e, e = Node(id, kind, NoNode, c)
    PROVE  IsNewNode(e, id, kind, c)
<1>1. NoNode \in Nat
  BY DEF NoNode
<1>2. e \in Nodes
  BY <1>1, NodeIsNode
<1> QED
  BY <1>2 DEF Full, Slot, Node, IsNewNode

IsNoField(function) == function \notin {"field", "end of field"}

NoLowOrMax == ~ HasLowOrMax(Head(calls).of)

LEMMA FirstMentionTree ==
    ASSUME WalkInv, TreeInv, NEW function, IsNoField(function),
           Encodes(function), NoLowOrMax, FirstMention
    PROVE  TreeInv'
<1>1. PICK fs : fs = Programs[prog].functions \ todo
  OBVIOUS
<1>2. PICK c : c = Head(calls)
  OBVIOUS
<1>3. /\ Cut(tree, nodeRefs, nodeIDCounter, c, Tail(calls))
      /\ TreeCut(tree, nodeRefs, nodeIDCounter, c, Tail(calls), Slots(tree, calls), fs)
      /\ prog' = prog /\ prog \in DOMAIN Programs /\ fs = Programs[prog].functions \ todo'
  BY <1>1, <1>2, EncodesTree, Zenon
<1>4. IsWrite(c) /\ ~ Mentioned(nodeRefs, c)
  <2>1. Encoder(c) = function
    BY <1>2, EncodesFacts, Zenon
  <2>2. ~ Mentioned(nodeRefs, c)
    BY <1>2 DEF FirstMention, Mentioned
  <2> QED
    BY <2>1, <2>2, EncoderFacts, Zenon DEF IsNoField
<1>5. /\ nodeIDCounter \in Nat /\ Tail(calls) \in Seq(WalkCalls) /\ c \in WalkCalls
      /\ CallOk(tree, nodeRefs, c) /\ c.of \in DOMAIN Objects /\ Len(tree) \in Nat
  BY <1>3, CutFacts
<1>6. ~ IsField(c.of) /\ c.key # "end" /\ KindOf(c.of) \in NodeKinds
  BY <1>4, <1>5 DEF CallOk, IsWrite, NodeKinds
<1>7. PICK e : e = Node(nodeIDCounter, KindOf(c.of), NoNode, c)
  OBVIOUS
<1>8. /\ e \in Nodes /\ Full(e) /\ e.of = c.of /\ Slot(e) = Slot(c)
      /\ e.id = nodeIDCounter /\ e.kind = KindOf(c.of)
  <2>1. IsNewNode(e, nodeIDCounter, KindOf(c.of), c)
    BY <1>5, <1>6, <1>7, NodeFacts
  <2> QED
    BY <2>1 DEF IsNewNode
<1>9. NodeFits(e)
  BY <1>2, <1>8 DEF NodeFits, NoLowOrMax
<1>10. PICK new : new = CallsFor(c.of, Len(tree) + 1)
  OBVIOUS
<1>11. new \in Seq(WalkCalls)
  <2>1. Len(tree) + 1 \in Nat
    BY <1>5
  <2> QED
    BY <1>3, <1>5, <1>10, <2>1, CallsForWalk
<1>12. new = CallsFor(c.of, Len(tree) + 1) \o <<>> /\ <<>> \in Seq(WalkCalls)
  <2>1. new = new \o <<>>
    BY <1>11, NothingBehind
  <2>2. <<>> \in Seq(WalkCalls)
    OBVIOUS
  <2> QED
    BY <1>10, <2>1, <2>2, Zenon
<1>13. PICK refs2 : refs2 = With(nodeRefs, c.of, nodeIDCounter)
  OBVIOUS
<1>14. DOMAIN refs2 \subseteq DOMAIN nodeRefs \cup {c.of}
  BY <1>13 DEF With
<1>15. IsTree(Append(tree, e), refs2, nodeIDCounter + 1, new \o Tail(calls), fs)
  <2>1. PICK last : last = <<>>
    OBVIOUS
  <2>2. last \in Seq(WalkCalls) /\ new = CallsFor(c.of, Len(tree) + 1) \o last
    BY <1>12, <2>1
  <2>3. IF IsField(c.of) THEN \E d : d.of = c.of /\ last = <<EndCall(d, Len(tree) + 1)>>
                         ELSE last = <<>>
    BY <1>6, <2>1
  <2>4. ~ IsField(c.of) => e.id = nodeIDCounter
    BY <1>8
  <2> QED
    BY <1>3, <1>6, <1>8, <1>9, <1>11, <1>14, <2>2, <2>3, <2>4, TreeNode, Zenon
<1>16. nodeRefs' = With(nodeRefs, Head(calls).of, nodeIDCounter)
  BY Zenon DEF FirstMention, SetRef, WithRef, With
<1>17. IsTree(tree', nodeRefs', nodeIDCounter', calls', fs)
  BY <1>2, <1>7, <1>10, <1>13, <1>15, <1>16, Zenon DEF FirstMention
<1> QED
  BY <1>3, <1>17, TreeAfter, Zenon

LEMMA FieldTree ==
    ASSUME WalkInv, TreeInv, EncodeField
    PROVE  TreeInv'
<1>0. Encodes("field")
  BY DEF EncodeField
<1>1. PICK fs : fs = Programs[prog].functions \ todo
  OBVIOUS
<1>2. PICK c : c = Head(calls)
  OBVIOUS
<1>3. /\ Cut(tree, nodeRefs, nodeIDCounter, c, Tail(calls))
      /\ TreeCut(tree, nodeRefs, nodeIDCounter, c, Tail(calls), Slots(tree, calls), fs)
      /\ prog' = prog /\ prog \in DOMAIN Programs /\ fs = Programs[prog].functions \ todo'
  BY <1>0, <1>1, <1>2, EncodesTree, Zenon
<1>4. IsFieldCall(c)
  <2>1. Encoder(c) = "field"
    BY <1>0, <1>2, EncodesFacts, Zenon
  <2> QED
    BY <2>1, EncoderFacts, Zenon
<1>5. /\ nodeIDCounter \in Nat /\ Tail(calls) \in Seq(WalkCalls) /\ c \in WalkCalls
      /\ CallOk(tree, nodeRefs, c) /\ c.of \in DOMAIN Objects /\ Len(tree) \in Nat
  BY <1>3, CutFacts
<1>6. IsField(c.of) /\ c.key # "end" /\ "Field" \in NodeKinds
  BY <1>4, <1>5 DEF CallOk, IsFieldCall, NodeKinds
<1>7. PICK e : e = Node(nodeIDCounter + 1, "Field", NoNode, c)
  OBVIOUS
<1>8. /\ e \in Nodes /\ Full(e) /\ e.of = c.of /\ Slot(e) = Slot(c) /\ e.kind = "Field"
  <2>1. nodeIDCounter + 1 \in Nat
    BY <1>5
  <2>2. IsNewNode(e, nodeIDCounter + 1, "Field", c)
    BY <1>5, <1>6, <1>7, <2>1, NodeFacts
  <2> QED
    BY <2>2 DEF IsNewNode
<1>9. NodeFits(e)
  BY <1>6, <1>8 DEF NodeFits, IsField, HasLowOrMax
<1>10. PICK end : end = EndCall(c, Len(tree) + 1)
  OBVIOUS
<1>11. PICK last : last = <<end>>
  OBVIOUS
<1>12. end \in WalkCalls /\ last \in Seq(WalkCalls)
  <2>1. end \in WalkCalls
    <3>1. Len(tree) + 1 \in Nat
      BY <1>5
    <3> QED
      BY <1>5, <1>10, <3>1 DEF EndCall, WalkCalls
  <2> QED
    BY <1>11, <2>1
<1>13. PICK parts : parts = CallsFor(c.of, Len(tree) + 1)
  OBVIOUS
<1>14. PICK new : new = parts \o last
  OBVIOUS
<1>15. parts \in Seq(WalkCalls) /\ new \in Seq(WalkCalls)
  <2>1. Len(tree) + 1 \in Nat
    BY <1>5
  <2>2. parts \in Seq(WalkCalls)
    BY <1>3, <1>5, <1>13, <2>1, CallsForWalk
  <2> QED
    BY <1>12, <1>14, <2>2
<1>16. IsTree(Append(tree, e), nodeRefs, nodeIDCounter + 1, new \o Tail(calls), fs)
  <2>1. new = CallsFor(c.of, Len(tree) + 1) \o last
    BY <1>13, <1>14
  <2>2. IF IsField(c.of) THEN \E d : d.of = c.of /\ last = <<EndCall(d, Len(tree) + 1)>>
                         ELSE last = <<>>
    BY <1>6, <1>10, <1>11
  <2>3. ~ IsField(c.of) => e.id = nodeIDCounter
    BY <1>6
  <2>4. DOMAIN nodeRefs \subseteq DOMAIN nodeRefs \cup {c.of}
    OBVIOUS
  <2> QED
    BY <1>3, <1>6, <1>8, <1>9, <1>12, <1>15, <2>1, <2>2, <2>3, <2>4, TreeNode, Zenon
<1>17. IsTree(tree', nodeRefs', nodeIDCounter', calls', fs)
  BY <1>2, <1>7, <1>10, <1>11, <1>13, <1>14, <1>16, Zenon DEF EncodeField, EndCall
<1> QED
  BY <1>3, <1>17, TreeAfter, Zenon

LEMMA EndFieldTree ==
    ASSUME WalkInv, TreeInv, EndField
    PROVE  TreeInv'
<1>0. Encodes("end of field")
  BY DEF EndField
<1>1. PICK fs : fs = Programs[prog].functions \ todo
  OBVIOUS
<1>2. PICK c : c = Head(calls)
  OBVIOUS
<1>3. /\ Cut(tree, nodeRefs, nodeIDCounter, c, Tail(calls))
      /\ TreeCut(tree, nodeRefs, nodeIDCounter, c, Tail(calls), Slots(tree, calls), fs)
      /\ prog' = prog /\ fs = Programs[prog].functions \ todo'
  BY <1>0, <1>1, <1>2, EncodesTree, Zenon
<1>4. IsEndCall(c)
  <2>1. Encoder(c) = "end of field"
    BY <1>0, <1>2, EncodesFacts, Zenon
  <2> QED
    BY <2>1, EncoderFacts, Zenon
<1>5. IsTree([tree EXCEPT ![c.in].id = nodeIDCounter], With(nodeRefs, c.of, nodeIDCounter),
             nodeIDCounter, Tail(calls), fs)
  BY <1>3, <1>4, TreeEnd, Zenon
<1>6. tree' = [tree EXCEPT ![c.in].id = nodeIDCounter]
  BY <1>2 DEF EndField, FieldId
<1>7. nodeRefs' = With(nodeRefs, c.of, nodeIDCounter)
  BY <1>2, Zenon DEF EndField, FieldId, SetRef, WithRef, With
<1>8. nodeIDCounter' = nodeIDCounter /\ calls' = Tail(calls)
  BY DEF EndField
<1>9. IsTree(tree', nodeRefs', nodeIDCounter', calls', fs)
  BY <1>5, <1>6, <1>7, <1>8, Zenon
<1> QED
  BY <1>3, <1>9, TreeAfter, Zenon

LEMMA RangeTree ==
    ASSUME WalkInv, TreeInv, RangeFunctions
    PROVE  TreeInv'
<1>1. PICK fs : fs = Programs[prog].functions \ todo
  OBVIOUS
<1>2. PICK nr : nr = Cardinality(fs) + 1
  OBVIOUS
<1>3. PICK f \in todo : /\ todo' = todo \ {f}
                        /\ calls' = <<[encode |-> "encodeFunction", of |-> f,
                                       in |-> NoNode, key |-> "top", nr |-> nr]>>
  BY <1>1, <1>2 DEF RangeFunctions
<1>4. PICK c : c = [encode |-> "encodeFunction", of |-> f, in |-> NoNode, key |-> "top",
                    nr |-> nr]
  OBVIOUS
<1>5. /\ calls = <<>> /\ prog' = prog
      /\ nodeIDCounter' = nodeIDCounter /\ nodeRefs' = nodeRefs /\ tree' = tree
  BY DEF RangeFunctions
<1>6. /\ prog \in DOMAIN Programs /\ todo \subseteq Programs[prog].functions
      /\ tree \in Seq(Nodes)
  BY DEF WalkInv, IsWalk
<1>7. f \in Programs[prog].functions /\ f \notin fs
  BY <1>1, <1>6
<1>8. KindOf(f) = "Function"
  BY <1>6, <1>7, ObjectFacts, Zenon
<1>9. IsFiniteSet(fs)
  <2>1. IsFiniteSet(Programs[prog].functions)
    BY <1>6, ObjectFacts, FS_Subset
  <2> QED
    BY <1>1, <2>1, FS_Difference
<1>10. IsTree(tree, nodeRefs, nodeIDCounter, <<>>, fs)
  BY <1>1, <1>5 DEF TreeInv
<1>11. /\ c.encode = "encodeFunction" /\ c.of = f /\ c.in = NoNode /\ c.key = "top"
       /\ c.nr = Cardinality(fs) + 1
  BY <1>2, <1>4
<1>12. IsTree(tree, nodeRefs, nodeIDCounter, <<c>>, fs \cup {f})
  BY <1>6, <1>7, <1>8, <1>9, <1>10, <1>11, TreeTop, Zenon
<1>13. fs \cup {f} = Programs[prog].functions \ todo'
  BY <1>1, <1>3, <1>7
<1>14. IsTree(tree', nodeRefs', nodeIDCounter', calls', Programs[prog].functions \ todo')
  BY <1>3, <1>4, <1>5, <1>12, <1>13, Zenon
<1> QED
  BY <1>5, <1>14, TreeAfter, Zenon

LEMMA TreeStays ==
    ASSUME TreeInv, UNCHANGED <<prog, todo, calls, nodeIDCounter, nodeRefs, tree>>
    PROVE  TreeInv'
<1>1. IsTree(tree, nodeRefs, nodeIDCounter, calls, Programs[prog].functions \ todo)
  BY DEF TreeInv
<1>2. /\ prog' = prog /\ todo' = todo /\ calls' = calls /\ nodeIDCounter' = nodeIDCounter
      /\ nodeRefs' = nodeRefs /\ tree' = tree
  OBVIOUS
<1>3. IsTree(tree', nodeRefs', nodeIDCounter', calls', Programs[prog].functions \ todo')
  BY <1>1, <1>2, Zenon
<1> QED
  BY <1>2, <1>3, TreeAfter, Zenon

\* What the functions that write an object or a link to it have in common.
LEMMA WriteTree ==
    ASSUME WalkInv, TreeInv, NEW function, function \notin {"field", "end of field"},
           Encodes(function), NEW kind \in NodeKinds, LinkFits(kind, KindOf(Head(calls).of)),
           \/ Link(kind)
           \/ ~ HasLowOrMax(Head(calls).of) /\ FirstMention
    PROVE  TreeInv'
<1>1. CASE Link(kind)
  BY <1>1, LinkTree, Zenon
<1>2. CASE ~ HasLowOrMax(Head(calls).of) /\ FirstMention
  BY <1>2, FirstMentionTree, Zenon DEF NoLowOrMax, IsNoField
<1> QED
  BY <1>1, <1>2

LEMMA EncodesFits ==
    ASSUME WalkInv, TreeInv, NEW function, Encodes(function),
           NEW kind, kind = KindOf(Head(calls).of)
    PROVE  /\ function = "encodeFunction"  => LinkFits("LinkToNode", kind) /\ kind # "Slice"
           /\ function = "encodeParameter" => LinkFits("LinkToParam", kind) /\ kind # "Slice"
           /\ function = "encodeBlock"     => LinkFits("LinkToBlock", kind) /\ kind # "Slice"
           /\ function = "encodeFuncType"  => LinkFits("LinkToFunc", kind) /\ kind # "Slice"
           /\ function = "encodeType"      => LinkFits("LinkToType", kind) /\ kind # "Slice"
           /\ function = "encodeNode"      => LinkFits("LinkToNode", kind)
<1>1. PICK fs : fs = Programs[prog].functions \ todo
  OBVIOUS
<1>2. /\ Cut(tree, nodeRefs, nodeIDCounter, Head(calls), Tail(calls))
      /\ TreeCut(tree, nodeRefs, nodeIDCounter, Head(calls), Tail(calls),
                 Slots(tree, calls), fs)
  BY <1>1, EncodesTree, Zenon
<1>3. CallFits(Head(calls))
  BY <1>2, Zenon DEF TreeCut
<1>4. Head(calls) \in WalkCalls
  BY <1>2, CutFacts, Zenon
<1>5. Head(calls).encode # "encodeFuncType"
  BY <1>4 DEF WalkCalls, Encoders
<1>6. function = Encoder(Head(calls))
  BY EncodesFacts, Zenon
<1> QED
  BY <1>3, <1>5, <1>6, EncoderFits

LEMMA NextTree ==
    ASSUME WalkInv, TreeInv, [Next]_vars
    PROVE  TreeInv'
<1>k. /\ "LinkToNode" \in NodeKinds /\ "LinkToParam" \in NodeKinds
      /\ "LinkToBlock" \in NodeKinds /\ "LinkToFunc" \in NodeKinds
      /\ "LinkToType" \in NodeKinds
  BY DEF NodeKinds
<1>f. /\ "encodeFunction" \notin {"field", "end of field"}
      /\ "encodeParameter" \notin {"field", "end of field"}
      /\ "encodeBlock" \notin {"field", "end of field"}
      /\ "encodeFuncType" \notin {"field", "end of field"}
      /\ "encodeType" \notin {"field", "end of field"}
      /\ "encodeNode" \notin {"field", "end of field"}
  OBVIOUS
<1>s. ASSUME NEW c, KindOf(c.of) # "Slice" PROVE ~ HasLowOrMax(c.of)
  BY <1>s DEF HasLowOrMax
<1>1. CASE RangeFunctions
  BY <1>1, RangeTree
<1>2. CASE EncodeFunction
  <2>1. Encodes("encodeFunction") /\ (Link("LinkToNode") \/ FirstMention)
    BY <1>2 DEF EncodeFunction
  <2>2. LinkFits("LinkToNode", KindOf(Head(calls).of)) /\ ~ HasLowOrMax(Head(calls).of)
    BY <1>s, <2>1, EncodesFits
  <2> QED
    BY <1>k, <1>f, <2>1, <2>2, WriteTree, Zenon
<1>3. CASE EncodeParameter
  <2>1. Encodes("encodeParameter") /\ (Link("LinkToParam") \/ FirstMention)
    BY <1>3 DEF EncodeParameter
  <2>2. LinkFits("LinkToParam", KindOf(Head(calls).of)) /\ ~ HasLowOrMax(Head(calls).of)
    BY <1>s, <2>1, EncodesFits
  <2> QED
    BY <1>k, <1>f, <2>1, <2>2, WriteTree, Zenon
<1>4. CASE EncodeBlock
  <2>1. Encodes("encodeBlock") /\ (Link("LinkToBlock") \/ FirstMention)
    BY <1>4 DEF EncodeBlock
  <2>2. LinkFits("LinkToBlock", KindOf(Head(calls).of)) /\ ~ HasLowOrMax(Head(calls).of)
    BY <1>s, <2>1, EncodesFits
  <2> QED
    BY <1>k, <1>f, <2>1, <2>2, WriteTree, Zenon
<1>5. CASE EncodeFuncType
  <2>1. Encodes("encodeFuncType") /\ (Link("LinkToFunc") \/ FirstMention)
    BY <1>5 DEF EncodeFuncType
  <2>2. LinkFits("LinkToFunc", KindOf(Head(calls).of)) /\ ~ HasLowOrMax(Head(calls).of)
    BY <1>s, <2>1, EncodesFits
  <2> QED
    BY <1>k, <1>f, <2>1, <2>2, WriteTree, Zenon
<1>6. CASE EncodeType
  <2>1. Encodes("encodeType") /\ (Link("LinkToType") \/ FirstMention)
    BY <1>6 DEF EncodeType
  <2>2. LinkFits("LinkToType", KindOf(Head(calls).of)) /\ ~ HasLowOrMax(Head(calls).of)
    BY <1>s, <2>1, EncodesFits
  <2> QED
    BY <1>k, <1>f, <2>1, <2>2, WriteTree, Zenon
<1>7. CASE EncodeNode
  <2>1. /\ Encodes("encodeNode")
        /\ Link("LinkToNode") \/ (~ HasLowOrMax(Head(calls).of) /\ FirstMention)
    BY <1>7 DEF EncodeNode
  <2>2. LinkFits("LinkToNode", KindOf(Head(calls).of))
    BY <2>1, EncodesFits
  <2> QED
    BY <1>k, <1>f, <2>1, <2>2, WriteTree, Zenon
<1>8. CASE EncodePanics
  BY <1>8, TreeStays DEF EncodePanics, Encodes
<1>9. CASE EncodeField
  BY <1>9, FieldTree
<1>10. CASE EndField
  BY <1>10, EndFieldTree
<1>11. CASE WriteFile \/ ReadNode \/ ConstructNode \/ ConstructInvoke \/ EndDecoding
  BY <1>11, TreeStays
  DEF WriteFile, ReadNode, ConstructNode, ConstructInvoke, EndDecoding, Decodes
<1>12. CASE UNCHANGED vars
  BY <1>12, TreeStays DEF vars
<1>13. CASE Done
  BY <1>12, <1>13 DEF Done
<1> QED
  BY <1>1, <1>2, <1>3, <1>4, <1>5, <1>6, <1>7, <1>8, <1>9, <1>10, <1>11, <1>12, <1>13
  DEF Next

LEMMA Trees == Spec => []TreeInv
BY InitTree, NextTree, Walks, PTL DEF Spec

-----------------------------------------------------------------------------

(* What is under a node that was written, when nothing is left to be written *)

\* List q has the elements of nodes, each at its number, in their order.
IsList(q, t, nodes, L) ==
    /\ q = [k \in 1 .. L |-> q[k]]
    /\ \A k \in 1 .. L : q[k] \in nodes /\ t[q[k]].nr = k
    /\ \A m \in nodes : t[m].nr \in 1 .. L /\ q[t[m].nr] = m
    /\ \A k, l \in 1 .. L : k < l => q[k] < q[l]

\* The nodes of a set are numbered from 1 to L in their order.
AreNumbered(t, nodes, L) ==
    /\ nodes \subseteq Nat
    /\ \A m \in nodes : t[m].nr \in 1 .. L
    /\ \A k \in 1 .. L : \E m \in nodes : t[m].nr = k
    /\ \A m, n \in nodes : m < n => t[m].nr < t[n].nr

LEMMA ListIs ==
    ASSUME NEW t, NEW nodes, NEW L \in Nat, AreNumbered(t, nodes, L),
           NEW q, q = [nr \in 1 .. Cardinality(nodes) |-> CHOOSE m \in nodes : t[m].nr = nr]
    PROVE  IsList(q, t, nodes, L)
<1>0. /\ nodes \subseteq Nat
      /\ \A m \in nodes : t[m].nr \in 1 .. L
      /\ \A k \in 1 .. L : \E m \in nodes : t[m].nr = k
      /\ \A m, n \in nodes : m < n => t[m].nr < t[n].nr
  BY Zenon DEF AreNumbered
<1> USE <1>0
<1>1. ASSUME NEW m \in nodes, NEW n \in nodes, t[m].nr = t[n].nr PROVE m = n
  <2>1. t[m].nr \in 1 .. L /\ t[n].nr \in 1 .. L
    OBVIOUS
  <2>2. ~ (m < n) /\ ~ (n < m)
    BY <1>1, <2>1
  <2>3. m \in Nat /\ n \in Nat
    OBVIOUS
  <2> QED
    BY <2>2, <2>3
<1>2. PICK g : g = [k \in 1 .. L |-> CHOOSE m \in nodes : t[m].nr = k]
  OBVIOUS
<1>3. ASSUME NEW k \in 1 .. L PROVE g[k] \in nodes /\ t[g[k]].nr = k
  <2>1. \E m \in nodes : t[m].nr = k
    OBVIOUS
  <2> QED
    BY <1>2, <2>1
<1>4. ASSUME NEW m \in nodes PROVE t[m].nr \in 1 .. L /\ g[t[m].nr] = m
  BY <1>1, <1>3
<1>5. g \in [1 .. L -> nodes]
  BY <1>2, <1>3
<1>6. g \in Injection(1 .. L, nodes)
  <2>1. \A k, l \in 1 .. L : g[k] = g[l] => k = l
    BY <1>3
  <2> QED
    BY <1>5, <2>1 DEF Injection, IsInjective
<1>7. g \in Surjection(1 .. L, nodes)
  BY <1>4, <1>5 DEF Surjection
<1>8. ExistsBijection(1 .. L, nodes)
  BY <1>6, <1>7 DEF ExistsBijection, Bijection
<1>9. Cardinality(nodes) = L
  BY <1>8, FS_CountingElements
<1>10. q = g
  BY <1>2, <1>9
<1>11. ASSUME NEW k \in 1 .. L, NEW l \in 1 .. L, k < l PROVE g[k] < g[l]
  <2>1. g[k] \in Nat /\ g[l] \in Nat /\ g[k] \in nodes /\ g[l] \in nodes
    BY <1>3
  <2>2. t[g[k]].nr = k /\ t[g[l]].nr = l
    BY <1>3
  <2>3. ~ (g[l] < g[k])
    BY <1>11, <2>1, <2>2
  <2>4. g[k] # g[l]
    BY <1>11, <2>2
  <2> QED
    BY <2>1, <2>3, <2>4
<1>12. g = [k \in 1 .. L |-> g[k]]
  BY <1>2
<1> QED
  BY <1>3, <1>4, <1>10, <1>11, <1>12, Zenon DEF IsList

LEMMA ListHasLength ==
    ASSUME NEW q, NEW t, NEW nodes, NEW L \in Nat, IsList(q, t, nodes, L)
    PROVE  Len(q) = L /\ DOMAIN q = 1 .. L
<1>1. q = [i \in 1 .. L |-> q[i]]
  BY DEF IsList
<1>2. q \in Seq({q[i] : i \in 1 .. L}) /\ DOMAIN q = 1 .. L
  BY <1>1
<1> QED
  BY <1>2

\* A tree to which nothing is added.
IsWhole(t, fs) ==
    /\ \A i \in 1 .. Len(t) : t[i].in \in Nat /\ t[i].in < i /\ ~ IsEnd(t[i])
    /\ \A i, j \in 1 .. Len(t) : i < j => t[j].in >= i \/ t[j].in <= t[i].in
    /\ \A i \in 1 .. Len(t) : IF t[i].in = NoNode THEN IsTop(fs, t[i])
                              ELSE t[i].in \in FullNodes(t) /\ IsPart(t[t[i].in].of, t[i])
    /\ \A i, j \in 1 .. Len(t) : i < j /\ t[i].in = t[j].in => Before(t, t[i], t[j])
    /\ \A n \in FullNodes(t) : \A k \in DOMAIN KeysOf(KindOf(t[n].of)) :
          \A nr \in DOMAIN At(t[n].of, KeysOf(KindOf(t[n].of))[k]) :
             \E i \in 1 .. Len(t) : /\ t[i].in = n /\ t[i].key = KeysOf(KindOf(t[n].of))[k]
                                    /\ t[i].nr = nr
    /\ \A nr \in 1 .. Cardinality(fs) :
          \E i \in 1 .. Len(t) : t[i].in = NoNode /\ t[i].key = "top" /\ t[i].nr = nr
    /\ \A f \in fs : \E i \in 1 .. Len(t) : t[i].in = NoNode /\ t[i].of = f

LEMMA WholeTree ==
    ASSUME NEW t \in Seq(Nodes), NEW refs, NEW next, NEW fs, IsTree(t, refs, next, <<>>, fs)
    PROVE  /\ IsWhole(t, fs)
           /\ \A f, n \in 1 .. Len(t) :
                 IsField(t[f].of) /\ ~ IsField(t[n].of) /\ t[n].id = t[f].id =>
                    f < n /\ t[n].in < f
<1>1. PICK N \in Nat : N = Len(t)
  OBVIOUS
<1>2. PICK s : s = Slots(t, <<>>)
  OBVIOUS
<1>3. s = [i \in 1 .. N |-> Slot(t[i])]
  <2>1. s = [i \in 1 .. N + 0 |-> IF i <= N THEN Slot(t[i]) ELSE Slot(<<>>[i - N])]
    BY <1>1, <1>2 DEF Slots
  <2>2. 1 .. N + 0 = 1 .. N /\ \A i \in 1 .. N : i <= N
    OBVIOUS
  <2> QED
    BY <2>1, <2>2
<1>4. /\ DOMAIN s = 1 .. N
      /\ \A i \in 1 .. N : /\ s[i].of = t[i].of /\ s[i].in = t[i].in
                           /\ s[i].key = t[i].key /\ s[i].nr = t[i].nr
  BY <1>3, SlotFacts
<1>5. /\ Inside(s, N) /\ Nested(s) /\ EndsLast(s, N)
      /\ PartsOnly(s, FullNodes(t), fs) /\ InOrder(s)
      /\ AllParts(s, FullNodes(t)) /\ AllTops(s, fs)
      /\ FieldIds(t, next, s)
  BY <1>1, <1>2, Zenon DEF IsTree, IsOrder
<1>6. FullNodes(t) \subseteq 1 .. N
  BY <1>1 DEF FullNodes
<1>7. \A i \in 1 .. N : t[i].in \in Nat /\ t[i].in < i
  BY <1>4, <1>5 DEF Inside
<1>8. \A i \in 1 .. N : ~ IsEnd(s[i]) /\ ~ IsEnd(t[i])
  BY <1>4, <1>5 DEF EndsLast, IsEnd
<1>9. \A i, j \in 1 .. N : i < j => t[j].in >= i \/ t[j].in <= t[i].in
  BY <1>4, <1>5 DEF Nested
<1>10. ASSUME NEW i \in 1 .. N
       PROVE  IF t[i].in = NoNode THEN IsTop(fs, t[i])
              ELSE t[i].in \in FullNodes(t) /\ IsPart(t[t[i].in].of, t[i])
  <2>1. IsPartOf(s, FullNodes(t), fs, s[i])
    BY <1>4, <1>5, <1>8 DEF PartsOnly
  <2>2. CASE t[i].in = NoNode
    <3>1. IsTop(fs, s[i])
      BY <1>4, <2>1, <2>2 DEF IsPartOf
    <3> QED
      BY <1>4, <2>2, <3>1 DEF IsTop
  <2>3. CASE t[i].in # NoNode
    <3>1. t[i].in \in FullNodes(t) /\ IsPart(s[t[i].in].of, s[i])
      BY <1>4, <2>1, <2>3 DEF IsPartOf
    <3>2. s[t[i].in].of = t[t[i].in].of
      BY <1>4, <1>6, <3>1
    <3>3. s[i].of = t[i].of /\ s[i].key = t[i].key /\ s[i].nr = t[i].nr
      BY <1>4
    <3>4. IsPart(t[t[i].in].of, t[i])
      BY <3>1, <3>2, <3>3 DEF IsPart
    <3> QED
      BY <2>3, <3>1, <3>4
  <2> QED
    BY <2>2, <2>3
<1>11. ASSUME NEW i \in 1 .. N, NEW j \in 1 .. N, i < j, t[i].in = t[j].in
       PROVE  Before(t, t[i], t[j])
  <2>1. Before(s, s[i], s[j])
    BY <1>4, <1>5, <1>8, <1>11 DEF InOrder
  <2>2. t[i].in # NoNode => s[t[i].in].of = t[t[i].in].of
    BY <1>4, <1>6, <1>10
  <2> QED
    BY <1>4, <2>1, <2>2 DEF Before
<1>12. ASSUME NEW n \in FullNodes(t), NEW k \in DOMAIN KeysOf(KindOf(t[n].of)),
              NEW nr \in DOMAIN At(t[n].of, KeysOf(KindOf(t[n].of))[k])
       PROVE  \E i \in 1 .. N : /\ t[i].in = n /\ t[i].key = KeysOf(KindOf(t[n].of))[k]
                                /\ t[i].nr = nr
  <2>1. s[n].of = t[n].of
    BY <1>4, <1>6
  <2>2. HasPart(s, n, KeysOf(KindOf(t[n].of))[k], nr)
    BY <1>5, <2>1 DEF AllParts
  <2> QED
    BY <1>4, <2>2 DEF HasPart
<1>13. ASSUME NEW nr \in 1 .. Cardinality(fs)
       PROVE  \E i \in 1 .. N : t[i].in = NoNode /\ t[i].key = "top" /\ t[i].nr = nr
  <2>1. HasPart(s, NoNode, "top", nr)
    BY <1>5 DEF AllTops
  <2> QED
    BY <1>4, <2>1 DEF HasPart
<1>14. ASSUME NEW f \in fs PROVE \E i \in 1 .. N : t[i].in = NoNode /\ t[i].of = f
  BY <1>4, <1>5 DEF AllTops
<1>15. IsWhole(t, fs)
  <2>1. \A i \in 1 .. Len(t) : t[i].in \in Nat /\ t[i].in < i /\ ~ IsEnd(t[i])
    BY <1>1, <1>7, <1>8
  <2>2. \A i, j \in 1 .. Len(t) : i < j => t[j].in >= i \/ t[j].in <= t[i].in
    BY <1>1, <1>9
  <2>3. \A i \in 1 .. Len(t) : IF t[i].in = NoNode THEN IsTop(fs, t[i])
                              ELSE t[i].in \in FullNodes(t) /\ IsPart(t[t[i].in].of, t[i])
    BY <1>1, <1>10
  <2>4. \A i, j \in 1 .. Len(t) : i < j /\ t[i].in = t[j].in => Before(t, t[i], t[j])
    BY <1>1, <1>11
  <2>5. \A n \in FullNodes(t) : \A k \in DOMAIN KeysOf(KindOf(t[n].of)) :
           \A nr \in DOMAIN At(t[n].of, KeysOf(KindOf(t[n].of))[k]) :
              \E i \in 1 .. Len(t) : /\ t[i].in = n /\ t[i].key = KeysOf(KindOf(t[n].of))[k]
                                     /\ t[i].nr = nr
    BY <1>1, <1>12
  <2>6. \A nr \in 1 .. Cardinality(fs) :
           \E i \in 1 .. Len(t) : t[i].in = NoNode /\ t[i].key = "top" /\ t[i].nr = nr
    BY <1>1, <1>13
  <2>7. \A f \in fs : \E i \in 1 .. Len(t) : t[i].in = NoNode /\ t[i].of = f
    BY <1>1, <1>14
  <2> QED
    BY <2>1, <2>2, <2>3, <2>4, <2>5, <2>6, <2>7, Zenon DEF IsWhole
<1>16. ASSUME NEW f \in 1 .. N, NEW n \in 1 .. N,
              IsField(t[f].of), ~ IsField(t[n].of), t[n].id = t[f].id
       PROVE  f < n /\ t[n].in < f
  <2>1. HasEnded(s, f)
    BY <1>4, <1>8 DEF HasEnded
  <2> QED
    BY <1>1, <1>5, <1>16, <2>1 DEF FieldIds
<1> QED
  BY <1>1, <1>15, <1>16

\* The nodes of t under key of node n, or at the top.
NodesUnder(t, n, key) == {m \in 1 .. Len(t) : t[m].in = n /\ t[m].key = key}

\* Under key of n is a node for each part of o.
HasParts(t, n, key, o) ==
    /\ IsList(Under(n, key), t, NodesUnder(t, n, key), Len(At(o, key)))
    /\ \A m \in NodesUnder(t, n, key) : t[m].of = At(o, key)[t[m].nr]

LEMMA UnderNode ==
    ASSUME prog \in DOMAIN Programs, NEW t, t = tree, t \in Seq(Nodes),
           NEW fs, IsWhole(t, fs), NEW n \in FullNodes(t),
           NEW o, o = t[n].of, o \in DOMAIN Objects, NEW k \in DOMAIN KeysOf(KindOf(o)),
           NEW key, key = KeysOf(KindOf(o))[k]
    PROVE  HasParts(t, n, key, o)
<1>1. PICK nodes : nodes = NodesUnder(t, n, key)
  OBVIOUS
<1>2. PICK N \in Nat : N = Len(t)
  OBVIOUS
<1>3. PICK L \in Nat : L = Len(At(o, key)) /\ DOMAIN At(o, key) = 1 .. L
  <2>1. At(o, key) \in Seq(DOMAIN Objects)
    BY ObjectFacts, Zenon
  <2> QED
    BY <2>1
<1>4. \A m \in nodes : m \in 1 .. N /\ t[m].in = n /\ t[m].key = key
  BY <1>1, <1>2 DEF NodesUnder
<1>5. nodes \subseteq Nat /\ n # NoNode
  BY <1>4 DEF FullNodes, NoNode
<1>6. ASSUME NEW m \in nodes PROVE t[m].nr \in 1 .. L /\ t[m].of = At(o, key)[t[m].nr]
  <2>1. m \in 1 .. Len(t) /\ t[m].in # NoNode
    BY <1>2, <1>4, <1>5
  <2>2. IsPart(t[t[m].in].of, t[m])
    BY <2>1, Zenon DEF IsWhole
  <2>3. t[t[m].in].of = o /\ t[m].key = key
    BY <1>4
  <2> QED
    BY <1>3, <2>2, <2>3 DEF IsPart
<1>7. ASSUME NEW nr \in 1 .. L PROVE \E m \in nodes : t[m].nr = nr
  <2>1. nr \in DOMAIN At(t[n].of, KeysOf(KindOf(t[n].of))[k])
    BY <1>3
  <2>2. k \in DOMAIN KeysOf(KindOf(t[n].of))
    OBVIOUS
  <2>3. PICK i \in 1 .. Len(t) : /\ t[i].in = n /\ t[i].key = KeysOf(KindOf(t[n].of))[k]
                                 /\ t[i].nr = nr
    BY <2>1, <2>2, Zenon DEF IsWhole
  <2> QED
    BY <1>1, <2>3 DEF NodesUnder
<1>8. ASSUME NEW i \in nodes, NEW j \in nodes, i < j PROVE t[i].nr < t[j].nr
  <2>1. Before(t, t[i], t[j])
    <3>1. i \in 1 .. Len(t) /\ j \in 1 .. Len(t) /\ t[i].in = t[j].in
      BY <1>2, <1>4
    <3> QED
      BY <1>8, <3>1 DEF IsWhole
  <2>2. ~ KeyBefore(KindOf(o), key, key)
    <3> SUFFICES ASSUME KeyBefore(KindOf(o), key, key) PROVE FALSE
      OBVIOUS
    <3>1. PICK l, l2 \in DOMAIN KeysOf(KindOf(o)) :
                 l < l2 /\ KeysOf(KindOf(o))[l] = key /\ KeysOf(KindOf(o))[l2] = key
      BY DEF KeyBefore
    <3>2. l = l2
      BY <3>1, KeysDiffer
    <3>3. PICK m \in 0 .. 3 : DOMAIN KeysOf(KindOf(o)) = 1 .. m
      BY KeysAreFew
    <3> QED
      BY <3>1, <3>2, <3>3
  <2>3. t[i].in = n /\ t[i].key = key /\ t[j].key = key
    BY <1>4
  <2> QED
    BY <2>1, <2>2, <2>3 DEF Before
<1>9. PICK q : q = Under(n, key)
  OBVIOUS
<1>10. q = [nr \in 1 .. Cardinality(nodes) |-> CHOOSE m \in nodes : t[m].nr = nr]
  <2>1. nodes = {m \in DOMAIN tree : tree[m].in = n /\ tree[m].key = key}
    BY <1>1 DEF NodesUnder
  <2> QED
    BY <1>9, <2>1 DEF Under
<1>11. AreNumbered(t, nodes, L)
  <2>1. \A m \in nodes : t[m].nr \in 1 .. L
    BY <1>6
  <2>2. \A nr \in 1 .. L : \E m \in nodes : t[m].nr = nr
    BY <1>7
  <2>3. \A i, j \in nodes : i < j => t[i].nr < t[j].nr
    BY <1>8
  <2> QED
    BY <1>5, <2>1, <2>2, <2>3, Zenon DEF AreNumbered
<1>12. IsList(q, t, nodes, L)
  BY <1>10, <1>11, ListIs
<1> QED
  BY <1>1, <1>3, <1>6, <1>9, <1>12 DEF HasParts

LEMMA UnderTop ==
    ASSUME NEW t, t = tree, t \in Seq(Nodes),
           NEW fs, IsWhole(t, fs), IsFiniteSet(fs)
    PROVE  /\ IsList(Roots, t, NodesUnder(t, NoNode, "top"), Cardinality(fs))
           /\ \A m \in 1 .. Len(t) : t[m].in = NoNode => m \in NodesUnder(t, NoNode, "top")
<1>1. PICK nodes : nodes = NodesUnder(t, NoNode, "top")
  OBVIOUS
<1>2. PICK N \in Nat : N = Len(t)
  OBVIOUS
<1>3. PICK L \in Nat : L = Cardinality(fs)
  BY FS_CardinalityType
<1>4. \A m \in nodes : m \in 1 .. N /\ t[m].in = NoNode /\ t[m].key = "top"
  BY <1>1, <1>2 DEF NodesUnder
<1>5. nodes \subseteq Nat
  BY <1>4
<1>6. ASSUME NEW m \in 1 .. N, t[m].in = NoNode
      PROVE  t[m].nr \in 1 .. L /\ t[m].key = "top" /\ m \in nodes
  <2>1. IsTop(fs, t[m])
    BY <1>2, <1>6, Zenon DEF IsWhole
  <2> QED
    BY <1>1, <1>2, <1>3, <1>6, <2>1 DEF IsTop, NodesUnder
<1>7. ASSUME NEW nr \in 1 .. L PROVE \E m \in nodes : t[m].nr = nr
  <2>1. PICK i \in 1 .. Len(t) : t[i].in = NoNode /\ t[i].key = "top" /\ t[i].nr = nr
    BY <1>3, Zenon DEF IsWhole
  <2> QED
    BY <1>1, <2>1 DEF NodesUnder
<1>8. ASSUME NEW i \in nodes, NEW j \in nodes, i < j PROVE t[i].nr < t[j].nr
  <2>1. Before(t, t[i], t[j])
    <3>1. i \in 1 .. Len(t) /\ j \in 1 .. Len(t) /\ t[i].in = t[j].in
      BY <1>2, <1>4
    <3> QED
      BY <1>8, <3>1 DEF IsWhole
  <2>2. t[i].in = NoNode
    BY <1>4
  <2> QED
    BY <2>1, <2>2 DEF Before
<1>9. PICK q : q = Roots
  OBVIOUS
<1>10. q = [nr \in 1 .. Cardinality(nodes) |-> CHOOSE m \in nodes : t[m].nr = nr]
  <2>1. nodes = {m \in DOMAIN tree : tree[m].in = NoNode /\ tree[m].key = "top"}
    BY <1>1 DEF NodesUnder
  <2> QED
    BY <1>9, <2>1 DEF Under, Roots
<1>11. \A m \in nodes : t[m].nr \in 1 .. L
  BY <1>4, <1>6
<1>a. AreNumbered(t, nodes, L)
  <2>1. \A nr \in 1 .. L : \E m \in nodes : t[m].nr = nr
    BY <1>7
  <2>2. \A i, j \in nodes : i < j => t[i].nr < t[j].nr
    BY <1>8
  <2> QED
    BY <1>5, <1>11, <2>1, <2>2, Zenon DEF AreNumbered
<1>12. IsList(q, t, nodes, L)
  BY <1>10, <1>a, ListIs
<1> QED
  BY <1>1, <1>2, <1>3, <1>6, <1>9, <1>12

\* Nothing is under other keys.
LEMMA NothingUnder ==
    ASSUME NEW t, t = tree, t \in Seq(Nodes),
           NEW fs, IsWhole(t, fs), NEW n \in FullNodes(t),
           NEW key, \A k \in DOMAIN KeysOf(KindOf(t[n].of)) : KeysOf(KindOf(t[n].of))[k] # key
    PROVE  Under(n, key) = <<>>
<1>1. PICK nodes : nodes = {m \in DOMAIN tree : tree[m].in = n /\ tree[m].key = key}
  OBVIOUS
<1>2. nodes = {}
  <2> SUFFICES ASSUME NEW m \in 1 .. Len(t), t[m].in = n, t[m].key = key PROVE FALSE
    BY <1>1
  <2>1. n # NoNode
    BY DEF FullNodes, NoNode
  <2>2. IsPart(t[n].of, t[m])
    BY <2>1, Zenon DEF IsWhole
  <2> QED
    BY <2>2 DEF IsPart
<1>3. Cardinality(nodes) = 0
  BY <1>2, FS_EmptySet
<1>4. 1 .. Cardinality(nodes) = {}
  BY <1>3
<1>5. Under(n, key) = [nr \in {} |-> CHOOSE m \in nodes : tree[m].nr = nr]
  BY <1>1, <1>4, Zenon DEF Under
<1> QED
  BY <1>5

\* A sequence of the elements of M, which are numbers, from the least to the greatest.
Less == {ab \in Nat \X Nat : ab[1] < ab[2]}

IsAscending(q, M) == q \in Seq(Nat) /\ Pairwise(q, Less) /\ \A x : Has(q, x) <=> x \in M

LEMMA LessIs == \A a, b : <<a, b>> \in Less <=> a \in Nat /\ b \in Nat /\ a < b
BY DEF Less

LEMMA ListAscends ==
    ASSUME NEW q, NEW t, NEW nodes, nodes \subseteq Nat, NEW L \in Nat, IsList(q, t, nodes, L)
    PROVE  IsAscending(q, nodes)
<1>1. /\ q = [k \in 1 .. L |-> q[k]]
      /\ \A k \in 1 .. L : q[k] \in nodes
      /\ \A m \in nodes : t[m].nr \in 1 .. L /\ q[t[m].nr] = m
      /\ \A k, l \in 1 .. L : k < l => q[k] < q[l]
  BY DEF IsList
<1>2. \A k \in 1 .. L : q[k] \in Nat
  BY <1>1
<1>3. q \in Seq(Nat) /\ Len(q) = L
  BY <1>1, <1>2
<1>4. \A k, l \in 1 .. L : k < l => <<q[k], q[l]>> \in Less
  BY <1>1, <1>2, LessIs
<1>5. \A x : Has(q, x) <=> x \in nodes
  BY <1>1, <1>3 DEF Has
<1> QED
  BY <1>3, <1>4, <1>5 DEF IsAscending, Pairwise

LEMMA RootsAre ==
    ASSUME NEW t, t = tree, t \in Seq(Nodes),
           NEW fs, IsWhole(t, fs), IsFiniteSet(fs)
    PROVE  IsAscending(Roots, {m \in 1 .. Len(t) : t[m].in = NoNode})
<1>1. PICK nodes : nodes = NodesUnder(t, NoNode, "top")
  OBVIOUS
<1>2. PICK L \in Nat : L = Cardinality(fs)
  BY FS_CardinalityType
<1>3. /\ IsList(Roots, t, nodes, L)
      /\ \A m \in 1 .. Len(t) : t[m].in = NoNode => m \in nodes
  BY <1>1, <1>2, UnderTop
<1>4. nodes = {m \in 1 .. Len(t) : t[m].in = NoNode}
  BY <1>1, <1>3 DEF NodesUnder
<1>5. nodes \subseteq Nat
  BY <1>4
<1> QED
  BY <1>2, <1>3, <1>4, <1>5, ListAscends

LEMMA ChildrenAre ==
    ASSUME prog \in DOMAIN Programs, NEW t, t = tree, t \in Seq(Nodes),
           NEW fs, IsWhole(t, fs), NEW n \in 1 .. Len(t), NodeFits(t[n])
    PROVE  IsAscending(Children(n), {m \in 1 .. Len(t) : t[m].in = n})
<1>1. PICK M : M = {m \in 1 .. Len(t) : t[m].in = n}
  OBVIOUS
<1>2. PICK q : q = Children(n)
  OBVIOUS
<1>n. n # NoNode
  BY DEF NoNode
<1>3. CASE ~ Full(t[n])
  <2>1. M = {}
    <3> SUFFICES ASSUME NEW m \in 1 .. Len(t), t[m].in = n PROVE FALSE
      BY <1>1
    <3>1. n \in FullNodes(t)
      BY <1>n, Zenon DEF IsWhole
    <3> QED
      BY <1>3, <3>1 DEF FullNodes
  <2>2. q = <<>>
    BY <1>2, <1>3 DEF Children, IsLink, Full
  <2>3. q \in Seq(Nat) /\ Len(q) = 0 /\ 1 .. 0 = {}
    BY <2>2
  <2>4. IsAscending(q, M)
    BY <2>1, <2>3 DEF IsAscending, Pairwise, Has
  <2> QED
    BY <1>1, <1>2, <2>4
<1>4. CASE Full(t[n])
  <2>1. n \in FullNodes(t)
    BY <1>4 DEF FullNodes
  <2>2. PICK o : o = t[n].of /\ o \in DOMAIN Objects
    <3>1. t[n] \in Nodes
      OBVIOUS
    <3> QED
      BY <3>1 DEF Nodes
  <2>3. PICK keys : keys = KeysOf(KindOf(o))
    OBVIOUS
  <2>4. PICK m \in 0 .. 3 : DOMAIN keys = 1 .. m
    BY <2>3, KeysAreFew
  <2>5. t[n].kind = KindOf(o)
    BY <1>4, <2>2 DEF NodeFits
  <2>6. PICK lists : lists = [k \in 1 .. m |-> Under(n, keys[k])]
    OBVIOUS
  <2>7. q = FlattenSeq(lists)
    <3>1. ~ IsLink(tree[n])
      BY <1>4 DEF IsLink, Full
    <3>2. keys = KeysOf(tree[n].kind)
      BY <2>3, <2>5
    <3>3. q = FlattenSeq([k \in DOMAIN KeysOf(tree[n].kind) |->
                              Under(n, KeysOf(tree[n].kind)[k])])
      BY <1>2, <3>1 DEF Children
    <3> QED
      BY <2>4, <2>6, <3>2, <3>3
  <2>8. ASSUME NEW k \in 1 .. m
        PROVE  IsAscending(lists[k], NodesUnder(t, n, keys[k]))
    <3>1. PICK L \in Nat : L = Len(At(o, keys[k]))
      <4>1. At(o, keys[k]) \in Seq(DOMAIN Objects)
        BY <2>2, ObjectFacts, Zenon
      <4> QED
        BY <4>1
    <3>2. k \in DOMAIN KeysOf(KindOf(o)) /\ keys[k] = KeysOf(KindOf(o))[k]
      BY <2>3, <2>4
    <3>3. IsList(Under(n, keys[k]), t, NodesUnder(t, n, keys[k]), L)
      BY <2>1, <2>2, <3>1, <3>2, UnderNode DEF HasParts
    <3>4. NodesUnder(t, n, keys[k]) \subseteq Nat
      BY DEF NodesUnder
    <3>5. IsAscending(Under(n, keys[k]), NodesUnder(t, n, keys[k]))
      BY <3>3, <3>4, ListAscends
    <3> QED
      BY <2>6, <3>5
  <2>9. ASSUME NEW k \in 1 .. m, NEW l \in 1 .. m, k < l, NEW x, NEW y,
               Has(lists[k], x), Has(lists[l], y)
        PROVE  <<x, y>> \in Less
    <3>1. x \in NodesUnder(t, n, keys[k]) /\ y \in NodesUnder(t, n, keys[l])
      BY <2>8, <2>9, Zenon DEF IsAscending
    <3>2. /\ x \in 1 .. Len(t) /\ t[x].in = n /\ t[x].key = keys[k]
          /\ y \in 1 .. Len(t) /\ t[y].in = n /\ t[y].key = keys[l]
      BY <3>1 DEF NodesUnder
    <3>3. \A i, j \in 1 .. m : keys[i] = keys[j] => i = j
      BY <2>3, <2>4, KeysDiffer
    <3>4. keys[k] # keys[l]
      BY <2>9, <3>3
    <3>5. x # y
      BY <3>2, <3>4
    <3>6. ~ (y < x)
      <4> SUFFICES ASSUME y < x PROVE FALSE
        OBVIOUS
      <4>1. Before(t, t[y], t[x])
        BY <3>2 DEF IsWhole
      <4>2. KeyBefore(KindOf(o), keys[l], keys[k])
        BY <2>2, <3>2, <3>4, <4>1 DEF Before
      <4>3. PICK i, j \in 1 .. m : i < j /\ keys[i] = keys[l] /\ keys[j] = keys[k]
        BY <2>3, <2>4, <4>2 DEF KeyBefore
      <4>4. i = l /\ j = k
        BY <3>3, <4>3
      <4> QED
        BY <2>9, <4>3, <4>4
    <3>7. x \in Nat /\ y \in Nat /\ x < y
      BY <3>2, <3>5, <3>6
    <3> QED
      BY <3>7, LessIs
  <2>10. lists \in Seq(Seq(Nat)) /\ Len(lists) = m
    <3>1. \A k \in 1 .. m : lists[k] \in Seq(Nat)
      BY <2>8 DEF IsAscending
    <3> QED
      BY <2>6, <3>1
  <2>11. \A k \in 1 .. m : Pairwise(lists[k], Less)
    BY <2>8 DEF IsAscending
  <2>12. /\ q \in Seq(Nat) /\ Pairwise(q, Less)
         /\ \A x : Has(q, x) <=> \E k \in 1 .. m : Has(lists[k], x)
    BY <2>7, <2>9, <2>10, <2>11, FlattenInOrder
  <2>13. ASSUME NEW x PROVE Has(q, x) <=> x \in M
    <3>1. Has(q, x) <=> \E k \in 1 .. m : x \in NodesUnder(t, n, keys[k])
      BY <2>8, <2>12, Zenon DEF IsAscending
    <3>2. ASSUME NEW k \in 1 .. m, x \in NodesUnder(t, n, keys[k]) PROVE x \in M
      BY <1>1, <3>2 DEF NodesUnder
    <3>3. ASSUME x \in M PROVE \E k \in 1 .. m : x \in NodesUnder(t, n, keys[k])
      <4>1. x \in 1 .. Len(t) /\ t[x].in = n
        BY <1>1, <3>3
      <4>2. IsPart(t[n].of, t[x])
        BY <1>n, <4>1, Zenon DEF IsWhole
      <4>3. PICK k \in DOMAIN KeysOf(KindOf(o)) : KeysOf(KindOf(o))[k] = t[x].key
        BY <2>2, <4>2 DEF IsPart
      <4>4. k \in 1 .. m /\ keys[k] = t[x].key
        BY <2>3, <2>4, <4>3
      <4> QED
        BY <4>1, <4>4 DEF NodesUnder
    <3> QED
      BY <3>1, <3>2, <3>3
  <2>14. IsAscending(q, M)
    BY <2>12, <2>13, Zenon DEF IsAscending
  <2> QED
    BY <1>1, <1>2, <2>14
<1> QED
  BY <1>3, <1>4

-----------------------------------------------------------------------------

(* The steps of the decoder *)

LEMMA ItemFacts ==
    ASSUME NEW step \in {"read", "construct"}, NEW nodes \in Seq(Nat),
           NEW q, q = Item(step, nodes)
    PROVE  /\ q \in Seq(Items) /\ Len(q) = Len(nodes)
           /\ \A k \in 1 .. Len(nodes) : /\ IsRead(q[k]) <=> step = "read"
                                         /\ q[k].node = nodes[k]
<1>1. PICK L \in Nat : DOMAIN nodes = 1 .. L /\ L = Len(nodes)
  OBVIOUS
<1>2. \A i \in 1 .. L : nodes[i] \in Nat
  BY <1>1
<1>3. \A i \in 1 .. L : [step |-> step, node |-> nodes[i]] \in Items
  BY <1>2 DEF Items
<1>4. q = [i \in 1 .. L |-> [step |-> step, node |-> nodes[i]]]
  BY <1>1 DEF Item
<1>5. q \in Seq(Items) /\ Len(q) = L
  BY <1>3, <1>4
<1>6. \A k \in 1 .. L : q[k].step = step /\ q[k].node = nodes[k]
  BY <1>4
<1> QED
  BY <1>1, <1>5, <1>6 DEF IsRead

\* Sequence s is a, of length L, followed by b, of length K.
IsJoin(s, S, a, L, b, K) ==
    /\ s \in Seq(S) /\ Len(s) = L + K
    /\ \A k \in 1 .. L : s[k] = a[k]
    /\ \A k \in 1 .. K : s[L + k] = b[k]

LEMMA JoinTwo ==
    ASSUME NEW S, NEW a \in Seq(S), NEW b \in Seq(S)
    PROVE  IsJoin(a \o b, S, a, Len(a), b, Len(b))
BY DEF IsJoin

IsJoinOfThree(s, S, a, L, b, c, K) ==
    /\ s \in Seq(S) /\ Len(s) = L + 1 + K
    /\ \A k \in 1 .. L : s[k] = a[k]
    /\ s[L + 1] = b[1]
    /\ \A k \in 1 .. K : s[L + 1 + k] = c[k]

LEMMA JoinThree ==
    ASSUME NEW S, NEW a \in Seq(S), NEW b \in Seq(S), Len(b) = 1, NEW c \in Seq(S),
           NEW L \in Nat, L = Len(a), NEW K \in Nat, K = Len(c),
           NEW d, d = a \o b \o c
    PROVE  IsJoinOfThree(d, S, a, L, b, c, K)
<1>1. PICK ab : ab = a \o b
  OBVIOUS
<1>2. IsJoin(ab, S, a, L, b, 1)
  BY <1>1, JoinTwo, Zenon
<1>3. /\ ab \in Seq(S) /\ Len(ab) = L + 1
      /\ \A k \in 1 .. L : ab[k] = a[k]
      /\ \A k \in 1 .. 1 : ab[L + k] = b[k]
  BY <1>2, Zenon DEF IsJoin
<1>4. d = ab \o c
  BY <1>1
<1>5. IsJoin(d, S, ab, L + 1, c, K)
  BY <1>3, <1>4, JoinTwo, Zenon
<1>6. /\ d \in Seq(S) /\ Len(d) = (L + 1) + K
      /\ \A k \in 1 .. L + 1 : d[k] = ab[k]
      /\ \A k \in 1 .. K : d[(L + 1) + k] = c[k]
  BY <1>5, Zenon DEF IsJoin
<1>7. \A k \in 1 .. L : d[k] = a[k]
  <2> SUFFICES ASSUME NEW k \in 1 .. L PROVE d[k] = a[k]
    OBVIOUS
  <2>1. k \in 1 .. L + 1
    OBVIOUS
  <2> QED
    BY <1>3, <1>6, <2>1, Zenon
<1>8. d[L + 1] = b[1]
  <2>1. L + 1 \in 1 .. L + 1 /\ 1 \in 1 .. 1
    OBVIOUS
  <2> QED
    BY <1>3, <1>6, <2>1, Zenon
<1> QED
  BY <1>6, <1>7, <1>8, Zenon DEF IsJoinOfThree

\* The items of a, one for n, and the items of q behind its first.
IsReadQueue(q2, q, cs, n) ==
    /\ q2 \in Seq(Items) /\ Len(q2) = Len(cs) + Len(q)
    /\ \A k \in 1 .. Len(cs) : IsRead(q2[k]) /\ q2[k].node = cs[k]
    /\ ~ IsRead(q2[Len(cs) + 1]) /\ q2[Len(cs) + 1].node = n
    /\ \A k \in 1 .. Len(q) - 1 : q2[Len(cs) + 1 + k] = q[k + 1]

LEMMA ReadItems ==
    ASSUME NEW cs \in Seq(Nat)
    PROVE  /\ Item("read", cs) \in Seq(Items) /\ Len(Item("read", cs)) = Len(cs)
           /\ \A k \in 1 .. Len(cs) :
                 IsRead(Item("read", cs)[k]) /\ Item("read", cs)[k].node = cs[k]
<1>1. PICK s : s = "read"
  OBVIOUS
<1>2. s \in {"read", "construct"} /\ s = "read"
  BY <1>1
<1> QED
  BY <1>2, ItemFacts

LEMMA ConstructItem ==
    ASSUME NEW n \in Nat
    PROVE  /\ Item("construct", <<n>>) \in Seq(Items) /\ Len(Item("construct", <<n>>)) = 1
           /\ ~ IsRead(Item("construct", <<n>>)[1]) /\ Item("construct", <<n>>)[1].node = n
<1>1. PICK s : s = "construct"
  OBVIOUS
<1>2. s \in {"read", "construct"} /\ s # "read"
  BY <1>1
<1>3. PICK one : one = <<n>>
  OBVIOUS
<1>4. one \in Seq(Nat) /\ Len(one) = 1 /\ one[1] = n
  BY <1>3
<1>5. PICK q : q = Item(s, one)
  OBVIOUS
<1>6. /\ q \in Seq(Items) /\ Len(q) = Len(one)
      /\ \A k \in 1 .. Len(one) : (IsRead(q[k]) <=> s = "read") /\ q[k].node = one[k]
  BY <1>2, <1>4, <1>5, ItemFacts
<1>7. q \in Seq(Items) /\ Len(q) = 1 /\ ~ IsRead(q[1]) /\ q[1].node = n
  BY <1>2, <1>4, <1>6
<1>8. q = Item("construct", <<n>>)
  BY <1>1, <1>3, <1>5, Zenon
<1> QED
  BY <1>7, <1>8, Zenon

LEMMA ReadQueue ==
    ASSUME NEW q \in Seq(Items), q # <<>>, NEW cs \in Seq(Nat), NEW n \in Nat
    PROVE  IsReadQueue(Item("read", cs) \o Item("construct", <<n>>) \o Tail(q), q, cs, n)
<1>1. PICK a : a = Item("read", cs)
  OBVIOUS
<1>2. PICK b : b = Item("construct", <<n>>)
  OBVIOUS
<1>3. PICK c : c = Tail(q)
  OBVIOUS
<1>4. PICK L \in Nat : L = Len(cs)
  OBVIOUS
<1>5. /\ a \in Seq(Items) /\ Len(a) = L
      /\ \A k \in 1 .. L : IsRead(a[k]) /\ a[k].node = cs[k]
  BY <1>1, <1>4, ReadItems
<1>6. b \in Seq(Items) /\ Len(b) = 1 /\ ~ IsRead(b[1]) /\ b[1].node = n
  BY <1>2, ConstructItem, Zenon
<1>7. PICK K \in Nat : K = Len(q) - 1
  OBVIOUS
<1>8. /\ c \in Seq(Items) /\ Len(c) = K
      /\ \A k \in 1 .. K : c[k] = q[k + 1]
  BY <1>3, <1>7
<1>9. PICK d : d = a \o b \o c
  OBVIOUS
<1>10. /\ d \in Seq(Items) /\ Len(d) = L + 1 + K
       /\ \A k \in 1 .. L : d[k] = a[k]
       /\ d[L + 1] = b[1]
       /\ \A k \in 1 .. K : d[L + 1 + k] = c[k]
  <2>1. L = Len(a) /\ K = Len(c)
    BY <1>5, <1>8, Zenon
  <2>2. IsJoinOfThree(d, Items, a, L, b, c, K)
    BY <1>5, <1>6, <1>8, <1>9, <2>1, JoinThree, Zenon
  <2> QED
    BY <2>2, Zenon DEF IsJoinOfThree
<1>11. /\ d \in Seq(Items) /\ Len(d) = L + Len(q)
       /\ \A k \in 1 .. L : IsRead(d[k]) /\ d[k].node = cs[k]
       /\ ~ IsRead(d[L + 1]) /\ d[L + 1].node = n
       /\ \A k \in 1 .. K : d[L + 1 + k] = q[k + 1]
  <2>1. L + 1 + K = L + Len(q)
    BY <1>7
  <2> QED
    BY <1>5, <1>6, <1>8, <1>10, <2>1, Zenon
<1>12. IsReadQueue(d, q, cs, n)
  BY <1>4, <1>7, <1>11, Zenon DEF IsReadQueue
<1> QED
  BY <1>1, <1>2, <1>3, <1>9, <1>12, Zenon

\* Where the parts of nodes are, in a tree.
IsNested(t) ==
    /\ \A i \in 1 .. Len(t) : t[i].in \in Nat /\ t[i].in < i
    /\ \A i, j \in 1 .. Len(t) : i < j => t[j].in >= i \/ t[j].in <= t[i].in

\* An id of a field is that of another node only behind it, and not in it.
FieldIdsApart(t) ==
    \A f, n \in 1 .. Len(t) :
        IsField(t[f].of) /\ ~ IsField(t[n].of) /\ t[n].id = t[f].id => f < n /\ t[n].in < f

\* Before anything is read.
LEMMA StartDecoding ==
    ASSUME NEW t, Len(t) \in Nat, NEW roots,
           IsAscending(roots, {m \in 1 .. Len(t) : t[m].in = NoNode}), IsNested(t),
           NEW q, q = Item("read", roots), NEW nodes, NEW types
    PROVE  IsDecoding(t, q, 0, nodes, types)
<1>1. PICK N \in Nat : N = Len(t)
  OBVIOUS
<1>2. /\ roots \in Seq(Nat) /\ Pairwise(roots, Less)
      /\ \A x : Has(roots, x) <=> x \in 1 .. N /\ t[x].in = 0
  BY <1>1 DEF IsAscending, NoNode
<1>3. PICK L \in Nat : L = Len(roots)
  BY <1>2
<1>4. /\ q \in Seq(Items) /\ Len(q) = L
  BY <1>2, <1>3, ReadItems
<1>5. \A k \in 1 .. L : IsRead(q[k]) /\ q[k].node = roots[k]
  BY <1>2, <1>3, ReadItems
<1>6. \A k \in 1 .. L : roots[k] \in 1 .. N /\ t[roots[k]].in = 0
  BY <1>2, <1>3 DEF Has
<1>7. ItemsOk(t, q, 0)
  BY <1>1, <1>4, <1>5, <1>6 DEF ItemsOk
<1>8. FrontierOk(t, q, 0)
  <2> SUFFICES ASSUME NEW n \in 1 .. N, t[n].in <= 0
               PROVE  \E k \in 1 .. Len(q) : IsRead(q[k]) /\ q[k].node = n
    BY <1>1 DEF FrontierOk
  <2>1. t[n].in = 0
    BY <1>1 DEF IsNested
  <2>2. PICK k \in 1 .. L : roots[k] = n
    BY <1>2, <1>3, <2>1 DEF Has
  <2> QED
    BY <1>4, <1>5, <2>2
<1>9. ItemsInOrder(t, q)
  <2>1. \A j, k \in 1 .. L : j < k => roots[j] < roots[k]
    BY <1>2, <1>3, LessIs DEF Pairwise
  <2> QED
    BY <1>4, <1>5, <2>1 DEF ItemsInOrder
<1>10. Constructed(q, 0) = {}
  BY DEF Constructed
<1> QED
  BY <1>7, <1>8, <1>9, <1>10 DEF IsDecoding, ConstructedFirst, MapsHold

\* Items are read in the order of the nodes.
LEMMA NextIsRead ==
    ASSUME NEW t, Len(t) \in Nat, IsNested(t), NEW r \in 0 .. Len(t),
           NEW q, ItemsOk(t, q, r), FrontierOk(t, q, r), ItemsInOrder(t, q),
           q # <<>>, IsRead(q[1])
    PROVE  q[1].node = r + 1 /\ r + 1 \in 1 .. Len(t)
<1>1. PICK N \in Nat : N = Len(t)
  OBVIOUS
<1>2. PICK M \in Nat : M = Len(q) /\ M > 0
  BY DEF ItemsOk
<1>3. PICK n : n = q[1].node
  OBVIOUS
<1>4. n \in 1 .. N /\ n > r
  BY <1>1, <1>2, <1>3 DEF ItemsOk
<1>5. SUFFICES ASSUME r + 1 < n PROVE FALSE
  BY <1>1, <1>3, <1>4
<1>6. r + 1 \in 1 .. N
  BY <1>1, <1>4, <1>5
<1>7. t[r + 1].in <= r
  <2>1. t[r + 1].in \in Nat /\ t[r + 1].in < r + 1
    BY <1>1, <1>6 DEF IsNested
  <2> QED
    BY <1>1, <2>1
<1>8. PICK k \in 1 .. M : IsRead(q[k]) /\ q[k].node = r + 1
  BY <1>1, <1>2, <1>6, <1>7 DEF FrontierOk
<1>9. k # 1
  BY <1>3, <1>5, <1>8
<1>10. 1 \in 1 .. M /\ 1 < k
  BY <1>2, <1>8, <1>9
<1>11. q[1].node < q[k].node
  BY <1>2, <1>8, <1>10 DEF ItemsInOrder
<1> QED
  BY <1>1, <1>3, <1>4, <1>5, <1>8, <1>11

\* A node is read: its children are next, and then it is constructed.
LEMMA ReadDecoding ==
    ASSUME NEW t, Len(t) \in Nat, IsNested(t), NEW r \in 0 .. Len(t),
           NEW q, NEW nodes, NEW types, IsDecoding(t, q, r, nodes, types),
           q # <<>>, IsRead(q[1]), NEW n, n = q[1].node,
           NEW cs, IsAscending(cs, {m \in 1 .. Len(t) : t[m].in = n}),
           NEW q2, IsReadQueue(q2, q, cs, n)
    PROVE  /\ r + 1 \in 1 .. Len(t)
           /\ IsDecoding(t, q2, r + 1, nodes, types)
<1>1. PICK N \in Nat : N = Len(t)
  OBVIOUS
<1>2. PICK M \in Nat : M = Len(q) /\ M > 0
  BY DEF IsDecoding, ItemsOk
<1>3. n = r + 1 /\ n \in 1 .. N /\ r + 1 \in 1 .. Len(t)
  BY <1>1, NextIsRead DEF IsDecoding
<1>4. /\ cs \in Seq(Nat) /\ Pairwise(cs, Less)
      /\ \A x : Has(cs, x) <=> x \in 1 .. N /\ t[x].in = n
  BY <1>1 DEF IsAscending
<1>5. PICK L \in Nat : L = Len(cs)
  BY <1>4
<1>6. PICK C : C = L + 1
  OBVIOUS
<1>7. /\ q2 \in Seq(Items) /\ Len(q2) = L + M
      /\ \A k \in 1 .. L : IsRead(q2[k]) /\ q2[k].node = cs[k]
      /\ ~ IsRead(q2[C]) /\ q2[C].node = n
      /\ \A k \in 1 .. M - 1 : q2[C + k] = q[k + 1]
  BY <1>2, <1>5, <1>6, Zenon DEF IsReadQueue
<1>8. ASSUME NEW k \in 1 .. L + M
      PROVE  \/ k \in 1 .. L /\ IsRead(q2[k]) /\ q2[k].node = cs[k]
             \/ k = C /\ ~ IsRead(q2[k]) /\ q2[k].node = n
             \/ \E l \in 2 .. M : q2[k] = q[l] /\ k = L + l
  <2>1. k \in 1 .. L \/ k = C \/ k - C \in 1 .. M - 1
    BY <1>6
  <2>2. ASSUME k - C \in 1 .. M - 1 PROVE \E l \in 2 .. M : q2[k] = q[l] /\ k = L + l
    <3>1. q2[C + (k - C)] = q[(k - C) + 1]
      BY <1>7, <2>2
    <3>2. C + (k - C) = k /\ (k - C) + 1 \in 2 .. M /\ k = L + ((k - C) + 1)
      BY <1>6, <2>2
    <3> QED
      BY <3>1, <3>2
  <2> QED
    BY <1>7, <2>1, <2>2
<1>9. \A k \in 1 .. L : cs[k] \in 1 .. N /\ t[cs[k]].in = n /\ cs[k] > n
  <2>1. \A k \in 1 .. L : cs[k] \in 1 .. N /\ t[cs[k]].in = n
    BY <1>4, <1>5 DEF Has
  <2> QED
    BY <1>1, <1>3, <2>1 DEF IsNested
<1>10. ASSUME NEW l \in 2 .. M
       PROVE  /\ q[l].node \in 1 .. N
              /\ IsRead(q[l]) => q[l].node > n /\ t[q[l].node].in <= r
              /\ ~ IsRead(q[l]) => q[l].node <= r /\ q[l].node <= t[n].in
  <2>1. l \in 1 .. M /\ 1 \in 1 .. M /\ 1 < l
    BY <1>2
  <2>2. /\ q[l].node \in 1 .. N
        /\ IF IsRead(q[l]) THEN q[l].node > r /\ t[q[l].node].in <= r ELSE q[l].node <= r
    BY <1>1, <1>2, <2>1 DEF IsDecoding, ItemsOk
  <2>3. IF IsRead(q[l]) THEN IsRead(q[1]) => q[1].node < q[l].node
        ELSE q[l].node <= t[q[1].node].in
    BY <1>2, <2>1, Zenon DEF IsDecoding, ItemsInOrder
  <2> QED
    BY <2>2, <2>3
<1>11. ItemsOk(t, q2, r + 1)
  <2> SUFFICES ASSUME NEW k \in 1 .. L + M
               PROVE  /\ q2[k].node \in 1 .. N
                      /\ IF IsRead(q2[k])
                         THEN q2[k].node > r + 1 /\ t[q2[k].node].in <= r + 1
                         ELSE q2[k].node <= r + 1
    BY <1>1, <1>7 DEF ItemsOk
  <2>1. CASE k \in 1 .. L /\ IsRead(q2[k]) /\ q2[k].node = cs[k]
    BY <1>3, <1>9, <2>1
  <2>2. CASE k = C /\ ~ IsRead(q2[k]) /\ q2[k].node = n
    BY <1>3, <2>2
  <2>3. ASSUME NEW l \in 2 .. M, q2[k] = q[l], k = L + l
        PROVE  /\ q2[k].node \in 1 .. N
               /\ IF IsRead(q2[k])
                  THEN q2[k].node > r + 1 /\ t[q2[k].node].in <= r + 1
                  ELSE q2[k].node <= r + 1
    <3>1. IsRead(q[l]) => t[q[l].node].in \in Nat
      BY <1>1, <1>10 DEF IsNested
    <3> QED
      BY <1>1, <1>3, <1>10, <2>3, <3>1
  <2> QED
    BY <1>8, <2>1, <2>2, <2>3
<1>12. FrontierOk(t, q2, r + 1)
  <2> SUFFICES ASSUME NEW m \in 1 .. N, m > r + 1, t[m].in <= r + 1
               PROVE  \E k \in 1 .. L + M : IsRead(q2[k]) /\ q2[k].node = m
    BY <1>1, <1>7 DEF FrontierOk
  <2>1. CASE t[m].in = n
    <3>1. PICK k \in 1 .. L : cs[k] = m
      BY <1>4, <1>5, <2>1 DEF Has
    <3>2. k \in 1 .. L + M
      OBVIOUS
    <3> QED
      BY <1>7, <3>1, <3>2
  <2>2. CASE t[m].in # n
    <3>1. t[m].in <= r /\ m > r
      <4>1. t[m].in \in Nat
        BY <1>1 DEF IsNested
      <4> QED
        BY <1>1, <1>3, <2>2, <4>1
    <3>2. PICK l \in 1 .. M : IsRead(q[l]) /\ q[l].node = m
      BY <1>1, <1>2, <3>1 DEF IsDecoding, FrontierOk
    <3>3. l # 1
      <4>1. m # n
        BY <1>1, <1>3
      <4> QED
        BY <3>2, <4>1
    <3>4. l - 1 \in 1 .. M - 1 /\ (l - 1) + 1 = l /\ C + (l - 1) \in 1 .. L + M
      BY <1>6, <3>3
    <3>5. q2[C + (l - 1)] = q[l]
      BY <1>7, <3>4
    <3> QED
      BY <3>2, <3>4, <3>5
  <2> QED
    BY <2>1, <2>2
<1>13. ASSUME NEW j \in 1 .. L, NEW l \in 2 .. M, IsRead(q[l])
       PROVE  cs[j] < q[l].node
  <2>1. PICK m : m = q[l].node
    OBVIOUS
  <2>2. PICK c : c = cs[j]
    OBVIOUS
  <2>3. m \in 1 .. N /\ m > n /\ t[m].in <= r /\ t[m].in \in Nat
    BY <1>1, <1>10, <1>13, <2>1 DEF IsNested
  <2>4. c \in 1 .. N /\ t[c].in = n
    BY <1>9, <2>2
  <2>5. ~ (m < c)
    <3> SUFFICES ASSUME m < c PROVE FALSE
      OBVIOUS
    <3>1. t[c].in >= m \/ t[c].in <= t[m].in
      BY <1>1, <2>3, <2>4 DEF IsNested
    <3> QED
      BY <1>1, <1>3, <2>3, <2>4, <3>1
  <2>6. m # c
    BY <1>1, <1>3, <2>3, <2>4
  <2> QED
    BY <2>1, <2>2, <2>3, <2>4, <2>5, <2>6
<1>14. ItemsInOrder(t, q2)
  <2> SUFFICES ASSUME NEW j \in 1 .. L + M, NEW k \in 1 .. L + M, j < k
               PROVE  IF IsRead(q2[k]) THEN IsRead(q2[j]) => q2[j].node < q2[k].node
                      ELSE q2[k].node <= t[q2[j].node].in
    BY <1>7 DEF ItemsInOrder
  <2>1. CASE k \in 1 .. L /\ IsRead(q2[k]) /\ q2[k].node = cs[k]
    <3>1. j \in 1 .. L /\ q2[j].node = cs[j]
      BY <1>7, <2>1
    <3>2. cs[j] < cs[k]
      BY <1>4, <1>5, <2>1, <3>1, LessIs DEF Pairwise
    <3> QED
      BY <2>1, <3>1, <3>2
  <2>2. CASE k = C /\ ~ IsRead(q2[k]) /\ q2[k].node = n
    <3>1. j \in 1 .. L /\ q2[j].node = cs[j]
      BY <1>6, <1>7, <2>2
    <3>2. n <= t[cs[j]].in
      BY <1>3, <1>9, <3>1
    <3> QED
      BY <2>2, <3>1, <3>2
  <2>3. ASSUME NEW l \in 2 .. M, q2[k] = q[l], k = L + l
        PROVE  IF IsRead(q2[k]) THEN IsRead(q2[j]) => q2[j].node < q2[k].node
               ELSE q2[k].node <= t[q2[j].node].in
    <3>1. CASE j \in 1 .. L /\ IsRead(q2[j]) /\ q2[j].node = cs[j]
      <4>1. CASE IsRead(q[l])
        BY <1>13, <2>3, <3>1, <4>1
      <4>2. CASE ~ IsRead(q[l])
        <5>1. q[l].node <= r /\ q[l].node \in Nat
          BY <1>10, <4>2
        <5>2. t[cs[j]].in = n
          BY <1>9, <3>1
        <5>3. q[l].node <= t[cs[j]].in
          BY <1>1, <1>3, <5>1, <5>2
        <5> QED
          BY <2>3, <3>1, <4>2, <5>3
      <4> QED
        BY <4>1, <4>2
    <3>2. CASE j = C /\ ~ IsRead(q2[j]) /\ q2[j].node = n
      BY <1>10, <2>3, <3>2
    <3>3. ASSUME NEW i \in 2 .. M, q2[j] = q[i], j = L + i
          PROVE  IF IsRead(q2[k]) THEN IsRead(q2[j]) => q2[j].node < q2[k].node
                 ELSE q2[k].node <= t[q2[j].node].in
      <4>1. i \in 1 .. M /\ l \in 1 .. M /\ i < l
        BY <2>3, <3>3
      <4>2. IF IsRead(q[l]) THEN IsRead(q[i]) => q[i].node < q[l].node
            ELSE q[l].node <= t[q[i].node].in
        BY <1>2, <4>1, Zenon DEF IsDecoding, ItemsInOrder
      <4> QED
        BY <2>3, <3>3, <4>2
    <3> QED
      BY <1>8, <3>1, <3>2, <3>3
  <2> QED
    BY <1>8, <2>1, <2>2, <2>3
<1>15. Constructed(q2, r + 1) = Constructed(q, r)
  <2>1. ASSUME NEW m \in Constructed(q2, r + 1) PROVE m \in Constructed(q, r)
    <3>1. m \in 1 .. r + 1 /\ \A k \in 1 .. L + M : ~ IsRead(q2[k]) => q2[k].node # m
      BY <1>7, <2>1 DEF Constructed
    <3>2. C \in 1 .. L + M
      BY <1>2, <1>6
    <3>3. m # n
      BY <1>7, <3>1, <3>2
    <3>4. m \in 1 .. r
      BY <1>1, <1>3, <3>1, <3>3
    <3>5. ASSUME NEW l \in 1 .. M, ~ IsRead(q[l]) PROVE q[l].node # m
      <4>1. l # 1
        BY <3>5
      <4>2. l - 1 \in 1 .. M - 1 /\ (l - 1) + 1 = l /\ C + (l - 1) \in 1 .. L + M
        BY <1>6, <4>1
      <4>3. q2[C + (l - 1)] = q[l]
        BY <1>7, <4>2
      <4> QED
        BY <3>1, <3>5, <4>2, <4>3
    <3> QED
      BY <1>2, <3>4, <3>5 DEF Constructed
  <2>2. ASSUME NEW m \in Constructed(q, r) PROVE m \in Constructed(q2, r + 1)
    <3>1. m \in 1 .. r /\ \A l \in 1 .. M : ~ IsRead(q[l]) => q[l].node # m
      BY <1>2, <2>2 DEF Constructed
    <3>2. m \in 1 .. r + 1 /\ m # n
      BY <1>1, <1>3, <3>1
    <3>3. ASSUME NEW k \in 1 .. L + M, ~ IsRead(q2[k]) PROVE q2[k].node # m
      BY <1>8, <3>1, <3>2, <3>3
    <3> QED
      BY <1>7, <3>2, <3>3 DEF Constructed
  <2> QED
    BY <2>1, <2>2
<1> QED
  BY <1>3, <1>11, <1>12, <1>14, <1>15, Zenon DEF IsDecoding

\* No id of a node is that of another, and the map of the other nodes keeps it.
IdsApart(t) ==
    \A m, n \in 1 .. Len(t) :
        ~ IsField(t[m].of) /\ ~ IsField(t[n].of) /\ t[m].id = t[n].id => m = n

\* A node that is constructed is entered in the map for its kind.
EnteredIn(node, n, nodes, types, nodes2, types2) ==
    IF IsSsaType(node) THEN types2 = Enter(types, node.id, n) /\ nodes2 = nodes
    ELSE nodes2 = Enter(nodes, node.id, n) /\ types2 = types

LEMMA TailItems ==
    ASSUME NEW q \in Seq(Items), q # <<>>
    PROVE  /\ Tail(q) \in Seq(Items) /\ Len(q) \in Nat \ {0} /\ Len(Tail(q)) = Len(q) - 1
           /\ \A k \in 1 .. Len(q) - 1 : Tail(q)[k] = q[k + 1] /\ k + 1 \in 2 .. Len(q)
           /\ \A l \in 2 .. Len(q) : l - 1 \in 1 .. Len(q) - 1 /\ Tail(q)[l - 1] = q[l]
<1>1. /\ Tail(q) \in Seq(Items) /\ Len(q) \in Nat \ {0} /\ Len(Tail(q)) = Len(q) - 1
      /\ \A k \in 1 .. Len(q) - 1 : Tail(q)[k] = q[k + 1] /\ k + 1 \in 2 .. Len(q)
  OBVIOUS
<1>2. ASSUME NEW l \in 2 .. Len(q) PROVE l - 1 \in 1 .. Len(q) - 1 /\ Tail(q)[l - 1] = q[l]
  <2>1. l - 1 \in 1 .. Len(q) - 1 /\ (l - 1) + 1 = l
    BY <1>1
  <2>2. Tail(q)[l - 1] = q[(l - 1) + 1]
    BY <1>1, <2>1, Zenon
  <2> QED
    BY <2>1, <2>2
<1> QED
  BY <1>1, <1>2

LEMMA ConstructDecoding ==
    ASSUME NEW t, Len(t) \in Nat, IsNested(t), IdsApart(t), FieldIdsApart(t),
           NEW r \in 0 .. Len(t),
           NEW q, NEW nodes, NEW types, IsDecoding(t, q, r, nodes, types),
           q # <<>>, ~ IsRead(q[1]), NEW f, f = q[1].node,
           NEW nodes2, NEW types2, EnteredIn(t[f], f, nodes, types, nodes2, types2)
    PROVE  IsDecoding(t, Tail(q), r, nodes2, types2)
<1>1. PICK N \in Nat : N = Len(t)
  OBVIOUS
<1>0. q \in Seq(Items)
  BY DEF IsDecoding, ItemsOk
<1>2. PICK M \in Nat : M = Len(q) /\ M > 0
  BY <1>0
<1>3. PICK q2 : q2 = Tail(q)
  OBVIOUS
<1>4. /\ q2 \in Seq(Items) /\ Len(q2) = M - 1
      /\ \A k \in 1 .. M - 1 : q2[k] = q[k + 1] /\ k + 1 \in 2 .. M
      /\ \A l \in 2 .. M : l - 1 \in 1 .. M - 1 /\ q2[l - 1] = q[l]
  BY <1>0, <1>2, <1>3, TailItems
<1>5. f \in 1 .. N /\ f <= r
  BY <1>1, <1>2 DEF IsDecoding, ItemsOk
<1>6. ASSUME NEW l \in 2 .. M, ~ IsRead(q[l])
      PROVE  q[l].node \in 1 .. N /\ q[l].node <= t[f].in /\ t[f].in \in Nat /\ t[f].in < f
  <2>1. l \in 1 .. M /\ 1 \in 1 .. M /\ 1 < l
    BY <1>2
  <2>2. q[l].node \in 1 .. N
    BY <1>1, <1>2, <2>1 DEF IsDecoding, ItemsOk
  <2>3. q[l].node <= t[q[1].node].in
    BY <1>2, <1>6, <2>1, Zenon DEF IsDecoding, ItemsInOrder
  <2> QED
    BY <1>1, <1>5, <2>2, <2>3 DEF IsNested
<1>7. ItemsOk(t, q2, r)
  <2> SUFFICES ASSUME NEW k \in 1 .. M - 1
               PROVE  /\ q2[k].node \in 1 .. N
                      /\ IF IsRead(q2[k]) THEN q2[k].node > r /\ t[q2[k].node].in <= r
                         ELSE q2[k].node <= r
    BY <1>1, <1>4 DEF ItemsOk
  <2>1. k + 1 \in 1 .. M /\ q2[k] = q[k + 1]
    BY <1>4
  <2>2. /\ q[k + 1].node \in 1 .. N
        /\ IF IsRead(q[k + 1]) THEN q[k + 1].node > r /\ t[q[k + 1].node].in <= r
           ELSE q[k + 1].node <= r
    BY <1>1, <1>2, <2>1 DEF IsDecoding, ItemsOk
  <2> QED
    BY <2>1, <2>2
<1>8. FrontierOk(t, q2, r)
  <2> SUFFICES ASSUME NEW m \in 1 .. N, m > r, t[m].in <= r
               PROVE  \E k \in 1 .. M - 1 : IsRead(q2[k]) /\ q2[k].node = m
    BY <1>1, <1>4 DEF FrontierOk
  <2>1. PICK l \in 1 .. M : IsRead(q[l]) /\ q[l].node = m
    BY <1>1, <1>2 DEF IsDecoding, FrontierOk
  <2>2. l \in 2 .. M
    BY <2>1
  <2> QED
    BY <1>4, <2>1, <2>2
<1>9. ItemsInOrder(t, q2)
  <2> SUFFICES ASSUME NEW j \in 1 .. M - 1, NEW k \in 1 .. M - 1, j < k
               PROVE  IF IsRead(q2[k]) THEN IsRead(q2[j]) => q2[j].node < q2[k].node
                      ELSE q2[k].node <= t[q2[j].node].in
    BY <1>4 DEF ItemsInOrder
  <2>1. /\ k + 1 \in 1 .. M /\ q2[k] = q[k + 1]
        /\ j + 1 \in 1 .. M /\ q2[j] = q[j + 1] /\ j + 1 < k + 1
    BY <1>4
  <2>2. IF IsRead(q[k + 1]) THEN IsRead(q[j + 1]) => q[j + 1].node < q[k + 1].node
        ELSE q[k + 1].node <= t[q[j + 1].node].in
    BY <1>2, <2>1, Zenon DEF IsDecoding, ItemsInOrder
  <2> QED
    BY <2>1, <2>2
<1>10. PICK C : C = Constructed(q, r)
  OBVIOUS
<1>11. \A m : m \in C <=> m \in 1 .. r /\ \A l \in 1 .. M : ~ IsRead(q[l]) => q[l].node # m
  BY <1>2, <1>10 DEF Constructed
<1>12. f \notin C
  BY <1>2, <1>11
<1>13. Constructed(q2, r) = C \cup {f}
  <2>1. ASSUME NEW m \in 1 .. r, \A k \in 1 .. M - 1 : ~ IsRead(q2[k]) => q2[k].node # m, m # f
        PROVE  m \in C
    <3>1. ASSUME NEW l \in 1 .. M, ~ IsRead(q[l]) PROVE q[l].node # m
      <4>1. CASE l = 1
        BY <2>1, <4>1
      <4>2. CASE l # 1
        <5>1. l \in 2 .. M
          BY <4>2
        <5> QED
          BY <1>4, <2>1, <3>1, <5>1
      <4> QED
        BY <4>1, <4>2
    <3> QED
      BY <1>11, <3>1
  <2>2. ASSUME NEW m \in C, NEW k \in 1 .. M - 1, ~ IsRead(q2[k]) PROVE q2[k].node # m
    <3>1. q2[k] = q[k + 1] /\ k + 1 \in 1 .. M
      BY <1>4
    <3> QED
      BY <1>11, <2>2, <3>1
  <2>3. ASSUME NEW k \in 1 .. M - 1, ~ IsRead(q2[k]) PROVE q2[k].node # f
    <3>1. q2[k] = q[k + 1] /\ k + 1 \in 2 .. M
      BY <1>4
    <3>2. /\ q[k + 1].node \in 1 .. N /\ q[k + 1].node <= t[f].in
          /\ t[f].in \in Nat /\ t[f].in < f
      BY <1>6, <2>3, <3>1
    <3> QED
      BY <1>5, <3>1, <3>2
  <2>4. f \in 1 .. r
    BY <1>1, <1>5
  <2>5. Constructed(q2, r)
           = {m \in 1 .. r : \A k \in 1 .. M - 1 : ~ IsRead(q2[k]) => q2[k].node # m}
    BY <1>4 DEF Constructed
  <2> QED
    BY <1>11, <2>1, <2>2, <2>3, <2>4, <2>5
<1>14. ConstructedFirst(t, C \cup {f})
  <2> SUFFICES ASSUME NEW n \in C \cup {f}, NEW h \in 1 .. N, t[n].in < h, h < n
               PROVE  h \in C \cup {f}
    BY <1>1 DEF ConstructedFirst
  <2>1. CASE n \in C
    BY <1>1, <1>10, <2>1 DEF IsDecoding, ConstructedFirst
  <2>2. CASE n = f
    <3>1. h \in 1 .. r
      BY <1>1, <1>5, <2>2
    <3>2. ASSUME NEW l \in 1 .. M, ~ IsRead(q[l]) PROVE q[l].node # h
      <4>1. CASE l = 1
        BY <1>5, <2>2, <4>1
      <4>2. CASE l # 1
        <5>1. l \in 2 .. M
          BY <4>2
        <5>2. q[l].node \in 1 .. N /\ q[l].node <= t[f].in /\ t[f].in \in Nat
          BY <1>6, <3>2, <5>1
        <5> QED
          BY <2>2, <5>2
      <4> QED
        BY <4>1, <4>2
    <3> QED
      BY <1>11, <3>1, <3>2
  <2> QED
    BY <2>1, <2>2
<1>15. MapsHold(t, C \cup {f}, nodes2, types2)
  <2> SUFFICES ASSUME NEW n \in C \cup {f}, ~ IsField(t[n].of)
               PROVE  LET map == IF IsSsaType(t[n]) THEN types2 ELSE nodes2
                      IN  t[n].id \in DOMAIN map /\ map[t[n].id] = n
    BY DEF MapsHold
  <2>1. PICK map : map = IF IsSsaType(t[n]) THEN types ELSE nodes
    OBVIOUS
  <2>2. PICK map2 : map2 = IF IsSsaType(t[n]) THEN types2 ELSE nodes2
    OBVIOUS
  <2>3. map2 = map \/ map2 = Enter(map, t[f].id, f)
    BY <2>1, <2>2 DEF EnteredIn
  <2>4. CASE n = f
    <3>1. map2 = Enter(map, t[f].id, f)
      BY <2>1, <2>2, <2>4 DEF EnteredIn
    <3>2. t[f].id \in DOMAIN map2 /\ map2[t[f].id] = f
      BY <3>1 DEF Enter
    <3> QED
      BY <2>2, <2>4, <3>2
  <2>5. CASE n # f
    <3>1. n \in C
      BY <2>5
    <3>2. t[n].id \in DOMAIN map /\ map[t[n].id] = n
      BY <1>10, <2>1, <3>1, Zenon DEF IsDecoding, MapsHold
    <3>3. n \in 1 .. N
      BY <1>1, <1>11, <3>1
    <3>4. t[n].id # t[f].id
      <4>1. CASE ~ IsField(t[f].of)
        BY <1>1, <1>5, <2>5, <3>3, <4>1 DEF IdsApart
      <4>2. CASE IsField(t[f].of)
        <5> SUFFICES ASSUME t[n].id = t[f].id PROVE FALSE
          OBVIOUS
        <5>1. f < n /\ t[n].in < f
          BY <1>1, <1>5, <3>3, <4>2 DEF FieldIdsApart
        <5>2. f \in C
          BY <1>1, <1>5, <1>10, <3>1, <5>1 DEF IsDecoding, ConstructedFirst
        <5> QED
          BY <1>12, <5>2
      <4> QED
        BY <4>1, <4>2
    <3>5. t[n].id \in DOMAIN map2 /\ map2[t[n].id] = n
      <4>1. CASE map2 = map
        BY <3>2, <4>1
      <4>2. CASE map2 = Enter(map, t[f].id, f)
        BY <3>2, <3>4, <4>2 DEF Enter
      <4> QED
        BY <2>3, <4>1, <4>2
    <3> QED
      BY <2>2, <3>5
  <2> QED
    BY <2>4, <2>5
<1> QED
  BY <1>3, <1>7, <1>8, <1>9, <1>13, <1>14, <1>15, Zenon DEF IsDecoding

\* When nothing is left to be read, every node was constructed.
LEMMA AllConstructed ==
    ASSUME NEW t, Len(t) \in Nat, IsNested(t), NEW r \in 0 .. Len(t),
           NEW nodes, NEW types, IsDecoding(t, <<>>, r, nodes, types)
    PROVE  MapsHold(t, 1 .. Len(t), nodes, types)
<1>1. PICK N \in Nat : N = Len(t)
  OBVIOUS
<1>2. PICK q : q = <<>>
  OBVIOUS
<1>3. Len(q) = 0 /\ 1 .. Len(q) = {}
  BY <1>2
<1>4. r = N
  <2> SUFFICES ASSUME r < N PROVE FALSE
    BY <1>1
  <2>1. r + 1 \in 1 .. N /\ r + 1 > r
    BY <1>1
  <2>2. t[r + 1].in <= r
    <3>1. t[r + 1].in \in Nat /\ t[r + 1].in < r + 1
      BY <1>1, <2>1 DEF IsNested
    <3> QED
      BY <1>1, <3>1
  <2>3. \E k \in 1 .. Len(q) : IsRead(q[k]) /\ q[k].node = r + 1
    BY <1>1, <1>2, <2>1, <2>2 DEF IsDecoding, FrontierOk
  <2> QED
    BY <1>3, <2>3
<1>5. Constructed(q, r) = 1 .. N
  BY <1>3, <1>4 DEF Constructed
<1>6. MapsHold(t, Constructed(q, r), nodes, types)
  BY <1>2, Zenon DEF IsDecoding
<1> QED
  BY <1>1, <1>5, <1>6

LEMMA TreeShape ==
    ASSUME NEW t \in Seq(Nodes), NEW refs, NEW next, NEW fs, IsTree(t, refs, next, <<>>, fs)
    PROVE  /\ IsWhole(t, fs) /\ IsNested(t) /\ IdsApart(t) /\ FieldIdsApart(t)
           /\ \A n \in 1 .. Len(t) : NodeFits(t[n])
           /\ Written(t, refs)
<1>1. IsWhole(t, fs) /\ FieldIdsApart(t)
  BY WholeTree, Zenon DEF FieldIdsApart
<1>2. IsNested(t)
  <2>1. /\ \A i \in 1 .. Len(t) : t[i].in \in Nat /\ t[i].in < i /\ ~ IsEnd(t[i])
        /\ \A i, j \in 1 .. Len(t) : i < j => t[j].in >= i \/ t[j].in <= t[i].in
    BY <1>1, Zenon DEF IsWhole
  <2> QED
    BY <2>1, Zenon DEF IsNested
<1>3. IdsGrow(t, next) /\ Written(t, refs) /\ \A n \in 1 .. Len(t) : NodeFits(t[n])
  BY Zenon DEF IsTree
<1>4. IdsApart(t)
  <2> SUFFICES ASSUME NEW m \in 1 .. Len(t), NEW n \in 1 .. Len(t),
                      ~ IsField(t[m].of), ~ IsField(t[n].of), t[m].id = t[n].id, m < n
               PROVE  FALSE
    BY DEF IdsApart
  <2>1. t[m].id < t[n].id
    BY <1>3 DEF IdsGrow
  <2>2. t[m] \in Nodes /\ t[n] \in Nodes
    OBVIOUS
  <2>3. t[m].id \in Nat /\ t[n].id \in Nat
    BY <2>2 DEF Nodes
  <2> QED
    BY <2>1, <2>3
<1> QED
  BY <1>1, <1>2, <1>3, <1>4

\* The tree that is read.
LEMMA WrittenTree ==
    ASSUME WalkInv, TreeInv, calls = <<>>, todo = {}
    PROVE  /\ prog \in DOMAIN Programs /\ tree \in Seq(Nodes) /\ Len(tree) \in Nat
           /\ IsFiniteSet(Programs[prog].functions)
           /\ IsWhole(tree, Programs[prog].functions) /\ IsNested(tree)
           /\ IdsApart(tree) /\ FieldIdsApart(tree)
           /\ \A n \in 1 .. Len(tree) : NodeFits(tree[n])
           /\ Written(tree, nodeRefs)
<1>1. prog \in DOMAIN Programs /\ tree \in Seq(Nodes)
  BY DEF WalkInv, IsWalk
<1>2. IsFiniteSet(Programs[prog].functions)
  BY <1>1, ObjectFacts, FS_Subset
<1>3. PICK fs : fs = Programs[prog].functions
  OBVIOUS
<1>4. fs = fs \ todo
  OBVIOUS
<1>5. IsTree(tree, nodeRefs, nodeIDCounter, <<>>, fs)
  BY <1>3, <1>4, Zenon DEF TreeInv
<1>6. /\ IsWhole(tree, fs) /\ IsNested(tree) /\ IdsApart(tree) /\ FieldIdsApart(tree)
      /\ \A n \in 1 .. Len(tree) : NodeFits(tree[n])
      /\ Written(tree, nodeRefs)
  BY <1>1, <1>5, TreeShape, Zenon
<1>7. Len(tree) \in Nat
  BY <1>1
<1> QED
  BY <1>1, <1>2, <1>3, <1>6, <1>7, Zenon

LEMMA DecodingAfter ==
    ASSUME prog' = prog, NEW r, IsDecoding(tree', reading', r, allNodes', allTypes')
    PROVE  IsDecoding(tree, reading, r, allNodes, allTypes)'
<1>1. Objects' = Objects
  BY DEF Objects
<1>2. \A o : KindOf(o)' = KindOf(o)
  BY <1>1 DEF KindOf
<1>3. \A o : IsField(o)' <=> IsField(o)
  BY <1>2 DEF IsField
<1>4. ASSUME NEW t, NEW C, NEW nodes, NEW types, MapsHold(t, C, nodes, types)
      PROVE  MapsHold(t, C, nodes, types)'
  BY <1>3, <1>4 DEF MapsHold
<1>5. /\ ItemsOk(tree, reading, r)' /\ FrontierOk(tree, reading, r)'
      /\ ItemsInOrder(tree, reading)' /\ ConstructedFirst(tree, Constructed(reading, r))'
  BY DEF IsDecoding, ItemsOk, FrontierOk, ItemsInOrder, ConstructedFirst, Constructed
<1>6. MapsHold(tree', Constructed(reading', r), allNodes', allTypes')
  BY DEF IsDecoding
<1>7. MapsHold(tree, Constructed(reading, r), allNodes, allTypes)'
  BY <1>3, <1>6 DEF MapsHold, Constructed
<1> QED
  BY <1>5, <1>7 DEF IsDecoding

\* While the decoder is at work, what it has to do is in the order of the nodes.
LEMMA StillDecoding ==
    ASSUME prog' = prog, todo' = {}, calls' = <<>>, NEW r \in 0 .. Len(tree'),
           IsDecoding(tree', reading', r, allNodes', allTypes'),
           phase' = "decoded" => reading' = <<>>
    PROVE  DecodeInv'
<1>1. IsDecoding(tree, reading, r, allNodes, allTypes)'
  BY DecodingAfter
<1> QED
  BY <1>1 DEF DecodeInv

LEMMA WriteFileDecode ==
    ASSUME WalkInv, TreeInv, WriteFile
    PROVE  DecodeInv'
<1>1. /\ calls = <<>> /\ todo = {} /\ phase' = "decode" /\ prog' = prog /\ todo' = todo
      /\ calls' = calls /\ tree' = tree /\ allNodes' = allNodes /\ allTypes' = allTypes
      /\ reading' = Item("read", Roots)
  BY DEF WriteFile
<1>2. PICK fs : fs = Programs[prog].functions
  OBVIOUS
<1>3. /\ tree \in Seq(Nodes) /\ Len(tree) \in Nat /\ IsFiniteSet(fs)
      /\ IsWhole(tree, fs) /\ IsNested(tree)
  BY <1>1, <1>2, WrittenTree, Zenon
<1>4. IsAscending(Roots, {m \in 1 .. Len(tree) : tree[m].in = NoNode})
  BY <1>3, RootsAre, Zenon
<1>5. IsDecoding(tree, reading', 0, allNodes', allTypes')
  BY <1>1, <1>3, <1>4, StartDecoding, Zenon
<1>6. 0 \in 0 .. Len(tree)
  BY <1>3
<1> QED
  BY <1>1, <1>5, <1>6, StillDecoding

LEMMA ReadNodeDecode ==
    ASSUME WalkInv, TreeInv, DecodeInv, ReadNode
    PROVE  DecodeInv'
<1>1. /\ phase = "decode" /\ phase' = "decode" /\ prog' = prog /\ todo' = todo
      /\ calls' = calls /\ tree' = tree /\ allNodes' = allNodes /\ allTypes' = allTypes
      /\ reading # <<>> /\ Head(reading).step = "read"
      /\ reading' = Item("read", Children(Head(reading).node))
                       \o Item("construct", <<Head(reading).node>>) \o Tail(reading)
  BY DEF ReadNode, Decodes
<1>2. /\ calls = <<>> /\ todo = {}
      /\ \E r \in 0 .. Len(tree) : IsDecoding(tree, reading, r, allNodes, allTypes)
  BY <1>1 DEF DecodeInv
<1>3. PICK r \in 0 .. Len(tree) : IsDecoding(tree, reading, r, allNodes, allTypes)
  BY <1>2
<1>4. PICK fs : fs = Programs[prog].functions
  OBVIOUS
<1>5. /\ prog \in DOMAIN Programs /\ tree \in Seq(Nodes) /\ Len(tree) \in Nat
      /\ IsFiniteSet(fs)
      /\ IsWhole(tree, fs) /\ IsNested(tree)
      /\ \A n \in 1 .. Len(tree) : NodeFits(tree[n])
  BY <1>2, <1>4, WrittenTree, Zenon
<1>6. ItemsOk(tree, reading, r)
  BY <1>3 DEF IsDecoding
<1>7. reading \in Seq(Items) /\ Head(reading) = reading[1] /\ 1 \in 1 .. Len(reading)
  <2>1. reading \in Seq(Items)
    BY <1>6 DEF ItemsOk
  <2> QED
    BY <1>1, <2>1
<1>8. PICK n : n = reading[1].node
  OBVIOUS
<1>9. n \in 1 .. Len(tree)
  BY <1>6, <1>7, <1>8 DEF ItemsOk
<1>10. PICK cs : cs = Children(n)
  OBVIOUS
<1>11. IsAscending(cs, {m \in 1 .. Len(tree) : tree[m].in = n})
  BY <1>5, <1>9, <1>10, ChildrenAre, Zenon
<1>12. cs \in Seq(Nat) /\ n \in Nat
  BY <1>9, <1>11 DEF IsAscending
<1>13. IsRead(reading[1])
  BY <1>1, <1>7 DEF IsRead
<1>14. IsReadQueue(reading', reading, cs, n)
  <2>1. reading' = Item("read", cs) \o Item("construct", <<n>>) \o Tail(reading)
    BY <1>1, <1>7, <1>8, <1>10, Zenon
  <2>2. IsReadQueue(Item("read", cs) \o Item("construct", <<n>>) \o Tail(reading),
                    reading, cs, n)
    BY <1>1, <1>7, <1>12, ReadQueue, Zenon
  <2> QED
    BY <2>1, <2>2, Zenon
<1>15. r + 1 \in 1 .. Len(tree) /\ IsDecoding(tree, reading', r + 1, allNodes, allTypes)
  BY <1>1, <1>3, <1>5, <1>8, <1>11, <1>13, <1>14, ReadDecoding, Zenon
<1>16. r + 1 \in 0 .. Len(tree)
  BY <1>5, <1>15
<1>17. phase' = "decoded" => reading' = <<>>
  BY <1>1
<1>18. todo' = {} /\ calls' = <<>>
  BY <1>1, <1>2
<1>19. IsDecoding(tree', reading', r + 1, allNodes', allTypes') /\ r + 1 \in 0 .. Len(tree')
  BY <1>1, <1>15, <1>16, Zenon
<1> QED
  BY <1>1, <1>17, <1>18, <1>19, StillDecoding, Zenon

LEMMA ConstructNodeDecode ==
    ASSUME WalkInv, TreeInv, DecodeInv, ConstructNode
    PROVE  DecodeInv'
<1>1. /\ phase = "decode" /\ phase' = "decode" /\ prog' = prog /\ todo' = todo
      /\ calls' = calls /\ tree' = tree
      /\ reading # <<>> /\ Head(reading).step = "construct"
      /\ reading' = Tail(reading)
  BY DEF ConstructNode, Decodes
<1>2. /\ calls = <<>> /\ todo = {}
      /\ \E r \in 0 .. Len(tree) : IsDecoding(tree, reading, r, allNodes, allTypes)
  BY <1>1 DEF DecodeInv
<1>3. PICK r \in 0 .. Len(tree) : IsDecoding(tree, reading, r, allNodes, allTypes)
  BY <1>2
<1>4. /\ Len(tree) \in Nat /\ IsNested(tree) /\ IdsApart(tree) /\ FieldIdsApart(tree)
  BY <1>2, WrittenTree, Zenon
<1>5. ItemsOk(tree, reading, r)
  BY <1>3 DEF IsDecoding
<1>6. reading \in Seq(Items) /\ Head(reading) = reading[1]
  <2>1. reading \in Seq(Items)
    BY <1>5 DEF ItemsOk
  <2> QED
    BY <1>1, <2>1
<1>7. PICK f : f = reading[1].node
  OBVIOUS
<1>8. ~ IsRead(reading[1])
  BY <1>1, <1>6 DEF IsRead
<1>9. EnteredIn(tree[f], f, allNodes, allTypes, allNodes', allTypes')
  BY <1>6, <1>7 DEF ConstructNode, EnteredIn
<1>10. IsDecoding(tree, Tail(reading), r, allNodes', allTypes')
  BY <1>1, <1>3, <1>4, <1>7, <1>8, <1>9, ConstructDecoding, Zenon
<1>11. IsDecoding(tree', reading', r, allNodes', allTypes') /\ r \in 0 .. Len(tree')
  BY <1>1, <1>10, Zenon
<1>12. phase' = "decoded" => reading' = <<>>
  BY <1>1
<1>13. todo' = {} /\ calls' = <<>>
  BY <1>1, <1>2
<1> QED
  BY <1>1, <1>11, <1>12, <1>13, StillDecoding, Zenon

LEMMA DecodeStays ==
    ASSUME DecodeInv, UNCHANGED <<prog, todo, calls, tree, reading, allNodes, allTypes>>,
           phase \in {"decode", "decoded"}, phase' = "decoded" => reading = <<>>
    PROVE  DecodeInv'
<1>1. /\ calls = <<>> /\ todo = {}
      /\ \E r \in 0 .. Len(tree) : IsDecoding(tree, reading, r, allNodes, allTypes)
  BY DEF DecodeInv
<1>2. PICK r \in 0 .. Len(tree) : IsDecoding(tree, reading, r, allNodes, allTypes)
  BY <1>1
<1>3. IsDecoding(tree', reading', r, allNodes', allTypes') /\ r \in 0 .. Len(tree')
  BY <1>2, Zenon
<1>4. phase' = "decoded" => reading' = <<>>
  OBVIOUS
<1> QED
  BY <1>1, <1>3, <1>4, StillDecoding, Zenon

LEMMA NotDecoding == phase' \notin {"decode", "decoded"} => DecodeInv'
BY DEF DecodeInv

LEMMA NextDecode ==
    ASSUME WalkInv, TreeInv, DecodeInv, [Next]_vars
    PROVE  DecodeInv'
<1>1. CASE RangeFunctions
  BY <1>1, NotDecoding DEF RangeFunctions
<1>2. CASE EncodeFunction \/ EncodeParameter \/ EncodeBlock \/ EncodeFuncType
             \/ EncodeType \/ EncodeNode
  BY <1>2, NotDecoding DEF EncodeFunction, EncodeParameter, EncodeBlock, EncodeFuncType,
       EncodeType, EncodeNode, Encodes, Link, FirstMention
<1>3. CASE EncodePanics
  BY <1>3, NotDecoding DEF EncodePanics
<1>4. CASE EncodeField \/ EndField
  BY <1>4, NotDecoding DEF EncodeField, EndField, Encodes
<1>5. CASE WriteFile
  BY <1>5, WriteFileDecode
<1>6. CASE ReadNode
  BY <1>6, ReadNodeDecode
<1>7. CASE ConstructNode
  BY <1>7, ConstructNodeDecode
<1>8. CASE ConstructInvoke
  BY <1>8, NotDecoding DEF ConstructInvoke
<1>9. CASE EndDecoding
  BY <1>9, DecodeStays DEF EndDecoding
<1>10. CASE UNCHANGED vars
  <2>1. CASE phase \in {"decode", "decoded"}
    BY <1>10, <2>1, DecodeStays DEF vars, DecodeInv
  <2>2. CASE phase \notin {"decode", "decoded"}
    BY <1>10, <2>2, NotDecoding DEF vars
  <2> QED
    BY <2>1, <2>2
<1>11. CASE Done
  BY <1>10, <1>11 DEF Done
<1> QED
  BY <1>1, <1>2, <1>3, <1>4, <1>5, <1>6, <1>7, <1>8, <1>9, <1>10, <1>11 DEF Next

\* The file is read in the order in which it was written.
LEMMA Decodings == Spec => []DecodeInv
<1>1. Init => DecodeInv
  BY DEF Init, DecodeInv
<1>2. DecodeInv /\ WalkInv /\ TreeInv /\ [Next]_vars => DecodeInv'
  BY NextDecode
<1> QED
  BY <1>1, <1>2, Walks, Trees, PTL DEF Spec

\* What follows a link finds the node that was written in full.
LEMMA LinksAreFollowed ==
    ASSUME prog \in DOMAIN Programs, NEW n \in 1 .. Len(tree), NEW m \in 1 .. Len(tree),
           Full(tree[m]), tree[m].kind = KindOf(tree[m].of), ~ IsField(tree[m].of),
           tree[m].of \in DOMAIN Objects,
           LinkFits(tree[n].kind, KindOf(tree[m].of)), tree[n].linkId = tree[m].id,
           MapsHold(tree, 1 .. Len(tree), allNodes, allTypes)
    PROVE  DeLink(n) = m
<1>1. PICK kind : kind = KindOf(tree[m].of)
  OBVIOUS
<1>2. kind \notin LinkKinds /\ kind # "Field"
  BY <1>1, ObjectsAreTyped, Zenon DEF IsField
<1>3. /\ tree[n].kind \in LinkKinds
      /\ tree[n].kind = "LinkToType" <=> kind \in TypeKinds
      /\ tree[n].kind = "LinkToFunc" <=> kind = "Func"
      /\ tree[n].kind = "LinkToBlock" => kind = "BasicBlock"
      /\ tree[n].kind = "LinkToParam" => kind = "Parameter"
  BY <1>1 DEF LinkFits
<1>4. PICK id : id = tree[m].id
  OBVIOUS
<1>5. LET map == IF IsSsaType(tree[m]) THEN allTypes ELSE allNodes
      IN  tree[m].id \in DOMAIN map /\ map[tree[m].id] = m
  BY Zenon DEF MapsHold
<1>6. IsSsaType(tree[m]) <=> kind \in TypeKinds \cup {"Func"}
  BY <1>1, <1>2 DEF IsSsaType, LinkKinds
<1>7. kind \in TypeKinds \cup {"Func"} => Found(allTypes, id) = m
  BY <1>4, <1>5, <1>6 DEF Found
<1>8. kind \notin TypeKinds \cup {"Func"} => Found(allNodes, id) = m
  BY <1>4, <1>5, <1>6 DEF Found
<1>9. m # NoNode /\ tree[m].kind = kind /\ tree[n].linkId = id
  BY <1>1, <1>4 DEF NoNode
<1>10. Cast(m, kind) = m
  BY <1>9 DEF Cast
<1>11. CASE tree[n].kind = "LinkToNode"
  <2>1. kind \notin TypeKinds \cup {"Func"}
    BY <1>3, <1>11
  <2> QED
    BY <1>8, <1>9, <1>11, <2>1 DEF DeLink
<1>12. CASE tree[n].kind = "LinkToBlock"
  <2>1. kind = "BasicBlock" /\ kind \notin TypeKinds \cup {"Func"}
    BY <1>3, <1>12
  <2>2. Cast(Found(allNodes, id), "BasicBlock") = m
    BY <1>8, <1>10, <2>1
  <2> QED
    BY <1>9, <1>12, <2>2 DEF DeLink
<1>13. CASE tree[n].kind = "LinkToParam"
  <2>1. kind = "Parameter" /\ kind \notin TypeKinds \cup {"Func"}
    BY <1>3, <1>13
  <2>2. Cast(Found(allNodes, id), "Parameter") = m
    BY <1>8, <1>10, <2>1
  <2> QED
    BY <1>9, <1>13, <2>2 DEF DeLink
<1>14. CASE tree[n].kind = "LinkToType"
  <2>1. kind \in TypeKinds \cup {"Func"}
    BY <1>3, <1>14
  <2> QED
    BY <1>7, <1>9, <1>14, <2>1 DEF DeLink
<1>15. CASE tree[n].kind = "LinkToFunc"
  <2>1. kind = "Func" /\ kind \in TypeKinds \cup {"Func"}
    BY <1>3, <1>15
  <2>2. Cast(Found(allTypes, id), "Func") = m
    BY <1>7, <1>10, <2>1
  <2> QED
    BY <1>9, <1>15, <2>2 DEF DeLink
<1> QED
  BY <1>3, <1>11, <1>12, <1>13, <1>14, <1>15 DEF LinkKinds

LEMMA MeansItsObject ==
    ASSUME WalkInv, NEW n \in 1 .. Len(tree),
           \A m \in 1 .. Len(tree) : NodeFits(tree[m]), Written(tree, nodeRefs),
           MapsHold(tree, 1 .. Len(tree), allNodes, allTypes)
    PROVE  Means(n, tree[n].of)
<1>1. /\ prog \in DOMAIN Programs /\ tree \in Seq(Nodes)
      /\ \A k \in 1 .. Len(tree) : NodeOk(nodeRefs, tree[k], k)
  BY DEF WalkInv, IsWalk
<1>2. \A k \in 1 .. Len(tree) : tree[k].of \in DOMAIN Objects
  <2>1. \A k \in 1 .. Len(tree) : tree[k] \in Nodes
    BY <1>1
  <2> QED
    BY <2>1 DEF Nodes
<1>3. CASE Full(tree[n])
  <2>1. tree[n].kind = KindOf(tree[n].of)
    BY <1>3 DEF NodeFits
  <2>2. KindOf(tree[n].of) \notin LinkKinds
    BY <1>1, <1>2, ObjectsAreTyped, Zenon
  <2>3. DeLink(n) = n
    BY <2>1, <2>2 DEF DeLink, LinkKinds
  <2>4. n # NoNode /\ InFull(n)
    BY <1>3 DEF NoNode, InFull, IsLink, Full
  <2> QED
    BY <2>3, <2>4 DEF Means
<1>4. CASE ~ Full(tree[n])
  <2>1. PICK o : o = tree[n].of
    OBVIOUS
  <2>2. ~ IsField(o) /\ o \in DOMAIN nodeRefs /\ tree[n].linkId = nodeRefs[o]
    BY <1>1, <1>4, <2>1 DEF NodeOk
  <2>3. PICK m \in 1 .. Len(tree) : Full(tree[m]) /\ tree[m].of = o
    BY <2>2 DEF Written
  <2>4. tree[m].id = nodeRefs[o]
    BY <1>1, <2>2, <2>3 DEF NodeOk
  <2>5. LinkFits(tree[n].kind, KindOf(o))
    BY <1>4, <2>1 DEF NodeFits
  <2>6. tree[m].kind = KindOf(o)
    BY <2>3 DEF NodeFits
  <2>7. DeLink(n) = m
    <3>1. LinkFits(tree[n].kind, KindOf(tree[m].of)) /\ tree[n].linkId = tree[m].id
      BY <2>2, <2>3, <2>4, <2>5
    <3>2. tree[m].kind = KindOf(tree[m].of) /\ ~ IsField(tree[m].of)
      BY <2>2, <2>3, <2>6
    <3> QED
      BY <1>1, <1>2, <2>3, <3>1, <3>2, LinksAreFollowed, Zenon
  <2>8. m # NoNode /\ InFull(m)
    BY <2>3 DEF NoNode, InFull, IsLink, Full
  <2> QED
    BY <2>1, <2>3, <2>7, <2>8 DEF Means
<1> QED
  BY <1>3, <1>4

\* The keys of an object under which nothing is written are those of no part.
LEMMA OtherKeys ==
    ASSUME prog \in DOMAIN Programs, NEW o \in DOMAIN Objects, ~ HasLowOrMax(o),
           NEW key \in DOMAIN Objects[o].at
    PROVE  \/ \E k \in DOMAIN KeysOf(KindOf(o)) : KeysOf(KindOf(o))[k] = key
           \/ At(o, key) = <<>>
<1>1. CASE \E k \in DOMAIN CallsOf(KindOf(o)) : CallsOf(KindOf(o))[k].key = key
  <2>1. PICK k \in DOMAIN CallsOf(KindOf(o)) : CallsOf(KindOf(o))[k].key = key
    BY <1>1
  <2>2. PICK m \in 0 .. 3 :
           /\ DOMAIN CallsOf(KindOf(o)) = 1 .. m /\ DOMAIN KeysOf(KindOf(o)) = 1 .. m
           /\ \A i \in 1 .. m : CallsOf(KindOf(o))[i].key = KeysOf(KindOf(o))[i]
    BY KeysAreCalls, Zenon DEF Matches
  <2> QED
    BY <2>1, <2>2, Zenon
<1>2. CASE KindOf(o) = "Slice" /\ key \in {"low", "max"}
  <2>1. At(o, "low") \o At(o, "max") = <<>>
    BY <1>2 DEF HasLowOrMax
  <2>2. PICK a : a = At(o, "low")
    OBVIOUS
  <2>3. PICK b : b = At(o, "max")
    OBVIOUS
  <2>4. a \in Seq(DOMAIN Objects) /\ b \in Seq(DOMAIN Objects)
    BY <2>2, <2>3, ObjectFacts, Zenon
  <2>5. a \o b = <<>>
    BY <2>1, <2>2, <2>3, Zenon
  <2>6. Len(a) + Len(b) = 0
    BY <2>4, <2>5
  <2>7. a = <<>> /\ b = <<>>
    BY <2>4, <2>6
  <2> QED
    BY <1>2, <2>2, <2>3, <2>7
<1> QED
  BY <1>1, <1>2, ObjectsAreTyped, Zenon

(***************************************************************************)
(* When the file was decoded, each function is at the top, and under each  *)
(* key of a node that was written in full are the nodes of the objects     *)
(* that its object refers to, in their order, with links followed through  *)
(* the maps of SsaNode and SsaType.  An id that a field has twice does no  *)
(* harm: what gets it too is read behind the field, and is entered in the  *)
(* maps after it.                                                          *)
(***************************************************************************)
THEOREM DecodingGivesProgram == Spec => []DecodedIsProgram
<1>1. WalkInv /\ TreeInv /\ DecodeInv => DecodedIsProgram
  <2> SUFFICES ASSUME WalkInv, TreeInv, DecodeInv, phase = "decoded"
               PROVE  /\ \A f \in Programs[prog].functions :
                            \E k \in DOMAIN Roots : Means(Roots[k], f)
                      /\ \A n \in DOMAIN tree : InFull(n) =>
                            \A key \in DOMAIN Objects[tree[n].of].at :
                                /\ Len(Under(n, key)) = Len(At(tree[n].of, key))
                                /\ \A k \in DOMAIN Under(n, key) :
                                      Means(Under(n, key)[k], At(tree[n].of, key)[k])
    BY Zenon DEF DecodedIsProgram
  <2>1. /\ calls = <<>> /\ todo = {} /\ reading = <<>>
        /\ \E r \in 0 .. Len(tree) : IsDecoding(tree, reading, r, allNodes, allTypes)
    BY DEF DecodeInv
  <2>2. PICK t : t = tree
    OBVIOUS
  <2>3. PICK fs : fs = Programs[prog].functions
    OBVIOUS
  <2>4. /\ prog \in DOMAIN Programs /\ t \in Seq(Nodes) /\ Len(t) \in Nat
        /\ IsFiniteSet(fs) /\ IsWhole(t, fs) /\ IsNested(t)
        /\ \A n \in 1 .. Len(t) : NodeFits(t[n])
        /\ Written(t, nodeRefs)
    BY <2>1, <2>2, <2>3, WrittenTree, Zenon
  <2>5. PICK r \in 0 .. Len(t) : IsDecoding(t, <<>>, r, allNodes, allTypes)
    BY <2>1, <2>2, Zenon
  <2>6. MapsHold(t, 1 .. Len(t), allNodes, allTypes)
    BY <2>4, <2>5, AllConstructed, Zenon
  <2>7. \A n \in 1 .. Len(t) : Means(n, t[n].of)
    BY <2>2, <2>4, <2>6, MeansItsObject, Zenon
  <2>8. ASSUME NEW f \in fs PROVE \E k \in DOMAIN Roots : Means(Roots[k], f)
    <3>1. IsAscending(Roots, {m \in 1 .. Len(t) : t[m].in = NoNode})
      BY <2>2, <2>4, RootsAre, Zenon
    <3>2. PICK i \in 1 .. Len(t) : t[i].in = NoNode /\ t[i].of = f
      BY <2>4, <2>8, Zenon DEF IsWhole
    <3>3. Has(Roots, i) /\ Roots \in Seq(Nat)
      BY <3>1, <3>2 DEF IsAscending
    <3>4. PICK k \in 1 .. Len(Roots) : Roots[k] = i
      BY <3>3 DEF Has
    <3>5. k \in DOMAIN Roots
      BY <3>3
    <3> QED
      BY <2>7, <3>2, <3>4, <3>5
  <2>9. ASSUME NEW n \in 1 .. Len(t), Full(t[n]), NEW o, o = t[n].of,
               NEW key \in DOMAIN Objects[o].at
        PROVE  /\ Len(Under(n, key)) = Len(At(o, key))
               /\ \A k \in DOMAIN Under(n, key) : Means(Under(n, key)[k], At(o, key)[k])
    <3>1. n \in FullNodes(t)
      BY <2>9 DEF FullNodes
    <3>2. o \in DOMAIN Objects
      <4>1. t[n] \in Nodes
        BY <2>4
      <4> QED
        BY <2>9, <4>1 DEF Nodes
    <3>3. ~ HasLowOrMax(o)
      BY <2>4, <2>9 DEF NodeFits
    <3>4. PICK q : q = Under(n, key)
      OBVIOUS
    <3>5. PICK a : a = At(o, key)
      OBVIOUS
    <3>6. a \in Seq(DOMAIN Objects)
      BY <2>4, <3>2, <3>5, ObjectFacts, Zenon
    <3>7. CASE \E k \in DOMAIN KeysOf(KindOf(o)) : KeysOf(KindOf(o))[k] = key
      <4>1. PICK k \in DOMAIN KeysOf(KindOf(o)) : key = KeysOf(KindOf(o))[k]
        BY <3>7
      <4>2. PICK L \in Nat : L = Len(a)
        BY <3>6
      <4>3. PICK nodes : nodes = NodesUnder(t, n, key)
        OBVIOUS
      <4>4. IsList(q, t, nodes, L) /\ \A m \in nodes : t[m].of = a[t[m].nr]
        <5>1. prog \in DOMAIN Programs /\ t \in Seq(Nodes) /\ IsWhole(t, fs)
          BY <2>4
        <5>2. /\ IsList(Under(n, key), t, NodesUnder(t, n, key), Len(At(o, key)))
              /\ \A m \in NodesUnder(t, n, key) : t[m].of = At(o, key)[t[m].nr]
          <6>1. HasParts(t, n, key, o)
            BY <2>2, <2>9, <3>1, <3>2, <4>1, <5>1, UnderNode, Zenon
          <6> QED
            BY <6>1, Zenon DEF HasParts
        <5> QED
          BY <3>4, <3>5, <4>2, <4>3, <5>2, Zenon
      <4>5. q = [i \in 1 .. L |-> q[i]] /\ \A i \in 1 .. L : q[i] \in nodes /\ t[q[i]].nr = i
        BY <4>4 DEF IsList
      <4>6. Len(q) = L /\ DOMAIN q = 1 .. L
        BY <4>4, ListHasLength
      <4>7. ASSUME NEW i \in 1 .. L PROVE Means(q[i], a[i])
        <5>1. q[i] \in nodes /\ t[q[i]].nr = i
          BY <4>5
        <5>2. q[i] \in 1 .. Len(t)
          BY <4>3, <5>1 DEF NodesUnder
        <5>3. t[q[i]].of = a[i]
          BY <4>4, <5>1
        <5>4. Means(q[i], t[q[i]].of)
          BY <2>7, <5>2, Zenon
        <5> QED
          BY <5>3, <5>4, Zenon
      <4> QED
        BY <3>4, <3>5, <4>2, <4>6, <4>7
    <3>8. CASE \A k \in DOMAIN KeysOf(KindOf(o)) : KeysOf(KindOf(o))[k] # key
      <4>1. a = <<>>
        BY <2>4, <3>2, <3>3, <3>5, <3>8, OtherKeys, Zenon
      <4>2. q = <<>>
        BY <2>2, <2>4, <2>9, <3>1, <3>4, <3>8, NothingUnder, Zenon
      <4>3. Len(q) = Len(a) /\ DOMAIN q = {}
        BY <4>1, <4>2
      <4> QED
        BY <3>4, <3>5, <4>3
    <3> QED
      BY <3>7, <3>8
  <2>10. DOMAIN tree = 1 .. Len(t) /\ \A n \in 1 .. Len(t) : InFull(n) => Full(t[n])
    BY <2>2, <2>4 DEF InFull, IsLink, Full
  <2> QED
    BY <2>2, <2>3, <2>8, <2>9, <2>10
<1> QED
  BY <1>1, Walks, Trees, Decodings, PTL

-----------------------------------------------------------------------------

(* What can be reached from an object *)

RefersTo(P, o) ==
    UNION {Range(Programs[P].objects[o].at[key]) : key \in DOMAIN Programs[P].objects[o].at}

Wider(P, S) == S \cup UNION {RefersTo(P, o) : o \in S}

IsClosed(P, S) == \A o \in S : RefersTo(P, o) \subseteq S

IsClosure(P, f) ==
    f = [S \in SUBSET DOMAIN Programs[P].objects |->
            IF Wider(P, S) = S THEN S ELSE f[Wider(P, S)]]

LEMMA ReachIs ==
    ASSUME NEW P \in DOMAIN Programs
    PROVE  Reach[P] = [o \in DOMAIN Programs[P].objects |-> (CHOOSE f : IsClosure(P, f))[{o}]]
BY Zenon DEF Reach, IsClosure, Wider, RefersTo

LEMMA RefersToObjects ==
    ASSUME NEW P \in DOMAIN Programs, NEW o \in DOMAIN Programs[P].objects
    PROVE  RefersTo(P, o) \subseteq DOMAIN Programs[P].objects
<1>1. IsPackage(Programs[P])
  BY ProgramsAssumption
<1>2. ASSUME NEW key \in DOMAIN Programs[P].objects[o].at
      PROVE  Range(Programs[P].objects[o].at[key]) \subseteq DOMAIN Programs[P].objects
  <2>1. Programs[P].objects[o].at[key] \in Seq(DOMAIN Programs[P].objects)
    BY <1>1, Zenon DEF IsPackage
  <2>2. PICK q : q = Programs[P].objects[o].at[key]
    OBVIOUS
  <2>3. \A i \in DOMAIN q : q[i] \in DOMAIN Programs[P].objects
    BY <2>1, <2>2
  <2> QED
    BY <2>2, <2>3 DEF Range
<1> QED
  BY <1>2 DEF RefersTo

LEMMA WiderFacts ==
    ASSUME NEW P \in DOMAIN Programs, NEW S \in SUBSET DOMAIN Programs[P].objects
    PROVE  /\ Wider(P, S) \in SUBSET DOMAIN Programs[P].objects
           /\ S \subseteq Wider(P, S)
           /\ Wider(P, S) = S <=> IsClosed(P, S)
<1>1. \A o \in S : RefersTo(P, o) \subseteq DOMAIN Programs[P].objects
  BY RefersToObjects
<1> QED
  BY <1>1 DEF Wider, IsClosed

\* There is such a function: the least closed set that contains S.
LEMMA ClosureExists ==
    ASSUME NEW P \in DOMAIN Programs
    PROVE  \E f : IsClosure(P, f)
<1>1. PICK D : D = DOMAIN Programs[P].objects
  OBVIOUS
<1> DEFINE least(S) ==
              {x \in D : \A C \in SUBSET D : S \subseteq C /\ IsClosed(P, C) => x \in C}
           f == [S \in SUBSET D |-> least(S)]
<1>2. ASSUME NEW S \in SUBSET D, Wider(P, S) = S PROVE least(S) = S
  <2>1. IsClosed(P, S)
    BY <1>1, <1>2, WiderFacts
  <2> QED
    BY <2>1
<1>3. ASSUME NEW S \in SUBSET D PROVE least(Wider(P, S)) = least(S)
  <2>1. ASSUME NEW C \in SUBSET D, S \subseteq C, IsClosed(P, C) PROVE Wider(P, S) \subseteq C
    BY <2>1 DEF IsClosed, Wider
  <2>2. S \subseteq Wider(P, S)
    BY <1>1, WiderFacts
  <2>3. \A C \in SUBSET D : IsClosed(P, C) => (S \subseteq C <=> Wider(P, S) \subseteq C)
    BY <2>1, <2>2
  <2> QED
    BY <2>3
<1> HIDE DEF least
<1>4. \A S \in SUBSET D : Wider(P, S) \in SUBSET D
  BY <1>1, WiderFacts
<1>5. \A S \in SUBSET D : f[S] = IF Wider(P, S) = S THEN S ELSE f[Wider(P, S)]
  BY <1>2, <1>3, <1>4
<1>6. f = [S \in SUBSET D |-> IF Wider(P, S) = S THEN S ELSE f[Wider(P, S)]]
  BY <1>5
<1>7. IsClosure(P, f)
  BY <1>1, <1>6, Zenon DEF IsClosure
<1> QED
  BY <1>7

\* As there are finitely many objects, each such function leads to a closed set.
LEMMA ClosureIsClosed ==
    ASSUME NEW P \in DOMAIN Programs, NEW f, IsClosure(P, f),
           NEW S \in SUBSET DOMAIN Programs[P].objects
    PROVE  S \subseteq f[S] /\ IsClosed(P, f[S])
<1>1. PICK D : D = DOMAIN Programs[P].objects
  OBVIOUS
<1>2. IsFiniteSet(D)
  <2>1. IsPackage(Programs[P])
    BY ProgramsAssumption
  <2> QED
    BY <1>1, <2>1, Zenon DEF IsPackage
<1> DEFINE Good(U) == U \subseteq f[U] /\ IsClosed(P, f[U])
           Bad == {U \in SUBSET D : ~ Good(U)}
           T == {D \ U : U \in Bad}
<1>3. SUFFICES ASSUME S \in Bad PROVE FALSE
  BY <1>1
<1>4. IsWellFoundedOn(StrictSubsetOrdering(D), FiniteSubsetsOf(D))
  BY FS_StrictSubsetOrderingWellFounded
<1>5. T \subseteq FiniteSubsetsOf(D)
  <2>1. \A U \in SUBSET D : IsFiniteSet(D \ U)
    BY <1>2, FS_Difference
  <2> QED
    BY <2>1 DEF FiniteSubsetsOf
<1>6. T # {}
  BY <1>3
<1> HIDE DEF T
<1>7. PICK V \in T : \A W \in T : <<W, V>> \notin StrictSubsetOrdering(D)
  BY <1>4, <1>5, <1>6, WFMin
<1> USE DEF T
<1>8. PICK U \in Bad : V = D \ U
  OBVIOUS
<1>9. U \in SUBSET D /\ ~ Good(U)
  OBVIOUS
<1>10. f[U] = IF Wider(P, U) = U THEN U ELSE f[Wider(P, U)]
  BY <1>1, <1>9 DEF IsClosure
<1>11. /\ Wider(P, U) \in SUBSET D /\ U \subseteq Wider(P, U)
       /\ Wider(P, U) = U <=> IsClosed(P, U)
  BY <1>1, <1>9, WiderFacts
<1>12. Wider(P, U) # U
  BY <1>9, <1>10, <1>11
<1>13. <<D \ Wider(P, U), V>> \in StrictSubsetOrdering(D)
  BY <1>8, <1>9, <1>11, <1>12 DEF StrictSubsetOrdering
<1>14. Wider(P, U) \notin Bad
  BY <1>7, <1>13
<1>15. Wider(P, U) \subseteq f[Wider(P, U)] /\ IsClosed(P, f[Wider(P, U)])
  BY <1>11, <1>14
<1> QED
  BY <1>9, <1>10, <1>11, <1>12, <1>15

\* An object is reached from itself, and what it refers to from what it is reached from.
LEMMA ReachFacts ==
    ASSUME prog \in DOMAIN Programs, NEW o \in DOMAIN Objects
    PROVE  /\ o \in Reach[prog][o]
           /\ \A p \in DOMAIN Objects : p \in Reach[prog][o] =>
                 \A key : \A i \in DOMAIN At(p, key) : At(p, key)[i] \in Reach[prog][o]
<1>1. PICK f : f = CHOOSE g : IsClosure(prog, g)
  OBVIOUS
<1>2. IsClosure(prog, f)
  BY <1>1, ClosureExists
<1>3. Reach[prog][o] = f[{o}]
  BY <1>1, ReachIs DEF Objects
<1>4. {o} \in SUBSET DOMAIN Programs[prog].objects
  BY DEF Objects
<1>5. {o} \subseteq f[{o}] /\ IsClosed(prog, f[{o}])
  BY <1>2, <1>4, ClosureIsClosed
<1>6. PICK R : R = Reach[prog][o]
  OBVIOUS
<1>7. o \in R /\ IsClosed(prog, R)
  BY <1>3, <1>5, <1>6
<1>8. ASSUME NEW p \in DOMAIN Objects, p \in R, NEW key, NEW i \in DOMAIN At(p, key)
      PROVE  At(p, key)[i] \in R
  <2>1. key \in DOMAIN Objects[p].at /\ At(p, key) = Objects[p].at[key]
    <3>1. DOMAIN <<>> = {}
      OBVIOUS
    <3>2. CASE key \in DOMAIN Objects[p].at
      BY <3>2, Zenon DEF At
    <3>3. CASE key \notin DOMAIN Objects[p].at
      <4>1. At(p, key) = <<>>
        BY <3>3, Zenon DEF At
      <4> QED
        BY <3>1, <4>1
    <3> QED
      BY <3>2, <3>3
  <2>2. PICK q : q = Objects[p].at[key]
    OBVIOUS
  <2>3. i \in DOMAIN q /\ At(p, key)[i] = q[i]
    BY <2>1, <2>2
  <2>4. q[i] \in Range(q)
    BY <2>3 DEF Range
  <2>5. Range(q) \subseteq RefersTo(prog, p)
    BY <2>1, <2>2 DEF RefersTo, Objects
  <2> QED
    BY <1>7, <1>8, <2>3, <2>4, <2>5 DEF IsClosed
<1> QED
  BY <1>6, <1>7, <1>8

-----------------------------------------------------------------------------

(* The functions at the top *)

LEMMA LastOf ==
    ASSUME NEW L \in Nat, NEW J \in SUBSET (1 .. L), J # {}
    PROVE  \E j \in J : \A i \in J : i <= j
<1> DEFINE HasLast(I) == I # {} => \E j \in I : \A i \in I : i <= j
           S == {n \in Nat : \A I \in SUBSET (1 .. n) : HasLast(I)}
<1>1. 0 \in S
  <2>1. 1 .. 0 = {}
    OBVIOUS
  <2>2. \A I \in SUBSET (1 .. 0) : I = {}
    BY <2>1
  <2> QED
    BY <2>2
<1>2. ASSUME NEW n \in Nat, n \in S PROVE n + 1 \in S
  <2> SUFFICES ASSUME NEW I \in SUBSET (1 .. n + 1) PROVE HasLast(I)
    OBVIOUS
  <2>1. CASE n + 1 \in I
    <3>1. \A i \in I : i <= n + 1
      OBVIOUS
    <3> QED
      BY <2>1, <3>1
  <2>2. CASE n + 1 \notin I
    <3>1. I \in SUBSET (1 .. n)
      BY <2>2
    <3> QED
      BY <1>2, <3>1
  <2> QED
    BY <2>1, <2>2
<1> HIDE DEF S
<1>3. Nat \subseteq S
  BY <1>1, <1>2, SetInduction
<1>4. L \in S
  BY <1>3
<1> QED
  BY <1>4 DEF S

\* A node is in the tree of a node at the top, from whose object its own is reached.
LEMMA RootOf ==
    ASSUME prog \in DOMAIN Programs, NEW t \in Seq(Nodes), NEW fs, IsWhole(t, fs),
           NEW n \in 1 .. Len(t)
    PROVE  \E m \in 1 .. Len(t) :
              t[m].in = NoNode /\ m <= n /\ t[n].of \in Reach[prog][t[m].of]
<1>1. PICK N \in Nat : N = Len(t)
  OBVIOUS
<1> DEFINE HasRoot(k) == \E m \in 1 .. N :
                            t[m].in = NoNode /\ m <= k /\ t[k].of \in Reach[prog][t[m].of]
           S == {l \in Nat : \A k \in 1 .. N : k <= l => HasRoot(k)}
<1>2. \A k \in 1 .. N : t[k].of \in DOMAIN Objects
  <2>1. \A k \in 1 .. N : t[k] \in Nodes
    BY <1>1
  <2> QED
    BY <2>1 DEF Nodes
<1>3. ASSUME NEW k \in 1 .. N, t[k].in = NoNode PROVE HasRoot(k)
  <2>1. t[k].of \in Reach[prog][t[k].of]
    BY <1>2, ReachFacts, Zenon
  <2> QED
    BY <1>3, <2>1
<1>4. ASSUME NEW k \in 1 .. N, t[k].in # NoNode, HasRoot(t[k].in) PROVE HasRoot(k)
  <2>1. PICK p : p = t[k].in
    OBVIOUS
  <2>2. p \in FullNodes(t) /\ IsPart(t[p].of, t[k])
    BY <1>1, <1>4, <2>1, Zenon DEF IsWhole
  <2>3. p \in 1 .. N /\ p < k
    <3>1. \A i \in 1 .. Len(t) : t[i].in \in Nat /\ t[i].in < i /\ ~ IsEnd(t[i])
      BY Zenon DEF IsWhole
    <3> QED
      BY <1>1, <2>1, <2>2, <3>1 DEF FullNodes
  <2>4. PICK m \in 1 .. N :
           t[m].in = NoNode /\ m <= p /\ t[p].of \in Reach[prog][t[m].of]
    BY <1>4, <2>1
  <2>5. PICK o : o = t[p].of
    OBVIOUS
  <2>6. t[k].nr \in DOMAIN At(o, t[k].key) /\ t[k].of = At(o, t[k].key)[t[k].nr]
    BY <2>2, <2>5 DEF IsPart
  <2>7. t[m].of \in DOMAIN Objects /\ o \in DOMAIN Objects /\ o \in Reach[prog][t[m].of]
    BY <1>2, <2>3, <2>4, <2>5
  <2>8. t[k].of \in Reach[prog][t[m].of]
    <3>1. At(o, t[k].key)[t[k].nr] \in Reach[prog][t[m].of]
      BY <2>6, <2>7, ReachFacts, Zenon
    <3> QED
      BY <2>6, <3>1
  <2>9. m <= k
    BY <2>3, <2>4
  <2> QED
    BY <2>4, <2>8, <2>9
<1>5. \A k \in 1 .. N :
         t[k].in \in Nat /\ t[k].in < k /\ (t[k].in # NoNode => t[k].in \in 1 .. N)
  <2>1. \A i \in 1 .. Len(t) : t[i].in \in Nat /\ t[i].in < i /\ ~ IsEnd(t[i])
    BY Zenon DEF IsWhole
  <2> QED
    BY <1>1, <2>1 DEF NoNode
<1> HIDE DEF HasRoot
<1>6. 0 \in S
  OBVIOUS
<1>7. ASSUME NEW l \in Nat, l \in S PROVE l + 1 \in S
  <2> SUFFICES ASSUME NEW k \in 1 .. N, k = l + 1 PROVE HasRoot(k)
    BY <1>7
  <2>1. CASE t[k].in = NoNode
    BY <1>3, <2>1
  <2>2. CASE t[k].in # NoNode
    <3>1. t[k].in \in 1 .. N /\ t[k].in <= l
      BY <1>5, <2>2
    <3>2. HasRoot(t[k].in)
      BY <1>7, <3>1
    <3> QED
      BY <1>4, <2>2, <3>2
  <2> QED
    BY <2>1, <2>2
<1> HIDE DEF S
<1>8. Nat \subseteq S
  BY <1>6, <1>7, SetInduction
<1>9. N \in S
  BY <1>8
<1>10. HasRoot(n)
  BY <1>1, <1>9 DEF S
<1> QED
  BY <1>1, <1>10 DEF HasRoot

\* A declaration with this name is interpreted: the last one.
LEMMA LastIsDeclared ==
    ASSUME Roots \in Seq(Nat), NEW k \in DOMAIN Roots, IsDeclaration(Roots[k])
    PROVE  \E n \in FuncDeclarations : Name(n) = Name(Roots[k])
<1>1. PICK L \in Nat : DOMAIN Roots = 1 .. L
  OBVIOUS
<1>2. PICK J : J = {j \in DOMAIN Roots :
                      IsDeclaration(Roots[j]) /\ Name(Roots[j]) = Name(Roots[k])}
  OBVIOUS
<1>3. J \in SUBSET (1 .. L) /\ J # {}
  BY <1>1, <1>2
<1>4. PICK j \in J : \A i \in J : i <= j
  BY <1>3, LastOf, Zenon
<1>5. /\ j \in DOMAIN Roots /\ IsDeclaration(Roots[j]) /\ Name(Roots[j]) = Name(Roots[k])
  BY <1>2
<1>6. \A i \in DOMAIN Roots :
         IsDeclaration(Roots[i]) /\ Name(Roots[i]) = Name(Roots[j]) => i <= j
  BY <1>2, <1>4, <1>5
<1>7. Roots[j] \in FuncDeclarations
  BY <1>5, <1>6, Zenon DEF FuncDeclarations
<1> QED
  BY <1>5, <1>7

LEMMA FunctionKeys ==
    ASSUME NEW kind, kind = "Function", NEW key \in {"params", "body"}
    PROVE  \E k \in DOMAIN KeysOf(kind) : KeysOf(kind)[k] = key
<1>1. KeysOf(kind) = <<"valueType", "params", "body">>
  <2>1. kind \notin TypeKinds /\ kind \notin ValueKinds
    BY DEF TypeKinds, ValueKinds
  <2> QED
    BY <2>1, JoinedTuples DEF KeysOf, ValueNodeKeys
<1>2. /\ 2 \in DOMAIN <<"valueType", "params", "body">>
      /\ 3 \in DOMAIN <<"valueType", "params", "body">>
      /\ <<"valueType", "params", "body">>[2] = "params"
      /\ <<"valueType", "params", "body">>[3] = "body"
  OBVIOUS
<1> QED
  BY <1>1, <1>2

\* A function that was written in full, with a body and parameters.
LEMMA FullIsDeclaration ==
    ASSUME prog \in DOMAIN Programs, NEW t, t = tree, t \in Seq(Nodes),
           NEW fs, IsWhole(t, fs), NEW n \in FullNodes(t), NodeFits(t[n]),
           NEW f, f = t[n].of, f \in DOMAIN Objects, KindOf(f) = "Function",
           At(f, "body") # <<>>, At(f, "params") # <<>>
    PROVE  IsDeclaration(n)
<1>1. Full(t[n])
  BY DEF FullNodes
<1>2. tree[n].kind = "Function"
  BY <1>1 DEF NodeFits
<1>3. ASSUME NEW key, key \in {"params", "body"} PROVE Under(n, key) # <<>>
  <2>1. PICK a : a = At(f, key)
    OBVIOUS
  <2>2. a \in Seq(DOMAIN Objects)
    BY <2>1, ObjectFacts, Zenon
  <2>3. a # <<>>
    BY <1>3, <2>1
  <2>4. PICK L \in Nat : L = Len(a) /\ L # 0
    BY <2>2, <2>3
  <2>5. PICK k \in DOMAIN KeysOf(KindOf(f)) : key = KeysOf(KindOf(f))[k]
    BY <1>3, FunctionKeys
  <2>6. HasParts(t, n, key, f)
    BY <2>5, UnderNode, Zenon
  <2>7. PICK q : q = Under(n, key)
    OBVIOUS
  <2>8. IsList(q, t, NodesUnder(t, n, key), L)
    BY <2>1, <2>4, <2>6, <2>7, Zenon DEF HasParts
  <2>9. DOMAIN q = 1 .. L
    BY <2>8, ListHasLength
  <2>10. 1 \in DOMAIN q /\ DOMAIN <<>> = {}
    BY <2>4, <2>9
  <2> QED
    BY <2>7, <2>10
<1> QED
  BY <1>2, <1>3 DEF IsDeclaration

\* In a list that ascends, what is less is at an earlier place.
LEMMA EarlierInList ==
    ASSUME NEW q, NEW M, IsAscending(q, M), NEW k \in DOMAIN q, NEW m \in M, m < q[k]
    PROVE  \E j \in 1 .. k - 1 : q[j] = m
<1>1. q \in Seq(Nat) /\ Pairwise(q, Less) /\ Has(q, m)
  BY DEF IsAscending
<1>2. PICK j \in 1 .. Len(q) : q[j] = m
  BY <1>1 DEF Has
<1>3. k \in 1 .. Len(q) /\ Len(q) \in Nat /\ q[k] \in Nat /\ m \in Nat
  BY <1>1, <1>2
<1>4. ~ (k < j)
  <2> SUFFICES ASSUME k < j PROVE FALSE
    OBVIOUS
  <2>1. q[k] < q[j]
    BY <1>1, <1>3, LessIs DEF Pairwise
  <2> QED
    BY <1>2, <1>3, <2>1
<1>5. k # j
  BY <1>2, <1>3
<1> QED
  BY <1>2, <1>3, <1>4, <1>5

(***************************************************************************)
(* A function at the top that main does not interpret has no body or no    *)
(* parameters, is part of what was encoded for a function at an earlier    *)
(* place, or has the name of one that is interpreted: a link at the top is *)
(* to a node that was written before it, in the tree of a function from    *)
(* which it can be reached.                                                *)
(***************************************************************************)
THEOREM MissingAreDeclared == Spec => []OthersAreDeclared
<1>1. WalkInv /\ TreeInv /\ DecodeInv => OthersAreDeclared
  <2> SUFFICES ASSUME WalkInv, TreeInv, DecodeInv, phase = "decoded",
                      NEW k \in DOMAIN Roots, NEW f, f = tree[Roots[k]].of,
                      At(f, "body") # <<>>, At(f, "params") # <<>>
               PROVE  \/ \E j \in 1 .. k - 1 : f \in Reach[prog][tree[Roots[j]].of]
                      \/ \E n \in FuncDeclarations : Name(n) = Objects[f].name
    BY Zenon DEF OthersAreDeclared
  <2>1. calls = <<>> /\ todo = {}
    BY DEF DecodeInv
  <2>2. PICK t : t = tree
    OBVIOUS
  <2>3. PICK fs : fs = Programs[prog].functions
    OBVIOUS
  <2>4. /\ prog \in DOMAIN Programs /\ t \in Seq(Nodes) /\ Len(t) \in Nat
        /\ IsFiniteSet(fs) /\ IsWhole(t, fs)
        /\ \A n \in 1 .. Len(t) : NodeFits(t[n])
        /\ Written(t, nodeRefs)
    BY <2>1, <2>2, <2>3, WrittenTree, Zenon
  <2>5. IsAscending(Roots, {m \in 1 .. Len(t) : t[m].in = NoNode})
    BY <2>2, <2>4, RootsAre, Zenon
  <2>6. Roots \in Seq(Nat) /\ \A x : Has(Roots, x) <=> x \in 1 .. Len(t) /\ t[x].in = NoNode
    BY <2>5 DEF IsAscending
  <2>7. PICK n : n = Roots[k]
    OBVIOUS
  <2>8. n \in 1 .. Len(t) /\ t[n].in = NoNode /\ t[n].of = f
    <3>1. Has(Roots, n)
      BY <2>6, <2>7 DEF Has
    <3> QED
      BY <2>2, <2>6, <2>7, <3>1
  <2>9. IsTop(fs, t[n])
    BY <2>4, <2>8, Zenon DEF IsWhole
  <2>10. f \in DOMAIN Objects /\ KindOf(f) = "Function"
    <3>1. f \in fs
      BY <2>8, <2>9 DEF IsTop
    <3> QED
      BY <2>3, <2>4, <3>1, ObjectFacts
  <2>11. CASE Full(t[n])
    <3>1. n \in FullNodes(t)
      BY <2>8, <2>11 DEF FullNodes
    <3>2. NodeFits(t[n]) /\ f = t[n].of
      BY <2>4, <2>8
    <3>3. IsDeclaration(n)
      BY <2>2, <2>4, <2>10, <3>1, <3>2, FullIsDeclaration, Zenon
    <3>4. \E l \in FuncDeclarations : Name(l) = Name(Roots[k])
      BY <2>6, <2>7, <3>3, LastIsDeclared, Zenon
    <3>5. Name(Roots[k]) = Objects[f].name
      BY Zenon DEF Name
    <3> QED
      BY <3>4, <3>5, Zenon
  <2>12. CASE ~ Full(t[n])
    <3>1. /\ \A l \in 1 .. Len(t) : NodeOk(nodeRefs, t[l], l)
          /\ Once(t)
      BY <2>2 DEF WalkInv, IsWalk
    <3>2. ~ IsField(f) /\ f \in DOMAIN nodeRefs
      BY <2>8, <2>10, <2>12, <3>1 DEF NodeOk, IsField
    <3>3. PICK m \in 1 .. Len(t) : Full(t[m]) /\ t[m].of = f
      BY <2>4, <3>2 DEF Written
    <3>4. m < n
      BY <2>8, <2>12, <3>1, <3>3 DEF Once
    <3>5. PICK i \in 1 .. Len(t) :
             t[i].in = NoNode /\ i <= m /\ t[m].of \in Reach[prog][t[i].of]
      BY <2>4, <3>3, RootOf, Zenon
    <3>6. i < n
      BY <2>8, <3>4, <3>5
    <3>7. PICK j \in 1 .. k - 1 : Roots[j] = i
      <4>1. i \in {l \in 1 .. Len(t) : t[l].in = NoNode} /\ i < Roots[k]
        BY <2>7, <3>5, <3>6
      <4> QED
        BY <2>5, <4>1, EarlierInList, Zenon
    <3> QED
      BY <2>2, <3>3, <3>5, <3>7
  <2> QED
    BY <2>11, <2>12
<1> QED
  BY <1>1, Walks, Trees, Decodings, PTL
==============================================================================
