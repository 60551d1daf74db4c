------------------------- MODULE GlobalStore_proofs -------------------------
(***************************************************************************)
(* Proofs about GlobalStore, for all sets of types, inputs and stored      *)
(* numbers, every bound, and a solver that may or may not run into its     *)
(* timeout.                                                                *)
(***************************************************************************)
EXTENDS GlobalStore, PathCondition_proofs, SequenceTheorems, TLAPS

Addresses == [const : 0 .. MaxConsts, num : Nat]
Stars == [type : Types, address : Addresses, isSymbolic : BOOLEAN]
Arrays == [first : Addresses, puts : Seq([address : Addresses, value : Stored])]
Places == [made : {TRUE}, areSymbolic : Seq(BOOLEAN), symbolic : Nat, default : Nat]

Storings == [pointer : Nat, value : Stored]

Typed ==
    /\ created \in PathIds
    /\ live \subseteq 1 .. created
    /\ mem \in [PathIds -> Memories]
    /\ consts \in 0 .. MaxConsts
    /\ globals \in [PathIds -> [Types -> Places \cup {NoArrays}]]
    /\ heap \in Seq(Arrays)
    /\ pointers \in [PathIds -> Seq(Stars)]
    /\ stores \in [PathIds -> Seq(Storings)]
    /\ foreign \in [PathIds -> SUBSET Nat]

\* What a path refers to is there.
Linked(p) ==
    /\ Len(pointers[p]) <= MaxPointers
    /\ Len(stores[p]) <= MaxStores
    /\ foreign[p] \subseteq DOMAIN heap
    /\ \A k \in DOMAIN pointers[p] : globals[p][pointers[p][k].type].made
    /\ \A j \in DOMAIN stores[p] : stores[p][j].pointer \in DOMAIN pointers[p]
    /\ \A T \in Types : globals[p][T].made =>
         /\ Len(globals[p][T].areSymbolic) <= Len(pointers[p])
         /\ globals[p][T].symbolic \in DOMAIN heap
         /\ globals[p][T].default \in DOMAIN heap
         /\ heap[globals[p][T].default].first = Number(0)

\* The last address that pointers of the type may have on a path.
LastAddress(p, T) == Len(globals[p][T].areSymbolic) + 1

(***************************************************************************)
(* Where a pointer points to: an allocated object has a number of its own, *)
(* a symbolic pointer stays below what is allocated after it.              *)
(***************************************************************************)
Located(p, r) ==
    /\ r.isSymbolic =>
         /\ r.address.const \in 1 .. MaxConsts
         /\ r.address.num = 0
         /\ \A i \in mem[p].path : Eval(r.address, i) <= LastAddress(p, r.type)
    /\ ~ r.isSymbolic =>
         /\ r.address.const = 0
         /\ r.address.num <= LastAddress(p, r.type)

Apart(p, a, b) ==
    a.type = b.type /\ ~ b.isSymbolic =>
      /\ a.isSymbolic => \A i \in mem[p].path : Eval(a.address, i) < b.address.num
      /\ ~ a.isSymbolic => a.address.num < b.address.num

Ordered(p) ==
    \A k \in DOMAIN pointers[p] :
      /\ Located(p, pointers[p][k])
      /\ \A j \in 1 .. k - 1 : Apart(p, pointers[p][j], pointers[p][k])

StoreInv == Typed /\ \A p \in PathIds : Linked(p) /\ Ordered(p)

-----------------------------------------------------------------------------

LEMMA EvalIsNat ==
    ASSUME NEW e \in Addresses, NEW i \in Inputs
    PROVE  Eval(e, i) \in Nat
BY InputsAssumption, BoundsAssumption DEF Eval, Addresses

LEMMA NumberFacts ==
    ASSUME NEW n \in Nat
    PROVE  Number(n) \in Addresses /\ Number(n).const = 0 /\ Number(n).num = n
BY BoundsAssumption DEF Number, Addresses

LEMMA ConstFacts ==
    ASSUME NEW c \in 1 .. MaxConsts
    PROVE  /\ Const(c) \in Addresses /\ Const(c).const = c /\ Const(c).num = 0
           /\ \A i \in Inputs : Eval(Const(c), i) = i[c]
BY BoundsAssumption DEF Const, Addresses, Eval

LEMMA NewArrayFacts ==
    ASSUME NEW e \in Addresses
    PROVE  /\ NewArray(e) \in Arrays
           /\ NewArray(e).first = e
           /\ NewArray(e).puts = <<>>
BY DEF NewArray, Arrays

LEMMA PathIsOfInputs == Typed => \A p \in PathIds : mem[p].path \subseteq Inputs
BY DEF Typed, Memories, Conditions

LEMMA PutFacts ==
    ASSUME NEW array \in Arrays, NEW e \in Addresses, NEW v \in Stored
    PROVE  /\ Put(array, e, v) \in Arrays
           /\ Put(array, e, v).first = array.first
           /\ Put(array, e, v).puts = Append(array.puts, [address |-> e, value |-> v])
<1>1. PICK s \in Seq([address : Addresses, value : Stored]) : s = array.puts
  BY DEF Arrays
<1>2. PICK t : t = Append(s, [address |-> e, value |-> v])
  OBVIOUS
<1>3. t \in Seq([address : Addresses, value : Stored])
  BY <1>2
<1>4. Put(array, e, v) = [array EXCEPT !.puts = t]
  BY <1>1, <1>2 DEF Put
<1> QED
  BY <1>1, <1>2, <1>3, <1>4 DEF Arrays

LEMMA BranchCondsFacts ==
    ASSUME NEW p
    PROVE  \A c \in BranchConds(p) : c \subseteq Inputs
<1>1. \A a, b : EqCond(a, b) \subseteq Inputs
  BY DEF EqCond
<1>2. \A r, v : ValueCond(p, r, v) \subseteq Inputs
  BY DEF ValueCond
<1> DEFINE made == Range(pointers[p])
           Equal(a) == {EqCond(a, b) : b \in {r \in made : r.type = a.type}}
           Values == {ValueCond(p, r, v) : r \in made, v \in Stored}
<1>3. \A a : \A c \in Equal(a) : c \subseteq Inputs
  BY <1>1
<1>4. \A c \in Values : c \subseteq Inputs
  BY <1>2
<1>5. PICK U : U = UNION {Equal(a) : a \in made}
  OBVIOUS
<1>6. BranchConds(p) = U \cup Values
  BY <1>5 DEF BranchConds
<1> HIDE DEF Equal, Values, made
<1>7. ASSUME NEW c \in U
      PROVE  c \subseteq Inputs
  <2>1. PICK a \in made : c \in Equal(a)
    BY <1>5
  <2> QED
    BY <1>3, <2>1
<1>8. \A c \in BranchConds(p) : c \in U \/ c \in Values
  BY <1>6
<1> QED
  BY <1>4, <1>7, <1>8

(***************************************************************************)
(* What a new pointer does to the lists of its type and to the heap.       *)
(***************************************************************************)
LEMMA ListedFacts ==
    ASSUME Typed, NEW p \in PathIds, NEW T \in Types, NEW b \in BOOLEAN,
           NEW L, L = Listed(p, T, b)
    PROVE  /\ L \in [PathIds -> [Types -> Places \cup {NoArrays}]]
           /\ \A q \in PathIds : q # p => L[q] = globals[q]
           /\ \A U \in Types : U # T => L[p][U] = globals[p][U]
           /\ L[p][T] \in Places
           /\ Len(L[p][T].areSymbolic) + 1 = NewSize(p, T)
           /\ NewSize(p, T) \in Nat
           /\ globals[p][T].made =>
                /\ globals[p][T] \in Places
                /\ NewSize(p, T) = Len(globals[p][T].areSymbolic) + 2
                /\ Len(L[p][T].areSymbolic) = Len(globals[p][T].areSymbolic) + 1
                /\ L[p][T].symbolic = globals[p][T].symbolic
                /\ L[p][T].default = globals[p][T].default
           /\ ~ globals[p][T].made =>
                /\ NewSize(p, T) = 2
                /\ L[p][T].symbolic = Len(heap) + 1
                /\ L[p][T].default = Len(heap) + 2
<1>1. /\ globals[p][T] \in Places \cup {NoArrays}
      /\ globals \in [PathIds -> [Types -> Places \cup {NoArrays}]]
      /\ Len(heap) \in Nat
  BY DEF Typed
<1> DEFINE g == Global(p, T)
<1>2. ASSUME g \in Places
      PROVE  /\ L \in [PathIds -> [Types -> Places \cup {NoArrays}]]
             /\ \A q \in PathIds : q # p => L[q] = globals[q]
             /\ \A U \in Types : U # T => L[p][U] = globals[p][U]
             /\ L[p][T] \in Places
             /\ Len(L[p][T].areSymbolic) + 1 = NewSize(p, T)
             /\ NewSize(p, T) = Len(g.areSymbolic) + 2
             /\ Len(L[p][T].areSymbolic) = Len(g.areSymbolic) + 1
             /\ NewSize(p, T) \in Nat
             /\ L[p][T].symbolic = g.symbolic
             /\ L[p][T].default = g.default
  <2>1. PICK s \in Seq(BOOLEAN) : s = g.areSymbolic
    BY <1>2 DEF Places
  <2>2. /\ Append(s, b) \in Seq(BOOLEAN)
        /\ Len(Append(s, b)) = Len(s) + 1
        /\ Len(s) \in Nat
    OBVIOUS
  <2>3. L[p][T] = [g EXCEPT !.areSymbolic = Append(s, b)]
    BY <1>1, <2>1 DEF Listed
  <2> HIDE DEF g
  <2>4. /\ L[p][T] \in Places
        /\ L[p][T].areSymbolic = Append(s, b)
        /\ L[p][T].symbolic = g.symbolic
        /\ L[p][T].default = g.default
    BY <1>2, <2>2, <2>3 DEF Places
  <2>5. /\ L \in [PathIds -> [Types -> Places \cup {NoArrays}]]
        /\ \A q \in PathIds : q # p => L[q] = globals[q]
        /\ \A U \in Types : U # T => L[p][U] = globals[p][U]
    BY <1>1, <2>3, <2>4 DEF Listed
  <2>6. NewSize(p, T) = Len(s) + 2
    BY <2>1 DEF NewSize, g
  <2> QED
    BY <2>1, <2>2, <2>4, <2>5, <2>6
<1>3. CASE globals[p][T].made
  <2>1. globals[p][T] \in Places /\ g = globals[p][T]
    BY <1>1, <1>3 DEF NoArrays, Global, IsNew
  <2> QED
    BY <1>2, <1>3, <2>1
<1>4. CASE ~ globals[p][T].made
  <2>1. g = [made |-> TRUE, areSymbolic |-> <<>>,
             symbolic |-> Len(heap) + 1, default |-> Len(heap) + 2]
    BY <1>4 DEF Global, IsNew
  <2>2. <<>> \in Seq(BOOLEAN)
    OBVIOUS
  <2>3. PICK none \in Seq(BOOLEAN) : none = <<>> /\ Len(none) = 0
    BY <2>2
  <2>4. g = [made |-> TRUE, areSymbolic |-> none,
             symbolic |-> Len(heap) + 1, default |-> Len(heap) + 2]
    BY <2>1, <2>3
  <2>5. /\ g \in Places
        /\ g.areSymbolic = none
        /\ g.symbolic = Len(heap) + 1
        /\ g.default = Len(heap) + 2
    BY <1>1, <2>4 DEF Places
  <2> QED
    BY <1>2, <1>4, <2>3, <2>5
<1> QED
  BY <1>3, <1>4

LEMMA NewHeapFacts ==
    ASSUME Typed, NEW p \in PathIds, NEW T \in Types,
           consts + ConstsNeeded(p, T) <= MaxConsts, NEW h, h = NewHeap(p, T)
    PROVE  /\ h \in Seq(Arrays)
           /\ DOMAIN heap \subseteq DOMAIN h
           /\ \A a \in DOMAIN heap : h[a] = heap[a]
           /\ globals[p][T].made => h = heap
           /\ ~ globals[p][T].made =>
                /\ Len(heap) + 1 \in DOMAIN h
                /\ Len(heap) + 2 \in DOMAIN h
                /\ h[Len(heap) + 1].puts = <<>>
                /\ h[Len(heap) + 2] = NewArray(Number(0))
<1>1. heap \in Seq(Arrays) /\ consts \in 0 .. MaxConsts
  BY DEF Typed
<1>2. CASE globals[p][T].made
  BY <1>1, <1>2 DEF NewHeap, IsNew
<1>3. CASE ~ globals[p][T].made
  <2>1. consts + 1 \in 1 .. MaxConsts
    BY <1>1, <1>3, BoundsAssumption DEF ConstsNeeded, IsNew
  <2> DEFINE x == NewArray(Const(consts + 1))
             y == NewArray(Number(0))
  <2>2. x \in Arrays /\ y \in Arrays /\ x.puts = <<>>
    BY <2>1, ConstFacts, NumberFacts, NewArrayFacts
  <2>3. h = heap \o <<x, y>>
    BY <1>3 DEF NewHeap, IsNew
  <2> HIDE DEF x, y
  <2>4. <<x, y>> \in Seq(Arrays) /\ Len(<<x, y>>) = 2
    BY <2>2
  <2>5. /\ h \in Seq(Arrays)
        /\ Len(h) = Len(heap) + 2
        /\ \A a \in 1 .. Len(h) :
             h[a] = IF a <= Len(heap) THEN heap[a] ELSE <<x, y>>[a - Len(heap)]
    BY <1>1, <2>3, <2>4, ConcatProperties
  <2>6. h[Len(heap) + 1] = x /\ h[Len(heap) + 2] = y
    BY <1>1, <2>5
  <2> QED
    BY <1>1, <1>3, <2>2, <2>5, <2>6 DEF y
<1> QED
  BY <1>2, <1>3

-----------------------------------------------------------------------------

LEMMA LiveIsPath == Typed => /\ live \subseteq PathIds
                             /\ created \in Nat
                             /\ \A p \in live : p <= created
BY BoundsAssumption DEF Typed, PathIds

LEMMA StoreInit == Init => StoreInv
<1> SUFFICES ASSUME Init PROVE StoreInv
  OBVIOUS
<1>1. Typed
  <2>1. created \in PathIds /\ live \subseteq 1 .. created /\ consts \in 0 .. MaxConsts
    BY BoundsAssumption DEF Init, PathIds
  <2>2. mem \in [PathIds -> Memories]
    BY NewMemoryFacts DEF Init
  <2>3. /\ globals \in [PathIds -> [Types -> Places \cup {NoArrays}]]
        /\ foreign \in [PathIds -> SUBSET Nat]
    BY DEF Init
  <2>4. /\ heap \in Seq(Arrays)
        /\ pointers \in [PathIds -> Seq(Stars)]
        /\ stores \in [PathIds -> Seq(Storings)]
    BY DEF Init
  <2> QED
    BY <2>1, <2>2, <2>3, <2>4 DEF Typed
<1>2. ASSUME NEW p \in PathIds
      PROVE  Linked(p) /\ Ordered(p)
  <2>1. /\ pointers[p] = <<>> /\ stores[p] = <<>> /\ foreign[p] = {}
        /\ \A T \in Types : ~ globals[p][T].made
    BY DEF Init, NoArrays
  <2>2. DOMAIN pointers[p] = {} /\ DOMAIN stores[p] = {}
    BY <2>1
  <2>3. Len(pointers[p]) = 0 /\ Len(stores[p]) = 0
    BY <2>1
  <2> QED
    BY <2>1, <2>2, <2>3, BoundsAssumption DEF Linked, Ordered
<1> QED
  BY <1>1, <1>2 DEF StoreInv

(***************************************************************************)
(* A path that has what another path had, or what it had itself, and a     *)
(* stronger condition: what it refers to is not changed by a step that     *)
(* stores values or makes the heap longer.                                 *)
(***************************************************************************)
LEMMA Inherited ==
    ASSUME Typed, NEW p \in PathIds, Linked(p), Ordered(p), NEW q \in PathIds,
           globals'[q] = globals[p], pointers'[q] = pointers[p],
           stores'[q] = stores[p], foreign'[q] \subseteq DOMAIN heap',
           mem'[q].path \subseteq mem[p].path,
           DOMAIN heap \subseteq DOMAIN heap',
           \A a \in DOMAIN heap : heap'[a].first = heap[a].first
    PROVE  Linked(q)' /\ Ordered(q)'
<1>1. \A T \in Types : globals[p][T].made =>
         /\ globals[p][T].default \in DOMAIN heap
         /\ heap'[globals[p][T].default].first = Number(0)
  BY DEF Linked
<1>2. Linked(q)'
  BY <1>1 DEF Linked
<1>3. \A T : LastAddress(q, T)' = LastAddress(p, T)
  BY DEF LastAddress
<1>4. ASSUME NEW r
      PROVE  Located(p, r) => Located(q, r)'
  BY <1>3 DEF Located
<1>5. ASSUME NEW a, NEW b
      PROVE  Apart(p, a, b) => Apart(q, a, b)'
  BY DEF Apart
<1>6. PICK s : s = pointers[p] /\ s = pointers'[q]
  OBVIOUS
<1>7. ASSUME NEW k \in DOMAIN s
      PROVE  Located(q, s[k])' /\ \A j \in 1 .. k - 1 : Apart(q, s[j], s[k])'
  <2>1. Located(p, s[k]) /\ \A j \in 1 .. k - 1 : Apart(p, s[j], s[k])
    BY <1>6 DEF Ordered
  <2> QED
    BY <1>4, <1>5, <2>1
<1>8. Ordered(q)'
  BY <1>6, <1>7 DEF Ordered
<1> QED
  BY <1>2, <1>8

(***************************************************************************)
(* A new pointer: r is symbolic and its address is bounded on the inputs   *)
(* of the path, or r has the next number.                                  *)
(***************************************************************************)
LEMMA NewPointer ==
    ASSUME StoreInv, NEW p \in live, NEW T \in Types, NEW r \in Stars,
           r.type = T,
           Len(pointers[p]) < MaxPointers,
           consts + ConstsNeeded(p, T) <= MaxConsts,
           consts' \in 0 .. MaxConsts,
           heap' = NewHeap(p, T),
           globals' = Listed(p, T, r.isSymbolic),
           pointers' = [pointers EXCEPT ![p] = Append(@, r)],
           mem' \in [PathIds -> Memories],
           \A q \in PathIds : mem'[q].path \subseteq mem[q].path,
           UNCHANGED <<created, live, stores, foreign>>,
           r.isSymbolic =>
             /\ r.address.const \in 1 .. MaxConsts /\ r.address.num = 0
             /\ \A i \in mem'[p].path : Eval(r.address, i) <= NewSize(p, T),
           ~ r.isSymbolic => r.address = Number(NewSize(p, T))
    PROVE  StoreInv'
<1>1. Typed /\ p \in PathIds /\ Linked(p) /\ Ordered(p)
  BY LiveIsPath DEF StoreInv
<1>2. r.isSymbolic \in BOOLEAN /\ r.address \in Addresses
  BY DEF Stars
<1>3. PICK n : n = NewSize(p, T)
  OBVIOUS
<1>4. /\ globals' \in [PathIds -> [Types -> Places \cup {NoArrays}]]
      /\ \A q \in PathIds : q # p => globals'[q] = globals[q]
      /\ \A U \in Types : U # T => globals'[p][U] = globals[p][U]
      /\ globals'[p][T] \in Places
      /\ Len(globals'[p][T].areSymbolic) + 1 = n
      /\ n \in Nat
      /\ globals[p][T].made =>
           /\ globals[p][T] \in Places
           /\ n = Len(globals[p][T].areSymbolic) + 2
           /\ Len(globals'[p][T].areSymbolic) = Len(globals[p][T].areSymbolic) + 1
           /\ globals'[p][T].symbolic = globals[p][T].symbolic
           /\ globals'[p][T].default = globals[p][T].default
      /\ ~ globals[p][T].made =>
           /\ n = 2
           /\ globals'[p][T].symbolic = Len(heap) + 1
           /\ globals'[p][T].default = Len(heap) + 2
  BY <1>1, <1>2, <1>3, ListedFacts
<1>5. /\ heap' \in Seq(Arrays)
      /\ DOMAIN heap \subseteq DOMAIN heap'
      /\ \A a \in DOMAIN heap : heap'[a] = heap[a]
      /\ globals[p][T].made => heap' = heap
      /\ ~ globals[p][T].made =>
           /\ Len(heap) + 1 \in DOMAIN heap'
           /\ Len(heap) + 2 \in DOMAIN heap'
           /\ heap'[Len(heap) + 2].first = Number(0)
  BY <1>1, NewHeapFacts, NumberFacts, NewArrayFacts
<1>6. PICK s \in Seq(Stars) : s = pointers[p]
  BY <1>1 DEF Typed
<1>7. /\ Append(s, r) \in Seq(Stars)
      /\ Len(Append(s, r)) = Len(s) + 1
      /\ Len(s) \in Nat
      /\ DOMAIN s = 1 .. Len(s)
      /\ DOMAIN Append(s, r) = 1 .. Len(s) + 1
      /\ \A k \in 1 .. Len(s) : Append(s, r)[k] = s[k]
      /\ Append(s, r)[Len(s) + 1] = r
  OBVIOUS
<1>8. /\ pointers'[p] = Append(s, r)
      /\ \A q \in PathIds : q # p => pointers'[q] = pointers[q]
      /\ pointers' \in [PathIds -> Seq(Stars)]
  BY <1>1, <1>6, <1>7 DEF Typed
<1>9. Typed'
  BY <1>1, <1>4, <1>5, <1>8 DEF Typed
<1>10. Linked(p)'
  <2>1. Len(pointers'[p]) <= MaxPointers /\ Len(stores'[p]) <= MaxStores
    BY <1>1, <1>6, <1>7, <1>8, BoundsAssumption DEF Linked
  <2>2. foreign'[p] \subseteq DOMAIN heap'
    BY <1>1, <1>5 DEF Linked
  <2>3. globals'[p][T].made
    BY <1>4 DEF Places
  <2>4. ASSUME NEW k \in DOMAIN pointers'[p]
        PROVE  globals'[p][pointers'[p][k].type].made
    <3>1. CASE k = Len(s) + 1
      BY <1>7, <1>8, <2>3, <3>1
    <3>2. CASE k \in 1 .. Len(s)
      <4>1. pointers'[p][k] = s[k] /\ globals[p][s[k].type].made
        BY <1>1, <1>6, <1>7, <1>8, <3>2 DEF Linked
      <4>2. s[k] \in Stars
        BY <3>2
      <4>3. s[k].type \in Types
        BY <4>2 DEF Stars
      <4> QED
        BY <1>4, <2>3, <4>1, <4>3
    <3> QED
      BY <1>7, <1>8, <3>1, <3>2
  <2>5. \A j \in DOMAIN stores'[p] : stores'[p][j].pointer \in DOMAIN pointers'[p]
    BY <1>1, <1>6, <1>7, <1>8 DEF Linked
  <2>6. ASSUME NEW U \in Types, globals'[p][U].made
        PROVE  /\ Len(globals'[p][U].areSymbolic) <= Len(pointers'[p])
               /\ globals'[p][U].symbolic \in DOMAIN heap'
               /\ globals'[p][U].default \in DOMAIN heap'
               /\ heap'[globals'[p][U].default].first = Number(0)
    <3>1. CASE U # T
      <4>1. globals'[p][U] = globals[p][U] /\ globals[p][U].made
        BY <1>4, <2>6, <3>1
      <4>2. globals[p][U] \in Places
        BY <1>1, <4>1 DEF Typed, NoArrays
      <4>3. Len(globals[p][U].areSymbolic) \in Nat
        BY <4>2 DEF Places
      <4> QED
        BY <1>1, <1>5, <1>6, <1>7, <1>8, <4>1, <4>3 DEF Linked
    <3>2. CASE U = T /\ globals[p][T].made
      <4>1. Len(globals[p][T].areSymbolic) \in Nat
        BY <1>4, <3>2 DEF Places
      <4>2. /\ Len(globals[p][T].areSymbolic) <= Len(s)
            /\ globals[p][T].symbolic \in DOMAIN heap
            /\ globals[p][T].default \in DOMAIN heap
            /\ heap[globals[p][T].default].first = Number(0)
        BY <1>1, <1>6, <3>2 DEF Linked
      <4>3. /\ Len(globals'[p][T].areSymbolic) = Len(globals[p][T].areSymbolic) + 1
            /\ globals'[p][T].symbolic = globals[p][T].symbolic
            /\ globals'[p][T].default = globals[p][T].default
            /\ heap' = heap
        BY <1>4, <1>5, <3>2
      <4> QED
        BY <1>7, <1>8, <3>2, <4>1, <4>2, <4>3
    <3>3. CASE U = T /\ ~ globals[p][T].made
      <4>1. Len(globals'[p][T].areSymbolic) \in Nat
        BY <1>4 DEF Places
      <4> QED
        BY <1>4, <1>5, <1>7, <1>8, <3>3, <4>1
    <3> QED
      BY <3>1, <3>2, <3>3
  <2> QED
    BY <2>1, <2>2, <2>4, <2>5, <2>6 DEF Linked
<1>11. Ordered(p)'
  <2>1. LastAddress(p, T)' = n
    BY <1>4 DEF LastAddress
  <2>2. \A U \in Types : U # T => LastAddress(p, U)' = LastAddress(p, U)
    BY <1>4 DEF LastAddress
  <2>3. globals[p][T].made => LastAddress(p, T) \in Nat /\ LastAddress(p, T) < n
    <3>1. globals[p][T].made => Len(globals[p][T].areSymbolic) \in Nat
      BY <1>4 DEF Places
    <3> QED
      BY <1>4, <3>1 DEF LastAddress
  <2>4. ASSUME NEW k \in 1 .. Len(s)
        PROVE  /\ pointers'[p][k] = s[k]
               /\ s[k] \in Stars
               /\ Located(p, s[k])
               /\ \A j \in 1 .. k - 1 : Apart(p, s[j], s[k])
               /\ s[k].type = T => LastAddress(p, T) \in Nat /\ LastAddress(p, T) < n
    <3>1. pointers'[p][k] = s[k] /\ s[k] \in Stars
      BY <1>7, <1>8
    <3>2. Located(p, s[k]) /\ \A j \in 1 .. k - 1 : Apart(p, s[j], s[k])
      BY <1>1, <1>6 DEF Ordered
    <3>3. globals[p][s[k].type].made
      BY <1>1, <1>6 DEF Linked
    <3> QED
      BY <2>3, <3>1, <3>2, <3>3
  <2>5. mem'[p].path \subseteq mem[p].path /\ mem[p].path \subseteq Inputs
    BY <1>1, PathIsOfInputs
  <2>6. ASSUME NEW k \in 1 .. Len(s)
        PROVE  /\ s[k].address.num \in Nat
               /\ \A i \in mem'[p].path : Eval(s[k].address, i) \in Nat
    BY <2>4, <2>5, EvalIsNat DEF Stars, Addresses
  <2>7. ASSUME NEW k \in 1 .. Len(s)
        PROVE  Located(p, s[k])'
    <3>1. s[k].type \in Types /\ Located(p, s[k])
      BY <2>4 DEF Stars
    <3>2. CASE s[k].type = T
      BY <1>4, <2>1, <2>4, <2>5, <2>6, <3>1, <3>2 DEF Located
    <3>3. CASE s[k].type # T
      BY <2>2, <2>5, <3>1, <3>3 DEF Located
    <3> QED
      BY <3>2, <3>3
  <2>8. Located(p, r)'
    <3>1. r.isSymbolic => \A i \in mem'[p].path : Eval(r.address, i) <= n
      BY <1>3
    <3>2. ~ r.isSymbolic => r.address.const = 0 /\ r.address.num = n
      BY <1>3, <1>4, NumberFacts
    <3> QED
      BY <1>4, <2>1, <3>1, <3>2 DEF Located
  <2>9. ASSUME NEW k \in 1 .. Len(s), NEW j \in 1 .. k - 1
        PROVE  Apart(p, s[j], s[k])'
    BY <2>4, <2>5 DEF Apart
  <2>10. ASSUME NEW j \in 1 .. Len(s)
         PROVE  Apart(p, s[j], r)'
    <3> SUFFICES ASSUME s[j].type = T, ~ r.isSymbolic
                 PROVE  /\ s[j].isSymbolic =>
                             \A i \in mem'[p].path : Eval(s[j].address, i) < r.address.num
                        /\ ~ s[j].isSymbolic => s[j].address.num < r.address.num
      BY DEF Apart
    <3>1. r.address.num = n
      BY <1>3, <1>4, NumberFacts
    <3>2. Located(p, s[j]) /\ LastAddress(p, T) \in Nat /\ LastAddress(p, T) < n
      BY <2>4
    <3> QED
      BY <1>4, <2>5, <2>6, <3>1, <3>2 DEF Located
  <2>11. PICK t : t = pointers'[p]
    OBVIOUS
  <2>12. /\ DOMAIN t = 1 .. Len(s) + 1
         /\ \A k \in 1 .. Len(s) : t[k] = s[k]
         /\ t[Len(s) + 1] = r
    BY <1>7, <1>8, <2>11
  <2>13. ASSUME NEW k \in 1 .. Len(s) + 1
         PROVE  Located(p, t[k])' /\ \A j \in 1 .. k - 1 : Apart(p, t[j], t[k])'
    <3>1. CASE k = Len(s) + 1
      <4>1. t[k] = r /\ \A j \in 1 .. k - 1 : j \in 1 .. Len(s) /\ t[j] = s[j]
        BY <1>7, <2>12, <3>1
      <4> QED
        BY <2>8, <2>10, <4>1
    <3>2. CASE k \in 1 .. Len(s)
      <4>1. t[k] = s[k] /\ \A j \in 1 .. k - 1 : t[j] = s[j]
        BY <1>7, <2>12, <3>2
      <4> QED
        BY <2>7, <2>9, <3>2, <4>1
    <3> QED
      BY <1>7, <3>1, <3>2
  <2> QED
    BY <2>11, <2>12, <2>13 DEF Ordered
<1>12. ASSUME NEW q \in PathIds, q # p
       PROVE  Linked(q)' /\ Ordered(q)'
  <2>1. Linked(q) /\ Ordered(q)
    BY DEF StoreInv
  <2>2. foreign'[q] \subseteq DOMAIN heap'
    BY <1>5, <2>1 DEF Linked
  <2> QED
    BY <1>1, <1>4, <1>5, <1>8, <1>12, <2>1, <2>2, Inherited
<1> QED
  BY <1>9, <1>10, <1>11, <1>12 DEF StoreInv

LEMMA StoreNext == StoreInv /\ [Next]_vars => StoreInv'
<1> SUFFICES ASSUME StoreInv, [Next]_vars PROVE StoreInv'
  OBVIOUS
<1>0. Typed /\ live \subseteq PathIds
  BY LiveIsPath DEF StoreInv
<1>1. ASSUME NEW p \in PathIds, NEW T \in Types, AddNewSymbolicStar(p, T)
      PROVE  StoreInv'
  <2> DEFINE c == consts + ConstsNeeded(p, T) + 1
             e == Const(c)
             cond == AddressCond(p, T, e)
             r == Pointer(T, e, TRUE)
  <2>1. consts \in Nat /\ ConstsNeeded(p, T) \in {0, 1}
    BY <1>0 DEF Typed, ConstsNeeded
  <2>2. c \in 1 .. MaxConsts /\ consts + ConstsNeeded(p, T) <= MaxConsts
    BY <1>1, <2>1, BoundsAssumption DEF AddNewSymbolicStar
  <2>3. e \in Addresses /\ e.const = c /\ e.num = 0
    BY <2>2, ConstFacts
  <2>4. /\ r \in Stars /\ r.type = T /\ r.isSymbolic /\ r.address = e
    BY <2>3 DEF Pointer, Stars
  <2>5. cond \in Conditions /\ \A i \in cond : Eval(e, i) <= NewSize(p, T)
    <3>1. cond \subseteq {i \in Inputs : Eval(e, i) \in 1 .. NewSize(p, T)}
      BY DEF AddressCond
    <3>2. NewSize(p, T) \in Nat
      BY <1>0, ListedFacts
    <3> QED
      BY <3>1, <3>2 DEF Conditions
  <2>6. /\ p \in live
        /\ Len(pointers[p]) < MaxPointers
        /\ consts' = c
        /\ heap' = NewHeap(p, T)
        /\ globals' = Listed(p, T, TRUE)
        /\ mem' = [mem EXCEPT ![p] = AddCond(mem[p], cond)]
        /\ pointers' = [pointers EXCEPT ![p] = Append(@, r)]
        /\ UNCHANGED <<created, live, stores, foreign>>
    BY <1>1 DEF AddNewSymbolicStar
  <2> HIDE DEF c, e, cond, r
  <2>7. /\ AddCond(mem[p], cond) \in Memories
        /\ AddCond(mem[p], cond).path = mem[p].path \cap cond
    BY <1>0, <2>5, AddCondFacts DEF Typed
  <2>8. /\ mem' \in [PathIds -> Memories]
        /\ mem'[p].path = mem[p].path \cap cond
        /\ \A q \in PathIds : mem'[q].path \subseteq mem[q].path
    BY <1>0, <2>6, <2>7 DEF Typed
  <2>9. /\ globals' = Listed(p, T, r.isSymbolic)
        /\ consts' \in 0 .. MaxConsts
        /\ r.address.const \in 1 .. MaxConsts /\ r.address.num = 0
        /\ \A i \in mem'[p].path : Eval(r.address, i) <= NewSize(p, T)
    <3>1. r.isSymbolic = TRUE
      BY <2>4 DEF Stars
    <3> QED
      BY <2>2, <2>3, <2>4, <2>5, <2>6, <2>8, <3>1
  <2> QED
    BY <2>2, <2>4, <2>6, <2>8, <2>9, NewPointer
<1>2. ASSUME NEW p \in PathIds, NEW T \in Types, AddNewDefaultStar(p, T)
      PROVE  StoreInv'
  <2> DEFINE n == NewSize(p, T)
             r == Pointer(T, Number(n), FALSE)
  <2>1. n \in Nat
    BY <1>0, ListedFacts
  <2>2. r \in Stars /\ r.type = T /\ r.isSymbolic = FALSE /\ r.address = Number(n)
    BY <2>1, NumberFacts DEF Pointer, Stars
  <2>3. /\ p \in live
        /\ Len(pointers[p]) < MaxPointers
        /\ consts + ConstsNeeded(p, T) <= MaxConsts
        /\ consts' = consts + ConstsNeeded(p, T)
        /\ heap' = NewHeap(p, T)
        /\ globals' = Listed(p, T, FALSE)
        /\ pointers' = [pointers EXCEPT ![p] = Append(@, r)]
        /\ UNCHANGED <<created, live, mem, stores, foreign>>
    BY <1>2 DEF AddNewDefaultStar
  <2> HIDE DEF r
  <2>4. consts' \in 0 .. MaxConsts
    BY <1>0, <2>3, BoundsAssumption DEF Typed, ConstsNeeded
  <2>5. mem' \in [PathIds -> Memories] /\ globals' = Listed(p, T, r.isSymbolic)
    BY <1>0, <2>2, <2>3 DEF Typed
  <2> QED
    BY <2>2, <2>3, <2>4, <2>5, NewPointer
<1>3. ASSUME NEW p \in PathIds, NEW k \in DOMAIN pointers[p], NEW v \in Stored,
             PutStar(p, k, v)
      PROVE  StoreInv'
  <2>1. /\ p \in live
        /\ Len(stores[p]) < MaxStores
        /\ stores' = [stores EXCEPT ![p] = Append(@, [pointer |-> k, value |-> v])]
        /\ UNCHANGED <<created, live, mem, consts, globals, pointers>>
    BY <1>3 DEF PutStar
  <2>2. PICK a : a = ArrayOf(p, pointers[p][k])
    OBVIOUS
  <2>3. PICK x : x = Put(heap[a], pointers[p][k].address, v)
    OBVIOUS
  <2>4. heap' = [heap EXCEPT ![a] = x]
    BY <1>3, <2>2, <2>3 DEF PutStar
  <2>5. Linked(p) /\ Ordered(p)
    BY DEF StoreInv
  <2>6. a \in DOMAIN heap /\ pointers[p][k].address \in Addresses
    <3>1. globals[p][pointers[p][k].type].made
      BY <2>5 DEF Linked
    <3>2. pointers[p] \in Seq(Stars)
      BY <1>0 DEF Typed
    <3>3. pointers[p][k] \in Stars
      BY <3>2
    <3>4. /\ pointers[p][k].type \in Types /\ pointers[p][k].isSymbolic \in BOOLEAN
          /\ pointers[p][k].address \in Addresses
      BY <3>3 DEF Stars
    <3> QED
      BY <2>2, <2>5, <3>1, <3>4 DEF Linked, ArrayOf
  <2>7. x \in Arrays /\ x.first = heap[a].first
    <3>1. heap \in Seq(Arrays)
      BY <1>0 DEF Typed
    <3>2. heap[a] \in Arrays
      BY <2>6, <3>1
    <3> QED
      BY <2>3, <2>6, <3>2, PutFacts
  <2>8. /\ heap' \in Seq(Arrays) /\ DOMAIN heap' = DOMAIN heap
        /\ \A b \in DOMAIN heap : heap'[b].first = heap[b].first
    BY <1>0, <2>4, <2>6, <2>7, ExceptSeq DEF Typed
  <2>9. a \in Nat
    BY <1>0, <2>6 DEF Typed
  <2>10. \A q \in PathIds : foreign'[q] \subseteq foreign[q] \cup {a}
    BY <1>3, <2>2 DEF PutStar
  <2>11. foreign' = [q \in PathIds |-> foreign'[q]]
    BY <1>3 DEF PutStar
  <2>12. foreign' \in [PathIds -> SUBSET Nat]
    <3>1. \A q \in PathIds : foreign[q] \subseteq Nat
      BY <1>0 DEF Typed
    <3>2. \A q \in PathIds : foreign'[q] \in SUBSET Nat
      BY <2>9, <2>10, <3>1
    <3> QED
      BY <2>11, <3>2
  <2>13. PICK s \in Seq(Storings) : s = stores[p]
    BY <1>0 DEF Typed
  <2>14. k \in Nat
    <3>1. pointers[p] \in Seq(Stars)
      BY <1>0 DEF Typed
    <3> QED
      BY <3>1
  <2> DEFINE y == [pointer |-> k, value |-> v]
  <2>15. /\ Append(s, y) \in Seq(Storings)
         /\ Len(Append(s, y)) = Len(s) + 1 /\ Len(s) \in Nat
         /\ DOMAIN s = 1 .. Len(s)
         /\ DOMAIN Append(s, y) = 1 .. Len(s) + 1
         /\ \A j \in 1 .. Len(s) : Append(s, y)[j] = s[j]
         /\ Append(s, y)[Len(s) + 1] = y
    <3>1. y \in Storings
      BY <2>14 DEF Storings
    <3> QED
      BY <3>1
  <2>16. /\ stores' = [stores EXCEPT ![p] = Append(s, y)]
         /\ stores'[p] = Append(s, y)
         /\ \A q \in PathIds : q # p => stores'[q] = stores[q]
         /\ stores' \in [PathIds -> Seq(Storings)]
    BY <1>0, <2>1, <2>13, <2>15 DEF Typed
  <2>17. Typed'
    BY <1>0, <2>1, <2>8, <2>12, <2>16 DEF Typed
  <2>18. \A q \in PathIds : foreign'[q] \subseteq DOMAIN heap'
    <3>1. \A q \in PathIds : foreign[q] \subseteq DOMAIN heap
      BY DEF StoreInv, Linked
    <3> QED
      BY <2>6, <2>8, <2>10, <3>1
  <2>19. ASSUME NEW q \in PathIds, q # p
         PROVE  Linked(q)' /\ Ordered(q)'
    <3>1. Linked(q) /\ Ordered(q)
      BY DEF StoreInv
    <3> QED
      BY <1>0, <2>1, <2>8, <2>16, <2>18, <2>19, <3>1, Inherited
  <2>20. Linked(p)'
    <3>1. Len(stores'[p]) <= MaxStores
      BY <2>1, <2>13, <2>15, <2>16, BoundsAssumption
    <3>2. \A j \in DOMAIN stores'[p] : stores'[p][j].pointer \in DOMAIN pointers[p]
      <4>1. \A j \in 1 .. Len(s) : s[j].pointer \in DOMAIN pointers[p]
        BY <2>5, <2>13, <2>15 DEF Linked
      <4>2. y.pointer \in DOMAIN pointers[p]
        OBVIOUS
      <4> HIDE DEF y
      <4>3. \A j \in 1 .. Len(s) + 1 : j \in 1 .. Len(s) \/ j = Len(s) + 1
        BY <2>15
      <4> QED
        BY <2>15, <2>16, <4>1, <4>2, <4>3
    <3>3. \A T \in Types : globals[p][T].made =>
            /\ globals[p][T].default \in DOMAIN heap
            /\ heap'[globals[p][T].default].first = Number(0)
      BY <2>5, <2>8 DEF Linked
    <3> QED
      BY <2>1, <2>5, <2>8, <2>18, <3>1, <3>2, <3>3 DEF Linked
  <2>21. Ordered(p)'
    <3>1. \A T : LastAddress(p, T)' = LastAddress(p, T)
      BY <2>1 DEF LastAddress
    <3>2. ASSUME NEW r PROVE Located(p, r) => Located(p, r)'
      BY <2>1, <3>1 DEF Located
    <3>3. ASSUME NEW r, NEW b PROVE Apart(p, r, b) => Apart(p, r, b)'
      BY <2>1 DEF Apart
    <3>4. PICK z : z = pointers[p] /\ z = pointers'[p]
      BY <2>1
    <3>5. ASSUME NEW n \in DOMAIN z
          PROVE  Located(p, z[n])' /\ \A j \in 1 .. n - 1 : Apart(p, z[j], z[n])'
      <4>1. Located(p, z[n]) /\ \A j \in 1 .. n - 1 : Apart(p, z[j], z[n])
        BY <2>5, <3>4 DEF Ordered
      <4> QED
        BY <3>2, <3>3, <4>1
    <3> QED
      BY <3>4, <3>5 DEF Ordered
  <2> QED
    BY <2>17, <2>19, <2>20, <2>21 DEF StoreInv
<1>4. ASSUME NEW p \in PathIds, NEW cond \in BranchConds(p), Fork(p, cond)
      PROVE  StoreInv'
  <2>1. PICK q : q = created + 1
    OBVIOUS
  <2>2. q \in PathIds /\ q # p /\ p \in live
    BY <1>0, <1>4, <2>1, LiveIsPath DEF Fork, PathIds
  <2>3. Linked(p) /\ Ordered(p)
    BY DEF StoreInv
  <2>4. /\ created' = q
        /\ live' \subseteq live \cup {p, q}
        /\ globals' = [globals EXCEPT ![q] = globals[p]]
        /\ pointers' = [pointers EXCEPT ![q] = pointers[p]]
        /\ stores' = [stores EXCEPT ![q] = stores[p]]
        /\ foreign' = [foreign EXCEPT ![q] = foreign[p]]
        /\ UNCHANGED <<consts, heap>>
    BY <1>4, <2>1 DEF Fork
  <2>5. PICK then : then = AddCond(mem[p], cond)
    OBVIOUS
  <2>6. PICK else : else = AddCond(Clone(mem[p]), Inputs \ cond)
    OBVIOUS
  <2>7. mem' = [mem EXCEPT ![p] = then, ![q] = else]
    BY <1>4, <2>1, <2>5, <2>6 DEF Fork
  <2>8. cond \in Conditions /\ Inputs \ cond \in Conditions
    BY BranchCondsFacts DEF Conditions
  <2>9. /\ then \in Memories /\ then.path \subseteq mem[p].path
        /\ else \in Memories /\ else.path \subseteq mem[p].path
    <3>1. mem[p] \in Memories
      BY <1>0 DEF Typed
    <3>2. Clone(mem[p]) \in Memories /\ Clone(mem[p]).path = mem[p].path
      BY <3>1, CloneFacts
    <3>3. then \in Memories /\ then.path = mem[p].path \cap cond
      BY <2>5, <2>8, <3>1, AddCondFacts
    <3>4. else \in Memories /\ else.path = mem[p].path \cap (Inputs \ cond)
      BY <2>6, <2>8, <3>2, AddCondFacts
    <3> QED
      BY <3>3, <3>4
  <2>10. /\ mem' \in [PathIds -> Memories]
         /\ mem'[p] = then /\ mem'[q] = else
         /\ \A r \in PathIds : r # p /\ r # q => mem'[r] = mem[r]
    BY <1>0, <2>2, <2>7, <2>9 DEF Typed
  <2>11. Typed'
    <3>1. created' \in PathIds /\ live' \subseteq 1 .. created'
      BY <1>0, <2>1, <2>2, <2>4, LiveIsPath DEF Typed, PathIds
    <3> QED
      BY <1>0, <2>2, <2>4, <2>10, <3>1 DEF Typed
  <2>12. /\ globals'[q] = globals[p] /\ pointers'[q] = pointers[p]
         /\ stores'[q] = stores[p] /\ foreign'[q] = foreign[p]
         /\ \A r \in PathIds : r # q =>
              /\ globals'[r] = globals[r] /\ pointers'[r] = pointers[r]
              /\ stores'[r] = stores[r] /\ foreign'[r] = foreign[r]
    BY <1>0, <2>2, <2>4 DEF Typed
  <2>13. Linked(q)' /\ Ordered(q)'
    <3>1. foreign'[q] \subseteq DOMAIN heap'
      BY <2>3, <2>4, <2>12 DEF Linked
    <3> QED
      BY <1>0, <2>2, <2>3, <2>4, <2>9, <2>10, <2>12, <3>1, Inherited
  <2>14. ASSUME NEW r \in PathIds, r # q
         PROVE  Linked(r)' /\ Ordered(r)'
    <3>1. Linked(r) /\ Ordered(r)
      BY DEF StoreInv
    <3>2. foreign'[r] \subseteq DOMAIN heap'
      BY <2>4, <2>12, <2>14, <3>1 DEF Linked
    <3>3. mem'[r].path \subseteq mem[r].path
      BY <2>9, <2>10, <2>14
    <3> QED
      BY <1>0, <2>4, <2>12, <2>14, <3>1, <3>2, <3>3, Inherited
  <2> QED
    BY <2>11, <2>13, <2>14 DEF StoreInv
<1>5. ASSUME UNCHANGED <<created, mem, consts, globals, heap, pointers, stores, foreign>>,
             live' \subseteq live
      PROVE  StoreInv'
  <2>1. Typed'
    BY <1>0, <1>5 DEF Typed
  <2>2. ASSUME NEW q \in PathIds
        PROVE  Linked(q)' /\ Ordered(q)'
    <3>1. Linked(q) /\ Ordered(q)
      BY DEF StoreInv
    <3>2. foreign'[q] \subseteq DOMAIN heap'
      BY <1>5, <3>1 DEF Linked
    <3> QED
      BY <1>0, <1>5, <3>1, <3>2, Inherited
  <2> QED
    BY <2>1, <2>2 DEF StoreInv
<1>6. ASSUME NEW p \in PathIds, End(p)
      PROVE  StoreInv'
  BY <1>5, <1>6 DEF End
<1>7. CASE Terminated \/ UNCHANGED vars
  BY <1>5, <1>7 DEF Terminated, vars
<1> QED
  BY <1>1, <1>2, <1>3, <1>4, <1>6, <1>7 DEF Next

(***************************************************************************)
(* Every variable has its type, and every pointer a path has made finds    *)
(* its arrays on the heap, after any forks and stores.                     *)
(***************************************************************************)
THEOREM StoreTypeCorrect == Spec => []TypeOK
<1>1. StoreInv => TypeOK
  <2> SUFFICES ASSUME StoreInv PROVE TypeOK
    OBVIOUS
  <2>1. Typed
    BY DEF StoreInv
  <2>2. ASSUME NEW p \in PathIds
        PROVE  /\ Range(pointers[p]) \subseteq Pointers
               /\ Len(pointers[p]) <= MaxPointers
               /\ \A k \in DOMAIN pointers[p] :
                    /\ globals[p][pointers[p][k].type].made
                    /\ ArrayOf(p, pointers[p][k]) \in DOMAIN heap
               /\ Len(stores[p]) <= MaxStores
               /\ \A k \in DOMAIN stores[p] : /\ stores[p][k].pointer \in DOMAIN pointers[p]
                                             /\ stores[p][k].value \in Stored
               /\ foreign[p] \subseteq DOMAIN heap
    <3>1. Linked(p) /\ Ordered(p)
      BY DEF StoreInv
    <3>2. PICK s \in Seq(Stars) : s = pointers[p]
      BY <2>1 DEF Typed
    <3>3. ASSUME NEW k \in DOMAIN s
          PROVE  /\ globals[p][s[k].type].made
                 /\ ArrayOf(p, s[k]) \in DOMAIN heap
                 /\ s[k] \in Pointers
      <4>1. globals[p][s[k].type].made /\ Located(p, s[k])
        BY <3>1, <3>2 DEF Linked, Ordered
      <4>2. s[k] \in Stars
        OBVIOUS
      <4>3. /\ s[k].type \in Types /\ s[k].isSymbolic \in BOOLEAN
            /\ s[k].address.const \in 0 .. MaxConsts /\ s[k].address.num \in Nat
        BY <4>2 DEF Stars, Addresses
      <4>4. ArrayOf(p, s[k]) \in DOMAIN heap
        BY <3>1, <4>1, <4>3 DEF Linked, ArrayOf
      <4>5. s[k].address.num <= MaxPointers + 1
        <5>1. LastAddress(p, s[k].type) <= MaxPointers + 1 /\ LastAddress(p, s[k].type) \in Nat
          <6>1. globals[p][s[k].type] \in Places
            BY <2>1, <4>1, <4>3 DEF Typed, NoArrays
          <6>2. Len(globals[p][s[k].type].areSymbolic) \in Nat
            BY <6>1 DEF Places
          <6>3. /\ Len(globals[p][s[k].type].areSymbolic) <= Len(s)
                /\ Len(s) <= MaxPointers /\ Len(s) \in Nat
            BY <3>1, <3>2, <4>1, <4>3 DEF Linked
          <6> QED
            BY <6>2, <6>3, BoundsAssumption DEF LastAddress
        <5> QED
          BY <4>1, <4>3, <5>1, BoundsAssumption DEF Located
      <4>6. s[k] \in Pointers
        <5>1. s[k].address \in [const : 0 .. MaxConsts, num : 0 .. MaxPointers + 1]
          BY <4>2, <4>3, <4>5, BoundsAssumption DEF Stars, Addresses
        <5> QED
          BY <4>2, <5>1 DEF Stars, Pointers
      <4> QED
        BY <4>1, <4>4, <4>6
    <3>4. Range(s) \subseteq Pointers
      BY <3>3 DEF Range
    <3>5. ASSUME NEW j \in DOMAIN stores[p]
          PROVE  stores[p][j].value \in Stored
      <4>1. PICK t \in Seq(Storings) : t = stores[p]
        BY <2>1 DEF Typed
      <4>2. t[j] \in Storings
        BY <4>1
      <4> QED
        BY <4>1, <4>2 DEF Storings
    <3> QED
      BY <3>1, <3>2, <3>3, <3>4, <3>5 DEF Linked
  <2> QED
    BY <2>1, <2>2 DEF TypeOK, Typed
<1> QED
  BY StoreInit, StoreNext, <1>1, PTL DEF Spec

(***************************************************************************)
(* A symbolic pointer that was made before an object of its type is        *)
(* allocated never points to it: addNewSymbolicStar bounds its address by  *)
(* the pointers there were, and addNewDefaultStar counts on from there.    *)
(***************************************************************************)
THEOREM ParametersStayApart == Spec => []ParametersAreNotLocal
<1>1. StoreInv => ParametersAreNotLocal
  <2> SUFFICES ASSUME StoreInv, NEW p \in live, NEW k \in DOMAIN pointers[p],
                      NEW j \in 1 .. k - 1,
                      pointers[p][j].type = pointers[p][k].type,
                      pointers[p][j].isSymbolic, ~ pointers[p][k].isSymbolic,
                      NEW i \in FullPathCond(mem[p])
               PROVE  Eval(pointers[p][j].address, i) # Eval(pointers[p][k].address, i)
    BY DEF ParametersAreNotLocal, EqCond
  <2>1. Typed /\ p \in PathIds /\ Linked(p) /\ Ordered(p)
    BY LiveIsPath DEF StoreInv
  <2>2. PICK a : a = pointers[p][j]
    OBVIOUS
  <2>3. PICK b : b = pointers[p][k]
    OBVIOUS
  <2>4. i \in mem[p].path /\ i \in Inputs
    BY <2>1, PathIsOfInputs DEF FullPathCond
  <2>5. Located(p, b) /\ Apart(p, a, b)
    BY <2>1, <2>2, <2>3 DEF Ordered
  <2>6. pointers[p] \in Seq(Stars)
    BY <2>1 DEF Typed
  <2>7. k \in Nat /\ j \in DOMAIN pointers[p]
    BY <2>6
  <2>8. a \in Stars /\ b \in Stars
    BY <2>2, <2>3, <2>6, <2>7
  <2>9. Eval(b.address, i) = b.address.num /\ b.address.num \in Nat
    BY <2>3, <2>5, <2>8 DEF Located, Eval, Stars, Addresses
  <2>10. Eval(a.address, i) < b.address.num
    BY <2>2, <2>3, <2>4, <2>5 DEF Apart
  <2>11. Eval(a.address, i) \in Nat
    BY <2>4, <2>8, EvalIsNat DEF Stars
  <2> QED
    BY <2>2, <2>3, <2>9, <2>10, <2>11
<1> QED
  BY StoreInit, StoreNext, <1>1, PTL DEF Spec
-----------------------------------------------------------------------------

\* The array a path has for the pointers of a type and kind.
ArrayFor(p, T, sym) ==
    IF sym THEN globals[p][T].symbolic ELSE globals[p][T].default

(***************************************************************************)
(* An array belongs to one type and kind, on all paths that refer to it.   *)
(***************************************************************************)
Owned ==
    \A p, q \in PathIds : \A T, U \in Types : \A s, t \in BOOLEAN :
        /\ globals[p][T].made /\ globals[q][U].made
        /\ ArrayFor(p, T, s) = ArrayFor(q, U, t)
        => T = U /\ s = t

\* What was put at address x, and what was stored through pointers to it.
PutsAt(puts, x, i) == {n \in DOMAIN puts : Eval(puts[n].address, i) = x}
PointsTo(r, T, sym, x, i) ==
    r.type = T /\ r.isSymbolic = sym /\ Eval(r.address, i) = x
StoresAt(made, st, T, sym, x, i) ==
    {j \in DOMAIN st : PointsTo(made[st[j].pointer], T, sym, x, i)}

SameLast(puts, hits, st, sts) ==
    \/ hits = {} /\ sts = {}
    \/ \E m \in hits, l \in sts : /\ \A n \in hits : m >= n
                                  /\ \A j \in sts : l >= j
                                  /\ puts[m].value = st[l].value

(***************************************************************************)
(* An array that no other path stored to remembers what the path stored    *)
(* through the pointers it belongs to.                                     *)
(***************************************************************************)
Remembers(p, T, sym) ==
    globals[p][T].made /\ ArrayFor(p, T, sym) \notin foreign[p] =>
        \A i \in Inputs, x \in Nat :
            SameLast(heap[ArrayFor(p, T, sym)].puts,
                     PutsAt(heap[ArrayFor(p, T, sym)].puts, x, i),
                     stores[p],
                     StoresAt(pointers[p], stores[p], T, sym, x, i))

LoadsInv ==
    /\ StoreInv
    /\ Owned
    /\ \A p \in live : \A T \in Types, sym \in BOOLEAN : Remembers(p, T, sym)

LEMMA ArrayForFacts ==
    ASSUME Typed, NEW p \in PathIds, Linked(p), NEW T \in Types, NEW sym \in BOOLEAN,
           globals[p][T].made
    PROVE  ArrayFor(p, T, sym) \in DOMAIN heap
BY DEF ArrayFor, Linked

(***************************************************************************)
(* What a path remembers is inherited with its stores and pointers.        *)
(***************************************************************************)
LEMMA StillRemembers ==
    ASSUME NEW p \in PathIds, Linked(p), NEW q \in PathIds,
           NEW T \in Types, NEW sym \in BOOLEAN,
           Remembers(p, T, sym),
           globals'[q][T].made => /\ globals[p][T].made
                                  /\ ArrayFor(q, T, sym)' = ArrayFor(p, T, sym),
           stores'[q] = stores[p],
           \A k \in DOMAIN pointers[p] : pointers'[q][k] = pointers[p][k],
           globals[p][T].made /\ ArrayFor(p, T, sym) \notin foreign'[q] =>
             /\ ArrayFor(p, T, sym) \notin foreign[p]
             /\ heap'[ArrayFor(p, T, sym)] = heap[ArrayFor(p, T, sym)]
    PROVE  Remembers(q, T, sym)'
<1> SUFFICES ASSUME globals'[q][T].made,
                    ArrayFor(q, T, sym)' \notin foreign'[q],
                    NEW i \in Inputs, NEW x \in Nat
             PROVE  SameLast(heap[ArrayFor(q, T, sym)].puts,
                             PutsAt(heap[ArrayFor(q, T, sym)].puts, x, i),
                             stores[q],
                             StoresAt(pointers[q], stores[q], T, sym, x, i))'
  BY DEF Remembers
<1>1. PICK a : a = ArrayFor(p, T, sym) /\ a = ArrayFor(q, T, sym)'
  OBVIOUS
<1>2. PICK puts : puts = heap[a].puts /\ puts = heap'[a].puts
  BY <1>1
<1>3. PICK st : st = stores[p] /\ st = stores'[q]
  OBVIOUS
<1>4. PICK made : made = pointers[p]
  OBVIOUS
<1>5. PICK now : now = pointers'[q]
  OBVIOUS
<1>6. SameLast(puts, PutsAt(puts, x, i), st, StoresAt(made, st, T, sym, x, i))
  BY <1>1, <1>2, <1>3, <1>4 DEF Remembers
<1>7. StoresAt(made, st, T, sym, x, i) = StoresAt(now, st, T, sym, x, i)
  <2>1. \A j \in DOMAIN st : now[st[j].pointer] = made[st[j].pointer]
    BY <1>3, <1>4, <1>5 DEF Linked
  <2> QED
    BY <2>1 DEF StoresAt
<1>8. SameLast(puts, PutsAt(puts, x, i), st, StoresAt(now, st, T, sym, x, i))
  BY <1>6, <1>7
<1> QED
  BY <1>1, <1>2, <1>3, <1>5, <1>8

(***************************************************************************)
(* A new pointer: its arrays are empty if they are new, and nothing was    *)
(* stored through pointers of its type then.                               *)
(***************************************************************************)
LEMMA NewPointerRemembers ==
    ASSUME LoadsInv, NEW p \in live, NEW T \in Types, NEW b \in BOOLEAN, NEW r,
           consts + ConstsNeeded(p, T) <= MaxConsts,
           heap' = NewHeap(p, T),
           globals' = Listed(p, T, b),
           pointers' = [pointers EXCEPT ![p] = Append(@, r)],
           UNCHANGED <<live, stores, foreign>>
    PROVE  /\ Owned'
           /\ \A q \in live' : \A U \in Types, sym \in BOOLEAN : Remembers(q, U, sym)'
<1>1. Typed /\ live \subseteq PathIds /\ \A q \in PathIds : Linked(q)
  BY LiveIsPath DEF LoadsInv, StoreInv
<1>2. /\ \A q \in PathIds : q # p => globals'[q] = globals[q]
      /\ \A U \in Types : U # T => globals'[p][U] = globals[p][U]
      /\ globals[p][T].made =>
           /\ globals'[p][T].symbolic = globals[p][T].symbolic
           /\ globals'[p][T].default = globals[p][T].default
      /\ ~ globals[p][T].made =>
           /\ globals'[p][T].symbolic = Len(heap) + 1
           /\ globals'[p][T].default = Len(heap) + 2
  BY <1>1, ListedFacts
<1>3. /\ \A a \in DOMAIN heap : heap'[a] = heap[a]
      /\ ~ globals[p][T].made =>
           /\ heap'[Len(heap) + 1].puts = <<>>
           /\ heap'[Len(heap) + 2].puts = <<>>
  BY <1>1, NewHeapFacts, NumberFacts, NewArrayFacts
<1>4. DOMAIN heap = 1 .. Len(heap) /\ Len(heap) \in Nat
  BY <1>1 DEF Typed
<1>5. ASSUME NEW q \in PathIds, NEW U \in Types, NEW sym \in BOOLEAN,
             globals'[q][U].made
      PROVE  \/ /\ globals[q][U].made
                /\ ArrayFor(q, U, sym)' = ArrayFor(q, U, sym)
                /\ ArrayFor(q, U, sym) \in DOMAIN heap
             \/ /\ q = p /\ U = T /\ ~ globals[p][T].made
                /\ ArrayFor(q, U, sym)' = IF sym THEN Len(heap) + 1 ELSE Len(heap) + 2
  <2>1. CASE q = p /\ U = T /\ ~ globals[p][T].made
    BY <1>2, <2>1 DEF ArrayFor
  <2>2. CASE q = p /\ U = T /\ globals[p][T].made
    <3>1. ArrayFor(q, U, sym)' = ArrayFor(q, U, sym)
      BY <1>2, <2>2 DEF ArrayFor
    <3> QED
      BY <1>1, <2>2, <3>1, ArrayForFacts
  <2>3. CASE q # p \/ U # T
    <3>1. globals'[q][U] = globals[q][U]
      BY <1>2, <2>3
    <3>2. ArrayFor(q, U, sym)' = ArrayFor(q, U, sym)
      BY <3>1 DEF ArrayFor
    <3> QED
      BY <1>1, <1>5, <3>1, <3>2, ArrayForFacts
  <2> QED
    BY <2>1, <2>2, <2>3
<1>6. Owned'
  <2> SUFFICES ASSUME NEW q1 \in PathIds, NEW q2 \in PathIds,
                      NEW U1 \in Types, NEW U2 \in Types,
                      NEW s1 \in BOOLEAN, NEW s2 \in BOOLEAN,
                      globals'[q1][U1].made, globals'[q2][U2].made,
                      ArrayFor(q1, U1, s1)' = ArrayFor(q2, U2, s2)'
               PROVE  U1 = U2 /\ s1 = s2
    BY DEF Owned
  <2>1. CASE globals[q1][U1].made /\ globals[q2][U2].made
    <3>1. ArrayFor(q1, U1, s1) = ArrayFor(q2, U2, s2)
      BY <1>5, <2>1
    <3> QED
      BY <2>1, <3>1 DEF LoadsInv, Owned
  <2>2. CASE globals[q1][U1].made /\ ~ globals[q2][U2].made
    <3>1. ArrayFor(q1, U1, s1)' \in 1 .. Len(heap)
      BY <1>4, <1>5, <2>2
    <3>2. ArrayFor(q2, U2, s2)' \in {Len(heap) + 1, Len(heap) + 2}
      BY <1>5, <2>2
    <3> QED
      BY <1>4, <3>1, <3>2
  <2>3. CASE ~ globals[q1][U1].made /\ globals[q2][U2].made
    <3>1. ArrayFor(q2, U2, s2)' \in 1 .. Len(heap)
      BY <1>4, <1>5, <2>3
    <3>2. ArrayFor(q1, U1, s1)' \in {Len(heap) + 1, Len(heap) + 2}
      BY <1>5, <2>3
    <3> QED
      BY <1>4, <3>1, <3>2
  <2>4. CASE ~ globals[q1][U1].made /\ ~ globals[q2][U2].made
    <3>1. /\ U1 = T /\ ArrayFor(q1, U1, s1)' = IF s1 THEN Len(heap) + 1 ELSE Len(heap) + 2
          /\ U2 = T /\ ArrayFor(q2, U2, s2)' = IF s2 THEN Len(heap) + 1 ELSE Len(heap) + 2
      BY <1>5, <2>4
    <3> QED
      BY <1>4, <3>1
  <2> QED
    BY <2>1, <2>2, <2>3, <2>4
<1>7. ASSUME NEW q \in live, NEW U \in Types, NEW sym \in BOOLEAN
      PROVE  Remembers(q, U, sym)'
  <2>1. Remembers(q, U, sym) /\ q \in PathIds
    BY <1>1 DEF LoadsInv
  <2>2. \A k \in DOMAIN pointers[q] : pointers'[q][k] = pointers[q][k]
    <3>1. PICK s \in Seq(Stars) : s = pointers[p]
      BY <1>1 DEF Typed
    <3>2. \A k \in DOMAIN s : Append(s, r)[k] = s[k]
      OBVIOUS
    <3>3. pointers'[p] = Append(s, r) /\ \A o \in PathIds : o # p => pointers'[o] = pointers[o]
      BY <1>1, <3>1 DEF Typed
    <3> QED
      BY <2>1, <3>1, <3>2, <3>3
  <2>3. CASE globals'[q][U].made => globals[q][U].made
    <3>1. globals'[q][U].made => /\ globals[q][U].made
                                 /\ ArrayFor(q, U, sym)' = ArrayFor(q, U, sym)
      BY <1>5, <2>1, <2>3
    <3>2. globals[q][U].made => heap'[ArrayFor(q, U, sym)] = heap[ArrayFor(q, U, sym)]
      BY <1>1, <1>3, <2>1, ArrayForFacts
    <3> QED
      BY <1>1, <2>1, <2>2, <3>1, <3>2, StillRemembers
  <2>4. CASE globals'[q][U].made /\ ~ globals[q][U].made
    <3>1. /\ q = p /\ U = T /\ ~ globals[p][T].made
          /\ ArrayFor(q, U, sym)' \in {Len(heap) + 1, Len(heap) + 2}
      BY <1>5, <2>1, <2>4
    <3>2. PICK puts : puts = heap'[ArrayFor(q, U, sym)'].puts
      OBVIOUS
    <3>3. puts = <<>>
      BY <1>3, <3>1, <3>2
    <3>4. PICK st : st = stores[q] /\ st = stores'[q]
      OBVIOUS
    <3>5. PICK made : made = pointers[q]
      OBVIOUS
    <3>6. PICK now : now = pointers'[q]
      OBVIOUS
    <3>7. \A j \in DOMAIN st : now[st[j].pointer].type # U
      <4>1. \A j \in DOMAIN st : /\ st[j].pointer \in DOMAIN made
                                 /\ globals[q][made[st[j].pointer].type].made
        BY <1>1, <2>1, <3>4, <3>5 DEF Linked
      <4> QED
        BY <2>2, <2>4, <3>5, <3>6, <4>1
    <3>8. ASSUME NEW i \in Inputs, NEW x \in Nat
          PROVE  SameLast(puts, PutsAt(puts, x, i), st, StoresAt(now, st, U, sym, x, i))
      <4>1. PutsAt(puts, x, i) = {}
        BY <3>3 DEF PutsAt
      <4>2. StoresAt(now, st, U, sym, x, i) = {}
        BY <3>7 DEF StoresAt, PointsTo
      <4> QED
        BY <4>1, <4>2 DEF SameLast
    <3> QED
      BY <3>2, <3>4, <3>6, <3>8 DEF Remembers
  <2> QED
    BY <2>3, <2>4
<1> QED
  BY <1>6, <1>7

(***************************************************************************)
(* A value is put to an array and stored through a pointer at once: both   *)
(* are the last ones at the address, and those at others stay.             *)
(***************************************************************************)
LEMMA PutKeepsLast ==
    ASSUME NEW R, NEW puts \in Seq(R), NEW z \in R,
           NEW S, NEW st \in Seq(S), NEW y \in S,
           NEW made, NEW T, NEW sym, NEW x, NEW i,
           z.value = y.value,
           made[y.pointer].type = T,
           made[y.pointer].isSymbolic = sym,
           made[y.pointer].address = z.address,
           SameLast(puts, PutsAt(puts, x, i), st, StoresAt(made, st, T, sym, x, i))
    PROVE  SameLast(Append(puts, z), PutsAt(Append(puts, z), x, i), Append(st, y),
                    StoresAt(made, Append(st, y), T, sym, x, i))
<1>1. PICK puts1 : puts1 = Append(puts, z)
  OBVIOUS
<1>2. PICK st1 : st1 = Append(st, y)
  OBVIOUS
<1>3. PICK n \in Nat : n = Len(puts)
  OBVIOUS
<1>4. PICK l \in Nat : l = Len(st)
  OBVIOUS
<1>5. /\ DOMAIN puts = 1 .. n /\ DOMAIN puts1 = 1 .. n + 1
      /\ \A k \in 1 .. n : puts1[k] = puts[k]
      /\ puts1[n + 1] = z
  BY <1>1, <1>3
<1>6. /\ DOMAIN st = 1 .. l /\ DOMAIN st1 = 1 .. l + 1
      /\ \A k \in 1 .. l : st1[k] = st[k]
      /\ st1[l + 1] = y
  BY <1>2, <1>4
<1> DEFINE h == PutsAt(puts, x, i)
           h1 == PutsAt(puts1, x, i)
           s == StoresAt(made, st, T, sym, x, i)
           s1 == StoresAt(made, st1, T, sym, x, i)
<1>7. h \subseteq 1 .. n /\ s \subseteq 1 .. l
  BY <1>5, <1>6 DEF PutsAt, StoresAt
<1>8. /\ \A k \in 1 .. n : k \in h1 <=> k \in h
      /\ \A k \in 1 .. l : k \in s1 <=> k \in s
      /\ h1 \subseteq 1 .. n + 1 /\ s1 \subseteq 1 .. l + 1
  <2>1. 1 .. n \subseteq 1 .. n + 1 /\ 1 .. l \subseteq 1 .. l + 1
    OBVIOUS
  <2> QED
    BY <1>5, <1>6, <2>1 DEF PutsAt, StoresAt
<1>9. n + 1 \in h1 <=> l + 1 \in s1
  BY <1>5, <1>6 DEF PutsAt, StoresAt, PointsTo
<1>10. SameLast(puts, h, st, s)
  OBVIOUS
<1> HIDE DEF h, h1, s, s1
<1>11. ASSUME n + 1 \in h1
      PROVE  SameLast(puts1, h1, st1, s1)
  <2>1. n + 1 \in h1 /\ l + 1 \in s1
    BY <1>9, <1>11
  <2>2. (\A k \in h1 : n + 1 >= k) /\ \A k \in s1 : l + 1 >= k
    BY <1>8
  <2> QED
    BY <1>5, <1>6, <2>1, <2>2 DEF SameLast
<1>12. ASSUME n + 1 \notin h1
      PROVE  SameLast(puts1, h1, st1, s1)
  <2>1. h1 = h
    <3>1. \A k \in 1 .. n + 1 : k \in 1 .. n \/ k = n + 1
      OBVIOUS
    <3> QED
      BY <1>7, <1>8, <1>12, <3>1
  <2>2. s1 = s
    <3>1. \A k \in 1 .. l + 1 : k \in 1 .. l \/ k = l + 1
      OBVIOUS
    <3> QED
      BY <1>7, <1>8, <1>9, <1>12, <3>1
  <2>3. CASE h = {} /\ s = {}
    BY <2>1, <2>2, <2>3 DEF SameLast
  <2>4. CASE ~ (h = {} /\ s = {})
    <3>1. PICK m \in h, j \in s : /\ \A k \in h : m >= k
                                  /\ \A k \in s : j >= k
                                  /\ puts[m].value = st[j].value
      BY <1>10, <2>4 DEF SameLast
    <3>2. puts1[m].value = st1[j].value
      BY <1>7, <1>5, <1>6, <3>1
    <3> QED
      BY <2>1, <2>2, <3>1, <3>2 DEF SameLast
  <2> QED
    BY <2>3, <2>4
<1> QED
  BY <1>11, <1>12, <1>1, <1>2 DEF h1, s1

LEMMA PutStarRemembers ==
    ASSUME LoadsInv, NEW p \in PathIds, NEW k \in DOMAIN pointers[p], NEW v \in Stored,
           PutStar(p, k, v)
    PROVE  /\ Owned'
           /\ \A q \in live' : \A U \in Types, sym \in BOOLEAN : Remembers(q, U, sym)'
<1>1. Typed /\ live \subseteq PathIds /\ \A q \in PathIds : Linked(q)
  BY LiveIsPath DEF LoadsInv, StoreInv
<1>2. /\ p \in live
      /\ UNCHANGED <<live, globals, pointers>>
      /\ stores' = [stores EXCEPT ![p] = Append(@, [pointer |-> k, value |-> v])]
  BY DEF PutStar
<1>3. PICK r : r = pointers[p][k]
  OBVIOUS
<1>4. /\ r \in Stars /\ globals[p][r.type].made
      /\ r.type \in Types /\ r.isSymbolic \in BOOLEAN /\ r.address \in Addresses
  <2>1. PICK s \in Seq(Stars) : s = pointers[p]
    BY <1>1 DEF Typed
  <2>2. s[k] \in Stars
    BY <2>1
  <2>3. globals[p][r.type].made
    BY <1>1, <1>3 DEF Linked
  <2> QED
    BY <1>3, <2>1, <2>2, <2>3 DEF Stars
<1>5. PICK a : a = ArrayOf(p, r)
  OBVIOUS
<1>6. a = ArrayFor(p, r.type, r.isSymbolic) /\ a \in DOMAIN heap
  <2>1. a = ArrayFor(p, r.type, r.isSymbolic)
    BY <1>5 DEF ArrayOf, ArrayFor
  <2> QED
    BY <1>1, <1>4, <2>1, ArrayForFacts
<1>7. /\ heap' = [heap EXCEPT ![a] = Put(heap[a], r.address, v)]
      /\ foreign' = [q \in PathIds |->
                       IF q # p /\ q \in live /\ globals[q][r.type].made
                               /\ ArrayOf(q, r) = a
                       THEN foreign[q] \cup {a} ELSE foreign[q]]
  BY <1>3, <1>5 DEF PutStar
<1>8. /\ heap'[a] = Put(heap[a], r.address, v)
      /\ \A b \in DOMAIN heap : b # a => heap'[b] = heap[b]
  BY <1>6, <1>7
<1>9. \A q, T, s : ArrayFor(q, T, s)' = ArrayFor(q, T, s)
  BY <1>2 DEF ArrayFor
<1>10. Owned'
  BY <1>2, <1>9 DEF LoadsInv, Owned
<1>11. \A U \in Types, sym \in BOOLEAN, q \in PathIds :
          /\ globals[q][U].made
          /\ ArrayFor(q, U, sym) = a
          => U = r.type /\ sym = r.isSymbolic
  BY <1>4, <1>6 DEF LoadsInv, Owned
<1>12. ASSUME NEW q \in live, q # p, NEW U \in Types, NEW sym \in BOOLEAN
       PROVE  Remembers(q, U, sym)'
  <2>1. Remembers(q, U, sym) /\ q \in PathIds
    BY <1>1 DEF LoadsInv
  <2>2. stores'[q] = stores[q]
    BY <1>1, <1>2, <1>12, <2>1 DEF Typed
  <2>3. foreign[q] \subseteq foreign'[q]
    BY <1>7, <2>1
  <2>4. ASSUME globals[q][U].made, ArrayFor(q, U, sym) \notin foreign'[q]
        PROVE  ArrayFor(q, U, sym) # a
    <3>1. SUFFICES ASSUME ArrayFor(q, U, sym) = a PROVE FALSE
      OBVIOUS
    <3>2. U = r.type /\ sym = r.isSymbolic
      BY <1>11, <2>1, <2>4, <3>1
    <3>3. ArrayOf(q, r) = a
      BY <3>1, <3>2 DEF ArrayOf, ArrayFor
    <3> QED
      BY <1>7, <1>12, <2>1, <2>4, <3>1, <3>2, <3>3
  <2>5. globals[q][U].made => ArrayFor(q, U, sym) \in DOMAIN heap
    BY <1>1, <2>1, ArrayForFacts
  <2>6. globals[q][U].made /\ ArrayFor(q, U, sym) \notin foreign'[q] =>
          /\ ArrayFor(q, U, sym) \notin foreign[q]
          /\ heap'[ArrayFor(q, U, sym)] = heap[ArrayFor(q, U, sym)]
    BY <1>8, <2>3, <2>4, <2>5
  <2> QED
    BY <1>1, <1>2, <1>9, <2>1, <2>2, <2>6, StillRemembers
<1>13. ASSUME NEW U \in Types, NEW sym \in BOOLEAN
       PROVE  Remembers(p, U, sym)'
  <2>1. Remembers(p, U, sym)
    BY <1>2 DEF LoadsInv
  <2>2. foreign'[p] = foreign[p]
    BY <1>7
  <2>3. PICK st \in Seq(Storings) : st = stores[p]
    BY <1>1 DEF Typed
  <2>4. PICK y : y = [pointer |-> k, value |-> v]
    OBVIOUS
  <2>5. PICK st1 : st1 = Append(st, y)
    OBVIOUS
  <2>6. PICK l \in Nat : l = Len(st)
    OBVIOUS
  <2>7. /\ DOMAIN st = 1 .. l /\ DOMAIN st1 = 1 .. l + 1
        /\ \A j \in 1 .. l : st1[j] = st[j]
        /\ st1[l + 1] = y
    BY <2>5, <2>6
  <2>8. stores'[p] = st1
    BY <1>1, <1>2, <2>3, <2>4, <2>5 DEF Typed
  <2>9. PICK made : made = pointers[p] /\ made = pointers'[p]
    BY <1>2
  <2> SUFFICES ASSUME globals[p][U].made, ArrayFor(p, U, sym) \notin foreign[p],
                      NEW i \in Inputs, NEW x \in Nat
               PROVE  SameLast(heap'[ArrayFor(p, U, sym)].puts,
                               PutsAt(heap'[ArrayFor(p, U, sym)].puts, x, i),
                               st1, StoresAt(made, st1, U, sym, x, i))
    <3>1. /\ globals'[p][U] = globals[p][U] /\ pointers'[p] = made
          /\ ArrayFor(p, U, sym)' = ArrayFor(p, U, sym)
      BY <1>2, <1>9, <2>9
    <3> QED
      BY <2>2, <2>8, <3>1 DEF Remembers
  <2>10. SameLast(heap[ArrayFor(p, U, sym)].puts,
                  PutsAt(heap[ArrayFor(p, U, sym)].puts, x, i),
                  st, StoresAt(made, st, U, sym, x, i))
    BY <2>1, <2>3, <2>9 DEF Remembers
  <2>11. made[y.pointer] = r /\ y.value = v
    BY <1>3, <2>4, <2>9
  <2>12. k \in Nat
    <3>1. PICK t \in Seq(Stars) : t = pointers[p]
      BY <1>1 DEF Typed
    <3> QED
      BY <3>1
  <2>13. CASE ArrayFor(p, U, sym) = a
    <3>1. U = r.type /\ sym = r.isSymbolic
      BY <1>11, <2>13
    <3>2. PICK array \in Arrays : array = heap[a]
      <4>1. heap \in Seq(Arrays)
        BY <1>1 DEF Typed
      <4>2. heap[a] \in Arrays
        BY <1>6, <4>1
      <4> QED
        BY <4>2
    <3> DEFINE Puts == [address : Addresses, value : Stored]
    <3>3. PICK puts : puts = array.puts
      OBVIOUS
    <3>4. PICK z : z = [address |-> r.address, value |-> v]
      OBVIOUS
    <3>5. puts \in Seq(Puts) /\ z \in Puts /\ z.address = r.address /\ z.value = v
      BY <1>4, <3>2, <3>3, <3>4 DEF Arrays
    <3> HIDE DEF Puts
    <3>6. PICK puts1 : puts1 = Append(puts, z)
      OBVIOUS
    <3>9. heap'[a].puts = puts1
      BY <1>4, <1>8, <3>2, <3>3, <3>4, <3>6, PutFacts
    <3>10. SameLast(puts, PutsAt(puts, x, i), st, StoresAt(made, st, U, sym, x, i))
      BY <2>10, <2>13, <3>2, <3>3
    <3>11. SameLast(puts1, PutsAt(puts1, x, i), st1, StoresAt(made, st1, U, sym, x, i))
      <4>1. /\ z.value = y.value
            /\ made[y.pointer].type = U
            /\ made[y.pointer].isSymbolic = sym
            /\ made[y.pointer].address = z.address
        BY <2>11, <3>1, <3>5
      <4>2. y \in Storings
        BY <2>4, <2>12 DEF Storings
      <4>3. SameLast(Append(puts, z), PutsAt(Append(puts, z), x, i), Append(st, y),
                     StoresAt(made, Append(st, y), U, sym, x, i))
        BY <3>5, <3>10, <4>1, <4>2, PutKeepsLast
      <4> QED
        BY <2>5, <3>6, <4>3
    <3> QED
      BY <2>13, <3>9, <3>11
  <2>14. CASE ArrayFor(p, U, sym) # a
    <3>1. heap'[ArrayFor(p, U, sym)] = heap[ArrayFor(p, U, sym)]
      BY <1>1, <1>8, <2>14, ArrayForFacts
    <3>2. ~ (U = r.type /\ sym = r.isSymbolic)
      BY <1>6, <2>14
    <3>3. StoresAt(made, st1, U, sym, x, i) = StoresAt(made, st, U, sym, x, i)
      <4>1. \A j \in 1 .. l + 1 : j \in 1 .. l \/ j = l + 1
        OBVIOUS
      <4>2. 1 .. l \subseteq 1 .. l + 1
        OBVIOUS
      <4>3. l + 1 \notin StoresAt(made, st1, U, sym, x, i)
        BY <2>7, <2>11, <3>2 DEF StoresAt, PointsTo
      <4>4. \A j \in 1 .. l : j \in StoresAt(made, st1, U, sym, x, i)
                                <=> j \in StoresAt(made, st, U, sym, x, i)
        BY <2>7, <4>2 DEF StoresAt
      <4>5. /\ StoresAt(made, st1, U, sym, x, i) \subseteq 1 .. l + 1
            /\ StoresAt(made, st, U, sym, x, i) \subseteq 1 .. l
        BY <2>7 DEF StoresAt
      <4> QED
        BY <4>1, <4>2, <4>3, <4>4, <4>5
    <3>4. StoresAt(made, st, U, sym, x, i) \subseteq 1 .. l
      BY <2>7 DEF StoresAt
    <3>5. \A j \in 1 .. l : st1[j].value = st[j].value
      BY <2>7
    <3> QED
      BY <2>10, <3>1, <3>3, <3>4, <3>5 DEF SameLast
  <2> QED
    BY <2>13, <2>14
<1> QED
  BY <1>2, <1>10, <1>12, <1>13

LEMMA ForkRemembers ==
    ASSUME LoadsInv, NEW p \in PathIds, NEW cond, Fork(p, cond)
    PROVE  /\ Owned'
           /\ \A q \in live' : \A U \in Types, sym \in BOOLEAN : Remembers(q, U, sym)'
<1>1. Typed /\ live \subseteq PathIds /\ \A q \in PathIds : Linked(q)
  BY LiveIsPath DEF LoadsInv, StoreInv
<1>2. PICK q : q = created + 1
  OBVIOUS
<1>3. q \in PathIds /\ p \in live
  BY <1>1, <1>2, LiveIsPath DEF Fork, PathIds
<1>4. /\ live' \subseteq live \cup {q}
      /\ globals' = [globals EXCEPT ![q] = globals[p]]
      /\ pointers' = [pointers EXCEPT ![q] = pointers[p]]
      /\ stores' = [stores EXCEPT ![q] = stores[p]]
      /\ foreign' = [foreign EXCEPT ![q] = foreign[p]]
      /\ heap' = heap
  BY <1>2 DEF Fork
<1>5. ASSUME NEW o \in PathIds
      PROVE  LET from == IF o = q THEN p ELSE o
             IN  /\ globals'[o] = globals[from] /\ pointers'[o] = pointers[from]
                 /\ stores'[o] = stores[from] /\ foreign'[o] = foreign[from]
                 /\ \A T, s : ArrayFor(o, T, s)' = ArrayFor(from, T, s)
  <2>1. LET from == IF o = q THEN p ELSE o
        IN  /\ globals'[o] = globals[from] /\ pointers'[o] = pointers[from]
            /\ stores'[o] = stores[from] /\ foreign'[o] = foreign[from]
    BY <1>1, <1>4 DEF Typed
  <2> QED
    BY <2>1 DEF ArrayFor
<1>6. Owned'
  <2> SUFFICES ASSUME NEW q1 \in PathIds, NEW q2 \in PathIds,
                      NEW U1 \in Types, NEW U2 \in Types,
                      NEW s1 \in BOOLEAN, NEW s2 \in BOOLEAN,
                      globals'[q1][U1].made, globals'[q2][U2].made,
                      ArrayFor(q1, U1, s1)' = ArrayFor(q2, U2, s2)'
               PROVE  U1 = U2 /\ s1 = s2
    BY DEF Owned
  <2>1. PICK f1 \in PathIds : /\ globals[f1][U1].made
                              /\ ArrayFor(q1, U1, s1)' = ArrayFor(f1, U1, s1)
    BY <1>5
  <2>2. PICK f2 \in PathIds : /\ globals[f2][U2].made
                              /\ ArrayFor(q2, U2, s2)' = ArrayFor(f2, U2, s2)
    BY <1>5
  <2>3. ArrayFor(f1, U1, s1) = ArrayFor(f2, U2, s2)
    BY <2>1, <2>2
  <2>4. Owned
    BY DEF LoadsInv
  <2> QED
    BY <2>1, <2>2, <2>3, <2>4 DEF Owned
<1>7. ASSUME NEW o \in live', NEW U \in Types, NEW sym \in BOOLEAN
      PROVE  Remembers(o, U, sym)'
  <2>1. PICK from : from = IF o = q THEN p ELSE o
    OBVIOUS
  <2>2. from \in live /\ from \in PathIds /\ o \in PathIds
    BY <1>1, <1>3, <1>4, <2>1
  <2>3. Remembers(from, U, sym)
    BY <2>2 DEF LoadsInv
  <2>4. /\ globals'[o] = globals[from] /\ pointers'[o] = pointers[from]
        /\ stores'[o] = stores[from] /\ foreign'[o] = foreign[from]
        /\ ArrayFor(o, U, sym)' = ArrayFor(from, U, sym)
    BY <1>5, <2>1, <2>2
  <2> QED
    BY <1>1, <1>4, <2>2, <2>3, <2>4, StillRemembers
<1> QED
  BY <1>6, <1>7

LEMMA LoadsInit == Init => LoadsInv
<1> SUFFICES ASSUME Init PROVE LoadsInv
  OBVIOUS
<1>1. \A p \in PathIds, T \in Types : ~ globals[p][T].made
  BY DEF Init, NoArrays
<1>2. live \subseteq PathIds
  BY BoundsAssumption DEF Init, PathIds
<1>3. Owned
  BY <1>1 DEF Owned
<1>4. \A p \in live : \A T \in Types, sym \in BOOLEAN : Remembers(p, T, sym)
  BY <1>1, <1>2 DEF Remembers
<1> QED
  BY <1>3, <1>4, StoreInit DEF LoadsInv

LEMMA LoadsNext == LoadsInv /\ [Next]_vars => LoadsInv'
<1> SUFFICES ASSUME LoadsInv, [Next]_vars
             PROVE  /\ Owned'
                    /\ \A q \in live' : \A U \in Types, sym \in BOOLEAN : Remembers(q, U, sym)'
  BY StoreNext DEF LoadsInv
<1>0. Typed /\ live \subseteq PathIds /\ \A q \in PathIds : Linked(q)
  BY LiveIsPath DEF LoadsInv, StoreInv
<1>1. ASSUME NEW p \in PathIds, NEW T \in Types, AddNewSymbolicStar(p, T)
      PROVE  /\ Owned'
             /\ \A q \in live' : \A U \in Types, sym \in BOOLEAN : Remembers(q, U, sym)'
  <2>1. PICK r : r = Pointer(T, Const(consts + ConstsNeeded(p, T) + 1), TRUE)
    OBVIOUS
  <2>2. /\ p \in live
        /\ heap' = NewHeap(p, T)
        /\ globals' = Listed(p, T, TRUE)
        /\ pointers' = [pointers EXCEPT ![p] = Append(@, r)]
        /\ UNCHANGED <<live, stores, foreign>>
    BY <1>1, <2>1 DEF AddNewSymbolicStar
  <2>3. consts + ConstsNeeded(p, T) <= MaxConsts
    <3>1. consts + ConstsNeeded(p, T) + 1 <= MaxConsts
      BY <1>1 DEF AddNewSymbolicStar
    <3>2. consts \in Nat /\ ConstsNeeded(p, T) \in Nat
      BY <1>0, BoundsAssumption DEF Typed, ConstsNeeded
    <3> QED
      BY <3>1, <3>2, BoundsAssumption
  <2> QED
    BY <2>2, <2>3, NewPointerRemembers
<1>2. ASSUME NEW p \in PathIds, NEW T \in Types, AddNewDefaultStar(p, T)
      PROVE  /\ Owned'
             /\ \A q \in live' : \A U \in Types, sym \in BOOLEAN : Remembers(q, U, sym)'
  <2>1. PICK r : r = Pointer(T, Number(NewSize(p, T)), FALSE)
    OBVIOUS
  <2>2. /\ p \in live
        /\ consts + ConstsNeeded(p, T) <= MaxConsts
        /\ heap' = NewHeap(p, T)
        /\ globals' = Listed(p, T, FALSE)
        /\ pointers' = [pointers EXCEPT ![p] = Append(@, r)]
        /\ UNCHANGED <<live, stores, foreign>>
    BY <1>2, <2>1 DEF AddNewDefaultStar
  <2> QED
    BY <2>2, NewPointerRemembers
<1>3. ASSUME NEW p \in PathIds, NEW k \in DOMAIN pointers[p], NEW v \in Stored,
             PutStar(p, k, v)
      PROVE  /\ Owned'
             /\ \A q \in live' : \A U \in Types, sym \in BOOLEAN : Remembers(q, U, sym)'
  BY <1>3, PutStarRemembers
<1>4. ASSUME NEW p \in PathIds, NEW cond \in BranchConds(p), Fork(p, cond)
      PROVE  /\ Owned'
             /\ \A q \in live' : \A U \in Types, sym \in BOOLEAN : Remembers(q, U, sym)'
  BY <1>4, ForkRemembers
<1>5. ASSUME UNCHANGED <<globals, heap, pointers, stores, foreign>>, live' \subseteq live
      PROVE  /\ Owned'
             /\ \A q \in live' : \A U \in Types, sym \in BOOLEAN : Remembers(q, U, sym)'
  <2>1. \A q, T, s : ArrayFor(q, T, s)' = ArrayFor(q, T, s)
    BY <1>5 DEF ArrayFor
  <2>2. Owned'
    BY <1>5, <2>1 DEF LoadsInv, Owned
  <2>3. ASSUME NEW q \in live', NEW U \in Types, NEW sym \in BOOLEAN
        PROVE  Remembers(q, U, sym)'
    <3>1. q \in live /\ q \in PathIds /\ Remembers(q, U, sym)
      BY <1>0, <1>5 DEF LoadsInv
    <3> QED
      BY <1>0, <1>5, <2>1, <3>1, StillRemembers
  <2> QED
    BY <2>2, <2>3
<1>6. ASSUME NEW p \in PathIds, End(p)
      PROVE  /\ Owned'
             /\ \A q \in live' : \A U \in Types, sym \in BOOLEAN : Remembers(q, U, sym)'
  BY <1>5, <1>6 DEF End
<1>7. CASE Terminated \/ UNCHANGED vars
  BY <1>5, <1>7 DEF Terminated, vars
<1> QED
  BY <1>1, <1>2, <1>3, <1>4, <1>6, <1>7 DEF Next

(***************************************************************************)
(* Two pointers of a path are to one object if and only if they are of one *)
(* type and kind and have one address.                                     *)
(***************************************************************************)
LEMMA SameObject ==
    ASSUME Typed, NEW p \in PathIds, Ordered(p),
           NEW n \in DOMAIN pointers[p], NEW k \in DOMAIN pointers[p],
           NEW b, b = pointers[p][n], NEW r, r = pointers[p][k], NEW i \in Inputs
    PROVE  Object(p, n, i) = Object(p, k, i) <=>
             /\ b.type = r.type /\ b.isSymbolic = r.isSymbolic
             /\ Eval(b.address, i) = Eval(r.address, i)
<1>1. PICK made \in Seq(Stars) : made = pointers[p]
  BY DEF Typed
<1>2. b \in Stars /\ r \in Stars
  BY <1>1
<1>3. b.isSymbolic \in BOOLEAN /\ r.isSymbolic \in BOOLEAN
  BY <1>2 DEF Stars
<1>4. CASE b.isSymbolic /\ r.isSymbolic
  <2>1. /\ Object(p, n, i) = [type |-> b.type, input |-> Eval(b.address, i)]
        /\ Object(p, k, i) = [type |-> r.type, input |-> Eval(r.address, i)]
    BY <1>4 DEF Object
  <2> QED
    BY <1>3, <1>4, <2>1
<1>5. CASE b.isSymbolic /\ ~ r.isSymbolic
  <2>1. /\ Object(p, n, i) = [type |-> b.type, input |-> Eval(b.address, i)]
        /\ Object(p, k, i) = [type |-> r.type, allocated |-> k]
    BY <1>5 DEF Object
  <2>2. /\ DOMAIN Object(p, n, i) = {"type", "input"}
        /\ DOMAIN Object(p, k, i) = {"type", "allocated"}
    BY <2>1
  <2>3. Object(p, n, i) # Object(p, k, i)
    <3>1. "input" \in {"type", "input"} /\ "input" \notin {"type", "allocated"}
      OBVIOUS
    <3>2. DOMAIN Object(p, n, i) # DOMAIN Object(p, k, i)
      BY <2>2, <3>1
    <3> QED
      BY <3>2
  <2> QED
    BY <1>5, <2>3
<1>6. CASE ~ b.isSymbolic /\ r.isSymbolic
  <2>1. /\ Object(p, n, i) = [type |-> b.type, allocated |-> n]
        /\ Object(p, k, i) = [type |-> r.type, input |-> Eval(r.address, i)]
    BY <1>6 DEF Object
  <2>2. /\ DOMAIN Object(p, n, i) = {"type", "allocated"}
        /\ DOMAIN Object(p, k, i) = {"type", "input"}
    BY <2>1
  <2>3. Object(p, n, i) # Object(p, k, i)
    <3>1. "input" \in {"type", "input"} /\ "input" \notin {"type", "allocated"}
      OBVIOUS
    <3>2. DOMAIN Object(p, n, i) # DOMAIN Object(p, k, i)
      BY <2>2, <3>1
    <3> QED
      BY <3>2
  <2> QED
    BY <1>6, <2>3
<1>7. CASE ~ b.isSymbolic /\ ~ r.isSymbolic
  <2>1. /\ Object(p, n, i) = [type |-> b.type, allocated |-> n]
        /\ Object(p, k, i) = [type |-> r.type, allocated |-> k]
    BY <1>7 DEF Object
  <2>2. /\ Located(p, b) /\ Located(p, r)
        /\ n < k => Apart(p, b, r)
        /\ k < n => Apart(p, r, b)
    <3>1. n \in Nat /\ k \in Nat /\ n >= 1 /\ k >= 1
      BY <1>1
    <3> QED
      BY <3>1 DEF Ordered
  <2>3. /\ b.address.num \in Nat /\ r.address.num \in Nat
        /\ Eval(b.address, i) = b.address.num
        /\ Eval(r.address, i) = r.address.num
    BY <1>2, <1>7, <2>2 DEF Located, Eval, Stars, Addresses
  <2>4. b.type = r.type /\ b.address.num = r.address.num => n = k
    <3>1. n \in Nat /\ k \in Nat
      BY <1>1
    <3>2. b.type = r.type /\ n < k => b.address.num < r.address.num
      BY <1>7, <2>2 DEF Apart
    <3>3. b.type = r.type /\ k < n => r.address.num < b.address.num
      BY <1>7, <2>2 DEF Apart
    <3> QED
      BY <2>3, <3>1, <3>2, <3>3
  <2>5. Object(p, n, i) = Object(p, k, i) <=> b.type = r.type /\ n = k
    BY <2>1
  <2> QED
    BY <1>3, <1>7, <2>3, <2>4, <2>5
<1> QED
  BY <1>3, <1>4, <1>5, <1>6, <1>7

LEMMA MaxIs ==
    ASSUME NEW S, NEW n \in Nat, S \subseteq 1 .. n, NEW m \in S, \A k \in S : m >= k
    PROVE  Max(S) = m
<1>1. Max(S) \in S /\ \A k \in S : Max(S) >= k
  BY DEF Max
<1>2. Max(S) \in 1 .. n /\ m \in 1 .. n
  BY <1>1
<1>3. Max(S) >= m /\ m >= Max(S)
  BY <1>1
<1> QED
  BY <1>2, <1>3

(***************************************************************************)
(* A path reads through each of its pointers what the function would read  *)
(* on each input of the path, as long as no other path has stored to an    *)
(* array that both refer to: the two arrays of a type, the numbers of      *)
(* allocated objects, and the order of what was put, are enough to tell    *)
(* the objects of the function apart.                                      *)
(***************************************************************************)
THEOREM LoadsAreRight == Spec => []LoadsRight
<1>1. LoadsInv => LoadsRight
  <2> SUFFICES ASSUME LoadsInv, NEW p \in live, NEW k \in DOMAIN pointers[p],
                      ArrayOf(p, pointers[p][k]) \notin foreign[p],
                      NEW i \in FullPathCond(mem[p])
               PROVE  GetStar(p, pointers[p][k])[i] = GoValue(p, k, i)
    BY DEF LoadsRight, ReadsRight
  <2>1. Typed /\ p \in PathIds /\ Linked(p) /\ Ordered(p)
    BY LiveIsPath DEF LoadsInv, StoreInv
  <2>2. i \in Inputs
    BY <2>1, PathIsOfInputs DEF FullPathCond
  <2>3. PICK made \in Seq(Stars) : made = pointers[p]
    BY <2>1 DEF Typed
  <2>4. PICK st \in Seq(Storings) : st = stores[p]
    BY <2>1 DEF Typed
  <2>5. PICK r : r = made[k]
    OBVIOUS
  <2>6. /\ r \in Stars /\ r.type \in Types /\ r.isSymbolic \in BOOLEAN
        /\ r.address \in Addresses /\ globals[p][r.type].made
    <3>1. k \in DOMAIN made
      BY <2>3
    <3>2. r \in Stars
      BY <2>5, <3>1
    <3>3. globals[p][r.type].made
      BY <2>1, <2>3, <2>5, <3>1 DEF Linked
    <3> QED
      BY <3>2, <3>3 DEF Stars
  <2>7. PICK a : a = ArrayOf(p, r)
    OBVIOUS
  <2>8. a = ArrayFor(p, r.type, r.isSymbolic) /\ a \notin foreign[p] /\ a \in DOMAIN heap
    <3>1. a = ArrayFor(p, r.type, r.isSymbolic)
      BY <2>7 DEF ArrayOf, ArrayFor
    <3> QED
      BY <2>1, <2>3, <2>5, <2>6, <2>7, <3>1, ArrayForFacts
  <2>9. PICK puts : puts = heap[a].puts
    OBVIOUS
  <2>10. PICK x \in Nat : x = Eval(r.address, i)
    BY <2>2, <2>6, EvalIsNat
  <2>11. PICK h : h = PutsAt(puts, x, i)
    OBVIOUS
  <2>12. PICK s : s = StoresAt(made, st, r.type, r.isSymbolic, x, i)
    OBVIOUS
  <2>13. SameLast(puts, h, st, s)
    <3>1. Remembers(p, r.type, r.isSymbolic)
      BY <2>6 DEF LoadsInv
    <3> QED
      BY <2>2, <2>3, <2>4, <2>6, <2>8, <2>9, <2>10, <2>11, <2>12, <3>1 DEF Remembers
  <2>14. GetStar(p, r)[i] = IF h = {} THEN Eval(heap[a].first, i) ELSE puts[Max(h)].value
    BY <2>2, <2>7, <2>9, <2>10, <2>11 DEF GetStar, Select, PutsAt
  <2>15. s = {j \in DOMAIN st : Object(p, st[j].pointer, i) = Object(p, k, i)}
    <3>1. ASSUME NEW j \in DOMAIN st
          PROVE  PointsTo(made[st[j].pointer], r.type, r.isSymbolic, x, i)
                   <=> Object(p, st[j].pointer, i) = Object(p, k, i)
      <4>1. PICK n : n = st[j].pointer
        OBVIOUS
      <4>2. n \in DOMAIN made
        BY <2>1, <2>3, <2>4, <4>1 DEF Linked
      <4>3. PICK b \in Stars : b = made[n]
        BY <4>2
      <4> QED
        BY <2>1, <2>2, <2>3, <2>5, <2>10, <4>1, <4>2, <4>3, SameObject DEF PointsTo
    <3> QED
      BY <2>12, <3>1 DEF StoresAt
  <2>16. GoValue(p, k, i) = IF s = {} THEN FirstValue(p, k, i) ELSE st[Max(s)].value
    BY <2>4, <2>15 DEF GoValue
  <2>17. FirstValue(p, k, i) = Eval(heap[a].first, i)
    <3>1. CASE r.isSymbolic
      BY <2>3, <2>5, <2>7, <3>1 DEF FirstValue, ArrayOf
    <3>2. CASE ~ r.isSymbolic
      <4>1. heap[a].first = Number(0)
        BY <2>1, <2>6, <2>7, <3>2 DEF Linked, ArrayOf
      <4>2. Eval(Number(0), i) = 0
        BY NumberFacts DEF Eval
      <4> QED
        BY <2>3, <2>5, <3>2, <4>1, <4>2 DEF FirstValue
    <3> QED
      BY <3>1, <3>2
  <2>18. PICK n1 \in Nat : h \subseteq 1 .. n1
    <3>1. heap \in Seq(Arrays)
      BY <2>1 DEF Typed
    <3>2. heap[a] \in Arrays
      BY <2>8, <3>1
    <3> DEFINE Puts == [address : Addresses, value : Stored]
    <3>3. puts \in Seq(Puts)
      BY <2>9, <3>2 DEF Arrays
    <3> HIDE DEF Puts
    <3>4. DOMAIN puts = 1 .. Len(puts) /\ Len(puts) \in Nat
      BY <3>3
    <3> QED
      BY <2>11, <3>4 DEF PutsAt
  <2>19. PICK n2 \in Nat : s \subseteq 1 .. n2
    <3>1. DOMAIN st = 1 .. Len(st) /\ Len(st) \in Nat
      OBVIOUS
    <3> QED
      BY <2>12, <3>1 DEF StoresAt
  <2>20. CASE h = {} /\ s = {}
    BY <2>3, <2>5, <2>14, <2>16, <2>17, <2>20
  <2>21. CASE ~ (h = {} /\ s = {})
    <3>1. PICK m \in h, l \in s : /\ \A n \in h : m >= n
                                  /\ \A j \in s : l >= j
                                  /\ puts[m].value = st[l].value
      BY <2>13, <2>21 DEF SameLast
    <3>2. Max(h) = m /\ Max(s) = l
      BY <2>18, <2>19, <3>1, MaxIs
    <3> QED
      BY <2>3, <2>5, <2>14, <2>16, <3>1, <3>2
  <2> QED
    BY <2>20, <2>21
<1> QED
  BY LoadsInit, LoadsNext, <1>1, PTL DEF Spec
=============================================================================
