------------------------- MODULE RegisterStoreProofs -------------------------
(***************************************************************************)
(* Proofs about RegisterStore, for any recorders, addresses and number of  *)
(* pushes.  Two facts carry them.  The lengths: a push appends its address *)
(* first and its value last, a deletion erases in the same order, and so   *)
(* address is longer than value by the pushes halfway, less the row being  *)
(* deleted.  And the prefix: what a page shows, or is about to show, is    *)
(* still the beginning of value until a row is deleted, because recorders  *)
(* only append.  None of it needs Defined: up to and with a racing step    *)
(* the accesses are whole, and one past the end changes nothing here.      *)
(*                                                                         *)
(* The second half is about Recording, whose threads are the recorders     *)
(* that push.                                                              *)
(***************************************************************************)
EXTENDS RegisterStore, Recording, FiniteSetTheorems, SequenceTheorems, TLAPS

\* Pushes whose address is in and whose value is not; a deletion halfway.
Pending == {p \in Pusher : ppc[p] \in {"gap", "value"}}
Deleting == web.pc = "del_value"

Lengths ==
  /\ IsFiniteSet(Pending)
  /\ Deleting => Len(address) + 1 = Len(value) + Cardinality(Pending)
  /\ ~Deleting => Len(address) = Len(value) + Cardinality(Pending)

\* The web task pushes inside /storevalue only.
StorePC == ppc[Web] # "idle" => web.pc = "store"

OnePusher ==
  ~mixed => \A p, q \in Pusher : ppc[p] # "idle" /\ ppc[q] # "idle" => p = q

\* The row whose address is gone was one of address; its value may be on its way.
Erasing == Deleting => web.index \in 1..(Len(address) + 1)

\* The row being deleted is the one being pushed.
DeletesPush == Deleting /\ web.index > Len(value)

\* Where the address of value j is.
Place(j) == IF Deleting /\ j > web.index THEN j - 1 ELSE j

Paired ==
  ~mixed =>
    /\ \A j \in DOMAIN value : (Deleting => j # web.index) => address[Place(j)] = value[j].addr
    /\ ~DeletesPush => \A p \in Pending : address[Len(address)] = item[p].addr

Rendering ==
  web.pc = "render" =>
    \A i \in DOMAIN web.vals : i \in DOMAIN value /\ web.vals[i] = value[i]

Shown ==
  \A t \in Tab :
    fresh[t] => \A i \in DOMAIN page[t] : i \in DOMAIN value /\ page[t][i].val = value[i]

PageRight ==
  \A t \in Tab : \A i \in DOMAIN page[t] :
    /\ page[t][i].addr # "beyond"
    /\ ~mixed => page[t][i].addr = page[t][i].val.addr

GraphRight ==
  ~mixed /\ ~graph.gap => \A i \in DOMAIN graph.vals : graph.vals[i].addr = graph.addr

\* An identity is pushed once.
Unique ==
  /\ \A i, j \in DOMAIN value : i # j => value[i].id # value[j].id
  /\ \A i \in DOMAIN value : value[i].id <= pushes
  /\ \A p \in Pusher : item[p].id <= pushes
  /\ \A p \in Pusher :
       ppc[p] # "idle" => \A i \in DOMAIN value : value[i].id # item[p].id
  /\ \A p, q \in Pusher :
       p # q /\ ppc[p] # "idle" /\ ppc[q] # "idle" => item[p].id # item[q].id

IInv ==
  /\ TypeOK
  /\ Lengths
  /\ StorePC
  /\ OnePusher
  /\ Erasing
  /\ Paired
  /\ Rendering
  /\ Shown
  /\ PageRight
  /\ GraphRight
  /\ Unique

-----------------------------------------------------------------------------
(* Erasing an element of a vector. *)

LEMMA Erased ==
  ASSUME NEW S, NEW s \in Seq(S), NEW i \in DOMAIN s
  PROVE  /\ RemoveAt(s, i) \in Seq(S)
         /\ Len(RemoveAt(s, i)) = Len(s) - 1
         /\ \A j \in 1..(Len(s) - 1) :
              RemoveAt(s, i)[j] = IF j < i THEN s[j] ELSE s[j + 1]
<1> DEFINE a == SubSeq(s, 1, i - 1)
           b == SubSeq(s, i + 1, Len(s))
<1>1. i \in 1..Len(s) /\ Len(s) \in Nat
  OBVIOUS
<1>2. a \in Seq(S) /\ Len(a) = i - 1 /\ \A j \in 1..(i - 1) : a[j] = s[j]
  BY <1>1, SubSeqProperties
<1>3. b \in Seq(S) /\ Len(b) = Len(s) - i /\ \A j \in 1..(Len(s) - i) : b[j] = s[i + j]
  BY <1>1, SubSeqProperties
<1>4. RemoveAt(s, i) = a \o b
  BY DEF RemoveAt
<1> HIDE DEF a, b
<1>5. /\ a \o b \in Seq(S)
      /\ Len(a \o b) = Len(a) + Len(b)
      /\ \A j \in 1..(Len(a) + Len(b)) : (a \o b)[j] = IF j <= Len(a) THEN a[j] ELSE b[j - Len(a)]
  BY <1>2, <1>3, ConcatProperties
<1>6. Len(a) + Len(b) = Len(s) - 1
  BY <1>1, <1>2, <1>3
<1>7. ASSUME NEW j \in 1..(Len(s) - 1) PROVE (a \o b)[j] = IF j < i THEN s[j] ELSE s[j + 1]
  <2>1. CASE j < i
    BY <1>1, <1>2, <1>5, <1>6, <2>1
  <2>2. CASE ~(j < i)
    <3>1. ~(j <= Len(a)) /\ j - Len(a) \in 1..(Len(s) - i) /\ i + (j - Len(a)) = j + 1
      BY <1>1, <1>2, <2>2
    <3> QED BY <1>3, <1>5, <1>6, <2>2, <3>1
  <2> QED BY <2>1, <2>2
<1> QED BY <1>4, <1>5, <1>6, <1>7

LEMMA BusyBool == \A vec : Busy(vec) \in BOOLEAN
BY DEF Busy

\* What the types say of the lengths and of an element.
LEMMA Sizes ==
  ASSUME TypeOK
  PROVE  Len(address) \in Nat /\ Len(value) \in Nat
BY DEF TypeOK

LEMMA Elements ==
  ASSUME TypeOK
  PROVE  /\ Len(address) \in Nat /\ DOMAIN address = 1..Len(address)
         /\ Len(value) \in Nat /\ DOMAIN value = 1..Len(value)
         /\ \A i \in DOMAIN address : address[i] \in Addr
         /\ \A i \in DOMAIN value : value[i] \in Item
         /\ \A t \in Tab : \A i \in DOMAIN page[t] : i \in Nat /\ page[t][i] \in Row
         /\ \A x \in Item : x.addr \in Addr /\ x.id \in Nat
         /\ \A p \in Pusher : item[p] \in Item
         /\ pushes \in Nat /\ web.index \in Nat
<1>1. \A x \in Item : x.addr \in Addr /\ x.id \in Nat
  BY BoundAssumption DEF Item
<1>2. \A t \in Tab : \A i \in DOMAIN page[t] : i \in Nat /\ page[t][i] \in Row
  <2> SUFFICES ASSUME NEW t \in Tab PROVE \A i \in DOMAIN page[t] : i \in Nat /\ page[t][i] \in Row
    OBVIOUS
  <2>1. page[t] \in Seq(Row)
    BY DEF TypeOK
  <2> QED BY <2>1
<1>3. pushes \in Nat /\ web.index \in Nat
  BY BoundAssumption DEF TypeOK, Index
<1> QED BY <1>1, <1>2, <1>3 DEF TypeOK

\* The lengths with no push halfway; a deletion is of a row of both vectors.
LEMMA LengthsAlone ==
  ASSUME TypeOK, Lengths, Erasing, Cardinality(Pending) = 0
  PROVE  /\ Deleting => Len(address) + 1 = Len(value) /\ web.index \in DOMAIN value
         /\ ~Deleting => Len(address) = Len(value)
         /\ \A j \in DOMAIN value :
              (Deleting => j # web.index) => Place(j) \in 1..Len(address)
<1>1. Deleting => Len(address) + 1 = Len(value)
  BY Sizes DEF Lengths
<1>2. ~Deleting => Len(address) = Len(value)
  BY Sizes DEF Lengths
<1>3. Deleting => web.index \in DOMAIN value
  BY <1>1, Elements DEF Erasing
<1>4. ASSUME NEW j \in DOMAIN value, Deleting => j # web.index
      PROVE  Place(j) \in 1..Len(address)
  <2>1. CASE Deleting
    BY <1>1, <1>3, <1>4, <2>1, Elements DEF Place
  <2>2. CASE ~Deleting
    BY <1>2, <1>4, <2>2, Elements DEF Place
  <2> QED BY <2>1, <2>2
<1> QED BY <1>1, <1>2, <1>3, <1>4

LEMMA Initially == Init => IInv
<1> SUFFICES ASSUME Init PROVE IInv
  OBVIOUS
<1>1. PICK a \in Addr : item = [p \in Pusher |-> [addr |-> a, id |-> 0]]
  BY DEF Init
<1>2. PICK b \in Addr : graph = [addr |-> b, vals |-> <<>>, gap |-> FALSE]
  BY DEF Init
<1>3. TypeOK
  <2>1. item \in [Pusher -> Item] /\ ppc \in [Pusher -> {"idle", "address", "gap", "value"}]
    BY <1>1, BoundAssumption DEF Init, Item
  <2>2. web \in [pc : WebPC, tab : Tab, index : Index, vals : Seq(Item)]
    <3>1. PICK t \in Tab : web = [pc |-> "idle", tab |-> t, index |-> 0, vals |-> <<>>]
      BY DEF Init
    <3>2. 0 \in Index /\ <<>> \in Seq(Item)
      BY BoundAssumption DEF Index
    <3> QED BY <3>1, <3>2 DEF WebPC
  <2>3. graph.addr \in Addr /\ graph.gap \in BOOLEAN /\ DOMAIN graph.vals = {}
    BY <1>2
  <2>4. /\ address \in Seq(Addr) /\ value \in Seq(Item)
        /\ page \in [Tab -> Seq(Row)] /\ fresh \in [Tab -> BOOLEAN]
        /\ mixed \in BOOLEAN /\ raced \in BOOLEAN /\ wild \in BOOLEAN
        /\ pushes \in 0..MaxPush
    <3>1. pushes \in 0..MaxPush
      BY BoundAssumption DEF Init
    <3>2. address = <<>> /\ value = <<>> /\ page = [t \in Tab |-> <<>>]
      BY DEF Init
    <3>3. /\ mixed \in BOOLEAN /\ raced \in BOOLEAN /\ wild \in BOOLEAN
          /\ fresh \in [Tab -> BOOLEAN]
      BY DEF Init
    <3>4. address \in Seq(Addr) /\ value \in Seq(Item) /\ page \in [Tab -> Seq(Row)]
      BY <3>2
    <3> QED BY <3>1, <3>3, <3>4
  <2> QED BY <2>1, <2>2, <2>3, <2>4 DEF TypeOK
<1>4. Lengths
  <2>1. Pending = {}
    BY DEF Init, Pending
  <2> QED BY <2>1, FS_EmptySet DEF Init, Lengths, Deleting
<1>5. StorePC /\ OnePusher /\ Erasing /\ Paired /\ Rendering /\ Shown /\ PageRight /\ GraphRight
  BY <1>2 DEF Init, StorePC, OnePusher, Erasing, Paired, DeletesPush, Pending, Rendering,
    Shown, Deleting, PageRight, GraphRight, Pusher
<1>6. Unique
  BY <1>1 DEF Init, Unique
<1> QED BY <1>3, <1>4, <1>5, <1>6 DEF IInv

\* A step that leaves the pushes where they are, and what they rest on.
LEMMA PushesKept ==
  ASSUME IInv, UNCHANGED <<ppc, item, pushes, mixed>>, web.pc # "store", web'.pc # "store"
  PROVE  StorePC' /\ OnePusher' /\ Pending' = Pending
BY DEF IInv, StorePC, OnePusher, Pending, Pusher

LEMMA PushBeginStep ==
  ASSUME IInv, NEW p \in Pusher, NEW a \in Addr, PushBegin(p, a),
         \/ p # Web /\ web' = web
         \/ p = Web /\ web.pc = "idle" /\ web' = [web EXCEPT !.pc = "store"]
  PROVE  IInv'
<1> USE DEF IInv
<1>1. /\ web'.pc = IF p = Web THEN "store" ELSE web.pc
      /\ web'.index = web.index /\ web'.vals = web.vals
      /\ p = Web => web.pc = "idle"
  BY DEF TypeOK
<1>2. /\ UNCHANGED <<address, value, page, fresh, graph>>
      /\ pushes' = pushes + 1 /\ pushes \in Nat
      /\ ppc[p] = "idle" /\ ppc'[p] = "address"
      /\ item'[p] = [addr |-> a, id |-> pushes + 1]
      /\ \A q \in Pusher \ {p} : ppc'[q] = ppc[q] /\ item'[q] = item[q]
  BY BoundAssumption DEF PushBegin, TypeOK
<1>11. ~mixed' => ~mixed /\ \A q \in Pusher : ppc[q] = "idle"
  BY DEF PushBegin
<1>3. TypeOK'
  <2>1. web' \in [pc : WebPC, tab : Tab, index : Index, vals : Seq(Item)]
    BY DEF TypeOK, WebPC
  <2>2. item' \in [Pusher -> Item] /\ pushes' \in 0..MaxPush
    BY BoundAssumption DEF PushBegin, TypeOK, Item
  <2> QED BY <2>1, <2>2, BusyBool DEF PushBegin, TypeOK
<1>4. Pending' = Pending /\ Deleting' = Deleting
  BY <1>1, <1>2 DEF Pending, Deleting
<1>5. Lengths'
  BY <1>2, <1>4 DEF Lengths
<1>6. StorePC' /\ OnePusher'
  BY <1>1, <1>2, <1>11 DEF StorePC, OnePusher, Pusher
<1>7. Erasing' /\ Paired'
  BY <1>1, <1>2, <1>4, <1>11 DEF Erasing, Paired, DeletesPush, Place, Pending
<1>8. Rendering' /\ Shown'
  BY <1>1, <1>2, <1>4 DEF Rendering, Shown
<1>9. PageRight' /\ GraphRight'
  BY <1>2, <1>11 DEF PageRight, GraphRight
<1>10. Unique'
  <2>1. /\ \A i \in DOMAIN value : value[i].id \in Nat
        /\ \A q \in Pusher : item[q].id \in Nat
        /\ item'[p].id = pushes + 1
    BY <1>2, Elements
  <2>2. /\ \A i \in DOMAIN value : value[i].id <= pushes' /\ value[i].id # item'[p].id
        /\ \A q \in Pusher : item[q].id <= pushes' /\ item[q].id # item'[p].id
    BY <1>2, <2>1 DEF Unique
  <2> QED BY <1>2, <2>1, <2>2 DEF Unique
<1> QED BY <1>3, <1>5, <1>6, <1>7, <1>8, <1>9, <1>10

LEMMA PushAddressStep ==
  ASSUME IInv, NEW p \in Pusher, PushAddress(p)
  PROVE  IInv'
<1> USE DEF IInv
<1>1. /\ UNCHANGED <<value, item, pushes, web, page, fresh, graph, mixed>>
      /\ ppc[p] = "address" /\ ppc'[p] = "gap"
      /\ \A q \in Pusher \ {p} : ppc'[q] = ppc[q]
  BY DEF PushAddress, TypeOK
<1>2. item[p].addr \in Addr
  BY Elements
<1>3. /\ address' \in Seq(Addr) /\ Len(address') = Len(address) + 1
      /\ \A i \in 1..Len(address) : address'[i] = address[i]
      /\ address'[Len(address) + 1] = item[p].addr
  BY <1>2, AppendProperties DEF PushAddress, TypeOK
<1>4. TypeOK'
  BY <1>3 DEF PushAddress, TypeOK
<1>5. Pending' = Pending \cup {p} /\ p \notin Pending /\ Deleting' = Deleting
  BY <1>1 DEF Pending, Deleting
<1>6. /\ IsFiniteSet(Pending') /\ Cardinality(Pending') = Cardinality(Pending) + 1
      /\ Cardinality(Pending) \in Nat
  BY <1>5, FS_AddElement, FS_CardinalityType DEF Lengths
<1>7. Lengths'
  BY <1>1, <1>3, <1>5, <1>6, Sizes DEF Lengths
<1>8. StorePC' /\ OnePusher'
  BY <1>1 DEF StorePC, OnePusher, Pusher
<1>9. Paired'
  <2> SUFFICES ASSUME ~mixed PROVE Paired'
    BY <1>1 DEF Paired
  <2>1. Pending = {}
    BY <1>1 DEF OnePusher, Pending
  <2>2. \A j \in DOMAIN value : (Deleting => j # web.index) => Place(j) \in 1..Len(address)
    <3>1. Cardinality(Pending) = 0
      BY <2>1, FS_EmptySet
    <3> QED BY <3>1, LengthsAlone
  <2>3. \A j \in DOMAIN value : (Deleting => j # web.index) => address'[Place(j)] = value[j].addr
    BY <1>3, <2>2 DEF Paired
  <2>4. \A q \in Pending' : q = p
    BY <1>5, <2>1
  <2> QED BY <1>1, <1>3, <1>5, <2>3, <2>4 DEF Paired, Place
<1>12. Erasing'
  BY <1>1, <1>3, <1>5, Sizes DEF Erasing
<1>10. Rendering' /\ Shown'
  BY <1>1, <1>5 DEF Rendering, Shown
<1>11. PageRight' /\ GraphRight' /\ Unique'
  BY <1>1 DEF PageRight, GraphRight, Unique
<1> QED BY <1>4, <1>7, <1>8, <1>9, <1>10, <1>11, <1>12

LEMMA PushValueBeginStep ==
  ASSUME IInv, NEW p \in Pusher, PushValueBegin(p)
  PROVE  IInv'
<1> USE DEF IInv
<1>1. /\ UNCHANGED <<address, value, item, pushes, web, page, fresh, graph, mixed>>
      /\ ppc[p] = "gap" /\ ppc'[p] = "value"
      /\ \A q \in Pusher \ {p} : ppc'[q] = ppc[q]
  BY DEF PushValueBegin, TypeOK
<1>2. TypeOK'
  BY BusyBool DEF PushValueBegin, TypeOK
<1>3. Pending' = Pending /\ Deleting' = Deleting
  BY <1>1 DEF Pending, Deleting
<1>4. Lengths' /\ Erasing' /\ Paired'
  BY <1>1, <1>3 DEF Lengths, Erasing, Paired, DeletesPush, Place
<1>5. StorePC' /\ OnePusher'
  BY <1>1 DEF StorePC, OnePusher, Pusher
<1>6. Rendering' /\ Shown'
  BY <1>1, <1>3 DEF Rendering, Shown
<1>7. PageRight' /\ GraphRight' /\ Unique'
  BY <1>1 DEF PageRight, GraphRight, Unique
<1> QED BY <1>2, <1>4, <1>5, <1>6, <1>7

LEMMA PushValueStep ==
  ASSUME IInv, NEW p \in Pusher, PushValue(p)
  PROVE  IInv'
<1> USE DEF IInv
<1>1. /\ UNCHANGED <<address, item, pushes, page, fresh, graph, mixed>>
      /\ ppc[p] = "value" /\ ppc'[p] = "idle"
      /\ \A q \in Pusher \ {p} : ppc'[q] = ppc[q]
  BY DEF PushValue, TypeOK
<1>2. /\ value' \in Seq(Item) /\ Len(value') = Len(value) + 1
      /\ \A i \in 1..Len(value) : value'[i] = value[i]
      /\ value'[Len(value) + 1] = item[p]
  BY AppendProperties, Elements DEF PushValue, TypeOK
<1>3. /\ web'.pc = (IF p = Web THEN "idle" ELSE web.pc)
      /\ web'.index = web.index /\ web'.vals = web.vals
      /\ p = Web => web.pc = "store"
      /\ web' \in [pc : WebPC, tab : Tab, index : Index, vals : Seq(Item)]
  BY <1>1 DEF PushValue, TypeOK, WebPC, StorePC
<1>4. TypeOK'
  BY <1>2, <1>3 DEF PushValue, TypeOK
<1>5. /\ Pending = Pending' \cup {p} /\ Pending' = Pending \ {p} /\ p \in Pending
      /\ Deleting' = Deleting
  BY <1>1, <1>3 DEF Pending, Deleting
<1>6. /\ IsFiniteSet(Pending') /\ Cardinality(Pending') = Cardinality(Pending) - 1
      /\ Cardinality(Pending) \in Nat
  <2>1. IsFiniteSet(Pending)
    BY DEF Lengths
  <2>2. IsFiniteSet(Pending \ {p}) /\ Cardinality(Pending \ {p}) = Cardinality(Pending) - 1
    BY <1>5, <2>1, FS_RemoveElement
  <2> QED BY <1>5, <2>1, <2>2, FS_CardinalityType
<1>7. Lengths'
  BY <1>1, <1>2, <1>5, <1>6, Sizes DEF Lengths
<1>8. StorePC' /\ OnePusher'
  BY <1>1, <1>3 DEF StorePC, OnePusher, Pusher
<1>9. Paired'
  <2> SUFFICES ASSUME ~mixed PROVE Paired'
    BY <1>1 DEF Paired
  <2>1. Pending = {p} /\ Pending' = {}
    BY <1>1, <1>5 DEF OnePusher, Pending
  <2>2. Cardinality(Pending) = 1
    BY <2>1, FS_Singleton
  <2>3. ~DeletesPush => address[Len(address)] = value'[Len(value) + 1].addr
    BY <1>2, <1>5 DEF Paired
  <2>4. Deleting => web.index \in 1..(Len(value) + 1)
    BY <2>2, Sizes DEF Erasing, Lengths
  <2>5. ~DeletesPush => Place(Len(value) + 1) = Len(address)
    <3> SUFFICES ASSUME ~DeletesPush PROVE Place(Len(value) + 1) = Len(address)
      OBVIOUS
    <3>1. CASE Deleting
      <4>1. Len(address) = Len(value)
        BY <2>2, <3>1, Sizes DEF Lengths
      <4>2. Len(value) + 1 > web.index
        BY <2>4, <3>1, Elements DEF DeletesPush
      <4> QED BY <3>1, <4>1, <4>2, Sizes DEF Place
    <3>2. CASE ~Deleting
      BY <2>2, <3>2, Sizes DEF Lengths, Place
    <3> QED BY <3>1, <3>2
  <2>6. \A j : Place(j)' = Place(j)
    BY <1>3, <1>5 DEF Place
  <2>7. ASSUME NEW j \in DOMAIN value', Deleting' => j # web'.index
        PROVE  address'[Place(j)'] = value'[j].addr
    <3>1. CASE j = Len(value) + 1
      <4>1. ~DeletesPush
        <5>1. Deleting => j # web.index
          BY <1>3, <1>5, <2>7
        <5> QED BY <2>4, <3>1, <5>1, Elements DEF DeletesPush
      <4> QED BY <1>1, <2>3, <2>5, <2>6, <3>1, <4>1
    <3>2. CASE j # Len(value) + 1
      <4>1. j \in DOMAIN value /\ value'[j] = value[j]
        BY <1>2, <3>2, Elements
      <4> QED BY <1>1, <1>3, <1>5, <2>6, <2>7, <4>1 DEF Paired
    <3> QED BY <3>1, <3>2
  <2> QED BY <2>1, <2>7 DEF Paired
<1>13. Erasing'
  BY <1>1, <1>3, <1>5 DEF Erasing
<1>10. Rendering' /\ Shown'
  <2>1. \A i \in DOMAIN value : i \in DOMAIN value' /\ value'[i] = value[i]
    BY <1>2, Elements
  <2> QED BY <1>1, <1>3, <2>1 DEF Rendering, Shown
<1>11. PageRight' /\ GraphRight'
  BY <1>1 DEF PageRight, GraphRight
<1>12. Unique'
  <2>1. /\ \A i \in DOMAIN value' : i \in DOMAIN value \/ i = Len(value) + 1
        /\ \A i \in DOMAIN value : value'[i] = value[i]
    BY <1>2, Elements
  <2> QED BY <1>1, <1>2, <2>1 DEF Unique
<1> QED BY <1>4, <1>7, <1>8, <1>9, <1>10, <1>11, <1>12, <1>13

\* An access past the end: the behaviour is over, the invariant stands.
LEMMA PastEndStep ==
  ASSUME IInv, NEW t \in Tab, NEW i \in Index, PastEnd(t, i),
         web.pc = "idle" \/ (web.tab = t /\ web.index = i)
  PROVE  IInv'
<1> USE DEF IInv
<1>1. /\ UNCHANGED <<address, value, ppc, item, pushes, page, fresh, graph, mixed, raced>>
      /\ web' \in [pc : WebPC, tab : Tab, index : Index, vals : Seq(Item)]
      /\ web'.pc = web.pc /\ web'.vals = web.vals /\ wild' \in BOOLEAN
      /\ web.pc = "idle" \/ web'.index = web.index
  BY DEF PastEnd, TypeOK
<1>2. TypeOK'
  BY <1>1 DEF TypeOK
<1>3. Pending' = Pending /\ Deleting' = Deleting /\ (Deleting => web'.index = web.index)
  BY <1>1 DEF Pending, Deleting
<1>4. Lengths' /\ Erasing' /\ Paired'
  BY <1>1, <1>3 DEF Lengths, Erasing, Paired, DeletesPush, Place
<1> QED BY <1>1, <1>2, <1>4 DEF StorePC, OnePusher, Rendering, Shown, PageRight, GraphRight, Unique

\* The handlers that change neither the vectors nor the page.
LEMMA ReadStep ==
  ASSUME IInv,
         \/ \E t \in Tab : HistoryRequest(t)
         \/ HistoryValues
         \/ \E t \in Tab, i \in Index : EditRegister(t, i) /\ ~PastEnd(t, i)
  PROVE  IInv'
<1> USE DEF IInv
<1>1. UNCHANGED <<address, value, ppc, item, pushes, page, fresh, graph, mixed>>
  BY DEF HistoryRequest, HistoryValues, EditRegister
<1> DEFINE Reads == /\ web.pc \in {"idle", "history"} /\ web'.pc \in {"history", "render"}
                    /\ web'.pc = "render" => web'.vals = value
                    /\ web' \in [pc : WebPC, tab : Tab, index : Index, vals : Seq(Item)]
<1>9. Reads
  <2>1. ASSUME NEW t \in Tab, HistoryRequest(t)
        PROVE  Reads
    BY <2>1 DEF HistoryRequest, TypeOK, WebPC
  <2>2. CASE HistoryValues
    BY <2>2 DEF HistoryValues, TypeOK, WebPC
  <2>3. ASSUME NEW t \in Tab, NEW i \in Index, EditRegister(t, i), ~PastEnd(t, i)
        PROVE  Reads
    BY <2>3 DEF EditRegister, TypeOK, WebPC
  <2> QED BY <2>1, <2>2, <2>3
<1>2. raced' \in BOOLEAN /\ wild' \in BOOLEAN
  BY BusyBool DEF HistoryRequest, HistoryValues, EditRegister, TypeOK
<1>3. TypeOK'
  BY <1>1, <1>2, <1>9 DEF TypeOK
<1>4. StorePC' /\ OnePusher' /\ Pending' = Pending
  BY <1>1, <1>9, PushesKept
<1>5. ~Deleting /\ ~Deleting'
  BY <1>9 DEF Deleting
<1>6. Lengths' /\ Erasing' /\ Paired'
  BY <1>1, <1>4, <1>5 DEF Lengths, Erasing, Paired, DeletesPush, Deleting, Place
<1>7. Rendering' /\ Shown'
  BY <1>1, <1>9 DEF Rendering, Shown, Deleting
<1>8. PageRight' /\ GraphRight' /\ Unique'
  BY <1>1 DEF PageRight, GraphRight, Unique
<1> QED BY <1>3, <1>4, <1>6, <1>7, <1>8

LEMMA RenderStep ==
  ASSUME IInv, HistoryRender
  PROVE  IInv'
<1> USE DEF IInv
<1>1. /\ UNCHANGED <<address, value, ppc, item, pushes, graph, mixed, wild>>
      /\ web.pc = "render" /\ web'.pc = "idle"
      /\ web' \in [pc : WebPC, tab : Tab, index : Index, vals : Seq(Item)]
  <2>1. web' = [web EXCEPT !.pc = "idle", !.vals = <<>>] /\ web.pc = "render"
    BY DEF HistoryRender
  <2>2. <<>> \in Seq(Item)
    OBVIOUS
  <2>3. web' \in [pc : WebPC, tab : Tab, index : Index, vals : Seq(Item)] /\ web'.pc = "idle"
    BY <2>1, <2>2 DEF TypeOK, WebPC
  <2> QED BY <2>1, <2>3 DEF HistoryRender
<1>2. ~Deleting /\ ~Deleting'
  BY <1>1 DEF Deleting
\* The values copied are the beginning of value, which is no longer than address.
<1>3. \A i \in DOMAIN web.vals :
        i \in DOMAIN value /\ i \in DOMAIN address /\ web.vals[i] = value[i]
  <2>1. Cardinality(Pending) \in Nat
    BY FS_CardinalityType DEF Lengths
  <2>2. Len(address) = Len(value) + Cardinality(Pending)
    BY <1>2 DEF Lengths
  <2>3. Len(value) <= Len(address)
    BY <2>1, <2>2, Sizes
  <2> QED BY <1>1, <2>3, Elements DEF Rendering
<1>4. /\ DOMAIN Rendered = DOMAIN web.vals
      /\ \A i \in DOMAIN Rendered : Rendered[i] = [addr |-> address[i], val |-> value[i]]
  <2>1. DOMAIN Rendered = DOMAIN web.vals
    BY DEF Rendered
  <2>2. ASSUME NEW i \in DOMAIN web.vals
        PROVE  Rendered[i] = [addr |-> address[i], val |-> value[i]]
    BY <1>3 DEF Rendered
  <2> QED BY <2>1, <2>2
<1>5. Rendered \in Seq(Row)
  <2>1. ASSUME NEW i \in DOMAIN web.vals PROVE Rendered[i] \in Row
    <3>1. address[i] \in Addr /\ value[i] \in Item
      BY <1>3, Elements
    <3>2. Rendered[i] = [addr |-> address[i], val |-> value[i]]
      BY <1>4
    <3>3. [addr |-> address[i], val |-> value[i]] \in Row
      BY <3>1 DEF Row
    <3> QED BY <3>2, <3>3
  <2>2. DOMAIN web.vals = 1..Len(web.vals) /\ Len(web.vals) \in Nat
    BY DEF TypeOK
  <2>3. Rendered = [i \in 1..Len(web.vals) |-> Rendered[i]]
    BY <2>2 DEF Rendered
  <2> QED BY <2>1, <2>2, <2>3
<1>13. ASSUME NEW t \in Tab
       PROVE  \/ page'[t] = page[t] /\ (fresh'[t] => fresh[t])
              \/ page'[t] = Rendered /\ fresh'[t]
  BY DEF HistoryRender, TypeOK
<1>14. page' \in [Tab -> Seq(Row)] /\ fresh' \in [Tab -> BOOLEAN]
  <2>1. CASE UNCHANGED <<page, fresh>>
    BY <2>1 DEF TypeOK
  <2>2. CASE page' = [page EXCEPT ![web.tab] = Rendered] /\ fresh' = [fresh EXCEPT ![web.tab] = TRUE]
    BY <1>5, <2>2 DEF TypeOK
  <2> QED BY <2>1, <2>2 DEF HistoryRender
<1>6. TypeOK'
  <2>1. raced' \in BOOLEAN
    BY BusyBool DEF HistoryRender
  <2> QED BY <1>1, <1>14, <2>1 DEF TypeOK
<1>7. StorePC' /\ OnePusher' /\ Pending' = Pending
  BY <1>1, PushesKept
<1>8. Lengths' /\ Erasing' /\ Paired'
  BY <1>1, <1>2, <1>7 DEF Lengths, Erasing, Paired, DeletesPush, Deleting, Place
<1>9. Rendering' /\ Shown'
  <2>1. ASSUME NEW t \in Tab, fresh'[t], NEW i \in DOMAIN page'[t]
        PROVE  i \in DOMAIN value /\ page'[t][i].val = value[i]
    <3>1. CASE page'[t] = page[t] /\ fresh[t]
      BY <2>1, <3>1 DEF Shown
    <3>2. CASE page'[t] = Rendered
      <4>1. i \in DOMAIN Rendered /\ i \in DOMAIN web.vals
        BY <1>4, <3>2
      <4>2. Rendered[i].val = value[i]
        <5>1. Rendered[i] = [addr |-> address[i], val |-> value[i]]
          BY <1>4, <4>1
        <5> QED BY <5>1
      <4> QED BY <1>3, <3>2, <4>1, <4>2
    <3> QED BY <1>13, <2>1, <3>1, <3>2
  <2> QED BY <1>1, <2>1 DEF Rendering, Shown
<1>10. PageRight'
  <2>1. ASSUME NEW i \in DOMAIN Rendered
        PROVE  Rendered[i].addr # "beyond" /\ (~mixed => Rendered[i].addr = Rendered[i].val.addr)
    <3>1. Rendered[i].addr = address[i] /\ Rendered[i].val = value[i]
      <4>1. Rendered[i] = [addr |-> address[i], val |-> value[i]]
        BY <1>4
      <4> QED BY <4>1
    <3>2. address[i] # "beyond"
      BY <1>3, <1>4, BeyondAssumption, Elements
    <3>3. ~mixed => address[i] = value[i].addr
      BY <1>2, <1>3, <1>4 DEF Paired, Place
    <3> QED BY <3>1, <3>2, <3>3
  <2>2. ASSUME NEW t \in Tab, NEW i \in DOMAIN page'[t]
        PROVE  /\ page'[t][i].addr # "beyond"
               /\ ~mixed => page'[t][i].addr = page'[t][i].val.addr
    <3>1. CASE page'[t] = page[t]
      BY <2>2, <3>1 DEF PageRight
    <3>2. CASE page'[t] = Rendered
      BY <2>1, <2>2, <3>2
    <3> QED BY <1>13, <3>1, <3>2
  <2> QED BY <1>1, <2>2 DEF PageRight
<1>11. GraphRight' /\ Unique'
  BY <1>1 DEF GraphRight, Unique
<1> QED BY <1>6, <1>7, <1>8, <1>9, <1>10, <1>11

LEMMA GraphStep ==
  ASSUME IInv, NEW a \in Addr, GetRegisterValues(a)
  PROVE  IInv'
<1> USE DEF IInv
<1> DEFINE hits == {i \in DOMAIN address : address[i] = a}
           at(i) == IF i \in DOMAIN value THEN value[i] ELSE Junk
           busy == \E p \in Pusher : ppc[p] # "idle"
<1>1. /\ UNCHANGED <<address, value, ppc, item, pushes, page, fresh, mixed, wild>>
      /\ web.pc = "idle" /\ web'.pc = "graph"
      /\ web' \in [pc : WebPC, tab : Tab, index : Index, vals : Seq(Item)]
      /\ graph' = [addr |-> a, vals |-> [i \in hits |-> at(i)], gap |-> busy]
  BY DEF GetRegisterValues, TypeOK, WebPC
<1>2. raced' \in BOOLEAN
  BY BusyBool DEF GetRegisterValues
<1>3. graph'.addr = a /\ graph'.gap = busy /\ graph'.vals = [i \in hits |-> at(i)]
  BY <1>1
<1>4. TypeOK'
  <2>1. \A i \in hits : at(i) \in Item \cup {Junk}
    BY Elements
  <2>2. \A i \in DOMAIN graph'.vals : graph'.vals[i] \in Item \cup {Junk}
    BY <1>3, <2>1
  <2>3. graph'.gap \in BOOLEAN
    BY <1>3
  <2> QED BY <1>1, <1>2, <1>3, <2>2, <2>3 DEF TypeOK
<1>5. StorePC' /\ OnePusher' /\ Pending' = Pending
  BY <1>1, PushesKept
<1>6. Lengths' /\ Erasing' /\ Paired' /\ Rendering' /\ Shown'
  BY <1>1, <1>5 DEF Lengths, Erasing, Paired, DeletesPush, Place, Deleting, Rendering, Shown
<1>7. PageRight' /\ Unique'
  BY <1>1 DEF PageRight, Unique
<1>8. GraphRight'
  <2> SUFFICES ASSUME ~mixed, ~busy, NEW i \in hits PROVE at(i).addr = a
    BY <1>1, <1>3 DEF GraphRight
  <2>1. Pending = {}
    BY DEF Pending
  <2>2. Cardinality(Pending) = 0
    BY <2>1, FS_EmptySet
  <2>3. ~Deleting
    BY <1>1 DEF Deleting
  <2>4. i \in DOMAIN value
    BY <2>2, <2>3, LengthsAlone, Elements
  <2> QED BY <2>3, <2>4 DEF Paired, Place
<1> QED BY <1>4, <1>5, <1>6, <1>7, <1>8

LEMMA SentStep ==
  ASSUME IInv, GraphSent
  PROVE  IInv'
<1> USE DEF IInv
<1>1. /\ UNCHANGED <<address, value, ppc, item, pushes, page, fresh, mixed, raced, wild>>
      /\ web.pc = "graph" /\ web'.pc = "idle"
      /\ web' \in [pc : WebPC, tab : Tab, index : Index, vals : Seq(Item)]
  BY DEF GraphSent, TypeOK, WebPC
<1>2. graph'.addr = graph.addr /\ graph'.gap = FALSE /\ graph'.vals = <<>>
  BY DEF GraphSent, TypeOK
<1>3. TypeOK' /\ GraphRight'
  <2>1. DOMAIN graph'.vals = {}
    BY <1>2
  <2>2. graph'.addr \in Addr /\ graph'.gap \in BOOLEAN
    BY <1>2 DEF TypeOK
  <2>3. \A i \in DOMAIN graph'.vals : graph'.vals[i] \in Item \cup {Junk}
    BY <2>1
  <2>4. GraphRight'
    BY <2>1 DEF GraphRight
  <2> QED BY <1>1, <2>2, <2>3, <2>4 DEF TypeOK
<1>4. StorePC' /\ OnePusher' /\ Pending' = Pending
  BY <1>1, PushesKept
<1>5. Lengths' /\ Erasing' /\ Paired' /\ Rendering' /\ Shown'
  BY <1>1, <1>4 DEF Lengths, Erasing, Paired, DeletesPush, Place, Deleting, Rendering, Shown
<1>6. PageRight' /\ Unique'
  BY <1>1 DEF PageRight, Unique
<1> QED BY <1>3, <1>4, <1>5, <1>6

\* The row erased is one of address, so a whole row or the one being pushed.
LEMMA DeleteRegisterStep ==
  ASSUME IInv, NEW t \in Tab, NEW k \in Index, DeleteRegister(t, k), ~PastEnd(t, k)
  PROVE  IInv'
<1> USE DEF IInv
<1>1. /\ UNCHANGED <<value, ppc, item, pushes, page, fresh, graph, mixed, wild>>
      /\ web.pc = "idle" /\ web'.pc = "del_value" /\ web'.index = k
      /\ web' \in [pc : WebPC, tab : Tab, index : Index, vals : Seq(Item)]
  BY DEF DeleteRegister, TypeOK, WebPC
<1>2. ~Deleting /\ Deleting'
  BY <1>1 DEF Deleting
<1>3. Cardinality(Pending) \in Nat /\ Len(address) = Len(value) + Cardinality(Pending)
  BY <1>2, FS_CardinalityType DEF Lengths
<1>4. k \in DOMAIN address
  BY DEF DeleteRegister
<1>5. /\ address' \in Seq(Addr) /\ Len(address') = Len(address) - 1
      /\ \A j \in 1..(Len(address) - 1) :
           address'[j] = IF j < k THEN address[j] ELSE address[j + 1]
  <2>1. address' = RemoveAt(address, k) /\ address \in Seq(Addr)
    BY DEF DeleteRegister, TypeOK
  <2> QED BY <1>4, <2>1, Erased
<1>6. TypeOK'
  BY <1>1, <1>5, BusyBool DEF DeleteRegister, TypeOK
<1>7. StorePC' /\ OnePusher' /\ Pending' = Pending
  BY <1>1, PushesKept
<1>8. Lengths'
  BY <1>1, <1>2, <1>3, <1>5, <1>7, Sizes DEF Lengths
<1>12. Erasing'
  BY <1>1, <1>4, <1>5, Elements DEF Erasing
<1>9. Paired'
  <2> SUFFICES ASSUME ~mixed PROVE Paired'
    BY <1>1 DEF Paired
  <2>1. ASSUME NEW j \in DOMAIN value, j # k
        PROVE  address'[Place(j)'] = value[j].addr
    <3>1. j \in Nat /\ j >= 1 /\ j <= Len(address) /\ k \in Nat /\ k >= 1 /\ k <= Len(address)
      BY <1>3, <1>4, Elements
    <3>2. address[j] = value[j].addr
      BY <1>2 DEF Paired, Place
    <3>3. CASE j > k
      <4>1. Place(j)' = j - 1 /\ j - 1 \in 1..(Len(address) - 1) /\ ~(j - 1 < k) /\ (j - 1) + 1 = j
        BY <1>1, <1>2, <3>1, <3>3, Sizes DEF Place
      <4> QED BY <1>5, <3>2, <4>1
    <3>4. CASE j < k
      <4>1. Place(j)' = j /\ j \in 1..(Len(address) - 1)
        BY <1>1, <3>1, <3>4, Sizes DEF Place
      <4> QED BY <1>5, <3>2, <3>4, <4>1
    <3> QED BY <2>1, <3>1, <3>3, <3>4
  <2>2. ASSUME NEW p \in Pending, ~DeletesPush'
        PROVE  address'[Len(address')] = item[p].addr
    <3>1. Cardinality(Pending) # 0
      BY <2>2, FS_EmptySet DEF Lengths
    <3>2. k <= Len(value) /\ k \in Nat /\ k >= 1
      BY <1>1, <1>2, <1>4, <2>2, Elements DEF DeletesPush
    <3>3. Len(address') \in 1..(Len(address) - 1) /\ ~(Len(address') < k) /\ Len(address') + 1 = Len(address)
      BY <1>3, <1>5, <3>1, <3>2, Sizes
    <3>4. address[Len(address)] = item[p].addr
      BY <1>2, <2>2 DEF Paired, DeletesPush
    <3> QED BY <1>5, <3>3, <3>4
  <2> QED BY <1>1, <1>2, <1>7, <2>1, <2>2 DEF Paired
<1>10. Rendering' /\ Shown'
  BY <1>1 DEF Rendering, Shown
<1>11. PageRight' /\ GraphRight' /\ Unique'
  BY <1>1 DEF PageRight, GraphRight, Unique
<1> QED BY <1>6, <1>7, <1>8, <1>9, <1>10, <1>11, <1>12

LEMMA DeleteValueStep ==
  ASSUME IInv, DeleteValue, web.index \in DOMAIN value
  PROVE  IInv' /\ Len(value') = Len(value) - 1
         /\ \A i \in DOMAIN value' : value'[i] # value[web.index]
<1> USE DEF IInv
<1> DEFINE k == web.index
<1>1. /\ UNCHANGED <<address, ppc, item, pushes, page, graph, mixed, wild>>
      /\ fresh' = [t \in Tab |-> FALSE]
      /\ web.pc = "del_value" /\ web'.pc = "history"
      /\ web' \in [pc : WebPC, tab : Tab, index : Index, vals : Seq(Item)]
  <2>1. web' = [web EXCEPT !.pc = "history", !.index = 0] /\ web.pc = "del_value"
    BY DEF DeleteValue
  <2>2. 0 \in Index
    BY BoundAssumption DEF Index
  <2>3. web' \in [pc : WebPC, tab : Tab, index : Index, vals : Seq(Item)] /\ web'.pc = "history"
    BY <2>1, <2>2 DEF TypeOK, WebPC
  <2> QED BY <2>1, <2>3 DEF DeleteValue
<1>2. Deleting /\ ~Deleting'
  BY <1>1 DEF Deleting
<1>3. k \in DOMAIN value
  OBVIOUS
<1>4. /\ value' \in Seq(Item) /\ Len(value') = Len(value) - 1
      /\ \A j \in 1..(Len(value) - 1) :
           value'[j] = IF j < k THEN value[j] ELSE value[j + 1]
  <2>1. value' = RemoveAt(value, k) /\ value \in Seq(Item)
    BY DEF DeleteValue, TypeOK
  <2> QED BY <1>3, <2>1, Erased
<1> DEFINE From(j) == IF j < k THEN j ELSE j + 1
<1>5. ASSUME NEW j \in DOMAIN value'
      PROVE  /\ value'[j] = value[From(j)] /\ From(j) \in DOMAIN value /\ From(j) # k
             /\ Place(From(j)) = j /\ j \in Nat
  <2>1. /\ j \in 1..(Len(value) - 1) /\ j \in Nat /\ j >= 1 /\ j <= Len(value) - 1
        /\ k \in Nat /\ Len(value) \in Nat
    BY <1>3, <1>4, Elements
  <2>2. CASE j < k
    BY <1>2, <1>4, <2>1, <2>2, Elements DEF Place
  <2>3. CASE ~(j < k)
    <3>1. From(j) = j + 1 /\ j + 1 > k /\ j + 1 \in 1..Len(value) /\ (j + 1) - 1 = j
      BY <2>1, <2>3
    <3>2. value'[j] = value[j + 1]
      BY <1>4, <2>1, <2>3
    <3> QED BY <1>2, <2>1, <3>1, <3>2, Elements DEF Place
  <2> QED BY <2>2, <2>3
<1>6. TypeOK'
  <2>1. raced' \in BOOLEAN /\ fresh' \in [Tab -> BOOLEAN]
    BY <1>1, BusyBool DEF DeleteValue
  <2> QED BY <1>1, <1>4, <2>1 DEF TypeOK
<1>7. StorePC' /\ OnePusher' /\ Pending' = Pending
  BY <1>1, PushesKept
<1>8. Lengths'
  <2>1. Cardinality(Pending) \in Nat /\ Len(address) + 1 = Len(value) + Cardinality(Pending)
    BY <1>2, FS_CardinalityType DEF Lengths
  <2> QED BY <1>1, <1>2, <1>4, <1>7, <2>1, Sizes DEF Lengths
<1> HIDE DEF From
<1>9. Paired'
  <2>1. \A j \in DOMAIN value' : ~mixed => address[j] = value'[j].addr
    BY <1>2, <1>5 DEF Paired
  <2>2. \A p \in Pending : ~mixed => address[Len(address)] = item[p].addr
    BY <1>3, Elements DEF Paired, DeletesPush
  <2> QED BY <1>1, <1>2, <1>7, <2>1, <2>2 DEF Paired, Place
<1>14. Erasing'
  BY <1>2 DEF Erasing
<1>10. Rendering' /\ Shown'
  BY <1>1, <1>2 DEF Rendering, Shown
<1>11. PageRight' /\ GraphRight'
  BY <1>1 DEF PageRight, GraphRight
<1>12. Unique'
  <2>1. \A i, j \in DOMAIN value' : i # j => From(i) # From(j)
    BY <1>3, <1>5, Elements DEF From
  <2>2. \A i, j \in DOMAIN value' : i # j => value'[i].id # value'[j].id
    BY <1>5, <2>1 DEF Unique
  <2> QED BY <1>1, <1>5, <2>2 DEF Unique
<1>13. \A i \in DOMAIN value' : value'[i] # value[web.index]
  BY <1>3, <1>5 DEF Unique
<1> QED BY <1>4, <1>6, <1>7, <1>8, <1>9, <1>10, <1>11, <1>12, <1>13, <1>14

LEMMA Invariance == IInv /\ [Next]_vars => IInv'
<1> SUFFICES ASSUME IInv, [Next]_vars PROVE IInv'
  OBVIOUS
<1>1. ASSUME NEW r \in Recorder, NEW a \in Addr, RecorderPush(r, a) PROVE IInv'
  BY <1>1, PushBeginStep, WebAssumption DEF RecorderPush, Pusher
<1>2. ASSUME NEW a \in Addr, StoreValue(a) PROVE IInv'
  BY <1>2, PushBeginStep DEF StoreValue, Pusher
<1>3. ASSUME NEW p \in Pusher, Push(p) PROVE IInv'
  BY <1>3, PushAddressStep, PushValueBeginStep, PushValueStep DEF Push
<1>4. ASSUME NEW a \in Addr, GetRegisterValues(a) PROVE IInv'
  BY <1>4, GraphStep
<1>5. CASE HistoryValues \/ \E t \in Tab : HistoryRequest(t)
  BY <1>5, ReadStep
<1>6. ASSUME NEW t \in Tab, NEW i \in Index, EditRegister(t, i) \/ DeleteRegister(t, i) PROVE IInv'
  <2>1. CASE PastEnd(t, i)
    <3>1. web.pc = "idle"
      BY <1>6 DEF EditRegister, DeleteRegister
    <3> QED BY <2>1, <3>1, PastEndStep
  <2>2. CASE ~PastEnd(t, i)
    BY <1>6, <2>2, ReadStep, DeleteRegisterStep
  <2> QED BY <2>1, <2>2
<1>7. CASE DeleteValue
  <2>1. CASE web.index \in DOMAIN value
    BY <1>7, <2>1, DeleteValueStep
  <2>2. CASE web.index \notin DOMAIN value
    <3>1. PastEnd(web.tab, web.index) /\ web.tab \in Tab /\ web.index \in Index
      BY <1>7, <2>2 DEF DeleteValue, IInv, TypeOK
    <3> QED BY <3>1, PastEndStep
  <2> QED BY <2>1, <2>2
<1>8. CASE HistoryRender
  BY <1>8, RenderStep
<1>10. CASE GraphSent
  BY <1>10, SentStep
<1>9. CASE UNCHANGED vars
  BY <1>9 DEF vars, IInv, TypeOK, Lengths, Pending, Deleting, StorePC, OnePusher, Erasing,
    Paired, DeletesPush, Place, Rendering, Shown, PageRight, GraphRight, Unique
<1> QED BY <1>1, <1>2, <1>3, <1>4, <1>5, <1>6, <1>7, <1>8, <1>9, <1>10 DEF Next, Handler

LEMMA Invariant == Spec => []IInv
BY Initially, Invariance, PTL DEF Spec

-----------------------------------------------------------------------------
\* Every variable has its type, whatever indexes the requests carry.
THEOREM TypeCorrect == Spec => []TypeOK
<1>1. IInv => TypeOK
  BY DEF IInv
<1> QED BY <1>1, Invariant, PTL

\* viewHistory never indexes the addresses past their end and, until two pushes
\* overlap, shows each value beside the address pushed with it, whatever rows are
\* deleted; so does getAllRegisterValue outside a push's gap.
THEOREM PagesAreRight == Spec => []PagesRight
<1>1. IInv => PagesRight
  BY DEF IInv, PageRight, GraphRight, PagesRight, HistoryInBounds, SerialReadsPair
<1> QED BY <1>1, Invariant, PTL

\* While the web task deletes, no other step of it: the step is DeleteValue's.
LEMMA DeleteValueOnly ==
  ASSUME TypeOK, Next, web.pc = "del_value", web'.pc = "history"
  PROVE  DeleteValue /\ web.index \in DOMAIN value
<1>1. ~(\E r \in Recorder, a \in Addr : RecorderPush(r, a))
  BY DEF RecorderPush
<1>2. ~(\E p \in Pusher : Push(p))
  BY DEF Push, PushAddress, PushValueBegin, PushValue, TypeOK
<1>3. ~Handler \/ DeleteValue
  BY DEF Handler, StoreValue, GetRegisterValues, GraphSent, EditRegister, DeleteRegister,
    HistoryRequest, HistoryValues, HistoryRender
<1>4. DeleteValue
  BY <1>1, <1>2, <1>3 DEF Next
<1>5. ~PastEnd(web.tab, web.index)
  BY DEF PastEnd, TypeOK
<1> QED BY <1>4, <1>5 DEF DeleteValue

\* A step past the end is a handler's, and its index is not of the vector.
LEMMA PastEndOnly ==
  ASSUME IInv, Next, wild'
  PROVE  /\ UNCHANGED <<value, page, fresh>>
         /\ web'.tab \in Tab /\ web'.index \notin DOMAIN value
<1> USE DEF IInv
<1>1. ~wild
  BY DEF Next, RecorderPush, Push, PushBegin, PushAddress, PushValueBegin, PushValue, Handler,
    StoreValue, GetRegisterValues, GraphSent, EditRegister, DeleteRegister, DeleteValue,
    HistoryRequest, HistoryValues, HistoryRender, Defined
<1>2. PICK t \in Tab, i \in Index :
        /\ PastEnd(t, i)
        /\ \/ i \notin DOMAIN value
           \/ web.pc = "idle" /\ i \notin DOMAIN address
  <2>1. \/ \E t \in Tab, i \in Index : EditRegister(t, i) \/ DeleteRegister(t, i)
        \/ DeleteValue
    BY <1>1 DEF Next, RecorderPush, Push, PushBegin, PushAddress, PushValueBegin, PushValue,
      Handler, StoreValue, GetRegisterValues, GraphSent, HistoryRequest, HistoryValues, HistoryRender
  <2>2. CASE DeleteValue
    BY <1>1, <2>2 DEF DeleteValue, TypeOK
  <2>3. ASSUME NEW t \in Tab, NEW i \in Index, EditRegister(t, i) \/ DeleteRegister(t, i)
        PROVE  /\ PastEnd(t, i)
               /\ \/ i \notin DOMAIN value
                  \/ web.pc = "idle" /\ i \notin DOMAIN address
    BY <1>1, <2>3 DEF EditRegister, DeleteRegister
  <2> QED BY <2>1, <2>2, <2>3
<1>3. i \notin DOMAIN value
  <2> SUFFICES ASSUME web.pc = "idle", i \notin DOMAIN address PROVE i \notin DOMAIN value
    BY <1>2
  <2>1. Cardinality(Pending) \in Nat /\ Len(address) = Len(value) + Cardinality(Pending)
    BY FS_CardinalityType DEF Lengths, Deleting
  <2> QED BY <2>1, Elements
<1> QED BY <1>2, <1>3 DEF PastEnd, TypeOK

\* deleteValue removes the value of the row shown and no other, however many
\* pushes fall between the page and the request, if no row was deleted since the
\* page was made; and then it, and editValue, stay inside the vectors.
THEOREM DeletionIsExact == Spec => DeletesShownRow
<1> DEFINE A == /\ wild' => ~AsksForShownRow'
                /\ web.pc = "del_value" /\ web'.pc = "history" /\ ~raced' /\ AsksForShownRow =>
                     /\ \A i \in DOMAIN value' : value'[i] # page[web.tab][web.index].val
                     /\ Len(value') = Len(value) - 1
<1>1. IInv /\ [Next]_vars => [A]_vars
  <2> SUFFICES ASSUME IInv, Next PROVE A
    OBVIOUS
  <2>1. wild' => ~AsksForShownRow'
    BY PastEndOnly DEF AsksForShownRow, IInv, Shown
  <2>2. ASSUME web.pc = "del_value", web'.pc = "history", AsksForShownRow
        PROVE  /\ \A i \in DOMAIN value' : value'[i] # page[web.tab][web.index].val
               /\ Len(value') = Len(value) - 1
    <3>1. /\ \A i \in DOMAIN value' : value'[i] # value[web.index]
          /\ Len(value') = Len(value) - 1
      BY <2>2, DeleteValueOnly, DeleteValueStep DEF IInv
    <3>2. web.tab \in Tab
      BY DEF IInv, TypeOK
    <3>3. page[web.tab][web.index].val = value[web.index]
      BY <2>2, <3>2 DEF AsksForShownRow, IInv, Shown
    <3> QED BY <3>1, <3>3
  <2> QED BY <2>1, <2>2
<1>2. Spec => [][A]_vars
  BY <1>1, Invariant, PTL DEF Spec
<1> QED BY <1>2 DEF DeletesShownRow

-----------------------------------------------------------------------------
(***************************************************************************)
(* The recorders themselves: Recording, for any addresses, callers and     *)
(* threads.  The argument is mutual exclusion: every step that changes a   *)
(* map is taken by the one caller inside recordingMutex, so between a      *)
(* caller's check and its use of an entry nobody else changed it.          *)
(***************************************************************************)

InMutex == {"st_check", "st_spawn", "relock", "sp_check", "sp_join"}

\* A caller between a lock_guard's construction and its end owns the mutex.
Exclusion == \A c \in Caller : pc[c] \in InMutex => mutex = c

\* A joinable handle belongs to an active recording or to a stop in its join.
HandleIsActive ==
  \A a \in ModbusAddr : handle[a] \in Thread =>
    active[a] = "true" \/ \E c \in Caller : pc[c] = "sp_join" /\ arg[c] = a

\* A stop in its join has cleared the flag and left the entry.
JoinCleared == \A c \in Caller : pc[c] = "sp_join" => active[arg[c]] = "false"

RecorderInv ==
  /\ RecordingTypeOK
  /\ Exclusion
  /\ HandleIsActive
  /\ JoinCleared
  /\ NoOrphanRecorder
  /\ NoTerminate
  /\ ActiveIsServed

LEMMA RecordingTypeStep == RecordingTypeOK /\ [RecordingNext]_recordingVars => RecordingTypeOK'
<1> SUFFICES ASSUME RecordingTypeOK, [RecordingNext]_recordingVars PROVE RecordingTypeOK'
  OBVIOUS
<1> USE DEF RecordingTypeOK, CallerPC, RecorderPC
<1>1. ASSUME NEW c \in Caller, NEW a \in ModbusAddr, StartCall(c, a) \/ StopCall(c, a)
      PROVE  RecordingTypeOK'
  BY <1>1 DEF StartCall, StopCall
<1>2. ASSUME NEW c \in Caller, Lock(c) PROVE RecordingTypeOK'
  BY <1>2 DEF Lock
<1>3. ASSUME NEW c \in Caller, StartRestart(c) PROVE RecordingTypeOK'
  BY <1>3 DEF StartRestart
<1>4. ASSUME NEW c \in Caller, StartCheck(c) PROVE RecordingTypeOK'
  BY <1>4 DEF StartCheck, Touch
<1>5. ASSUME NEW c \in Caller, StartSpawn(c) PROVE RecordingTypeOK'
  <2> PICK t \in Thread : /\ rpc' = [rpc EXCEPT ![t] = "test"]
                          /\ raddr' = [raddr EXCEPT ![t] = arg[c]]
                          /\ handle' = [handle EXCEPT ![arg[c]] = t]
    BY <1>5 DEF StartSpawn
  <2> QED BY <1>5 DEF StartSpawn
<1>6. ASSUME NEW c \in Caller, StartSpawnFails(c) PROVE RecordingTypeOK'
  BY <1>6 DEF StartSpawnFails
<1>7. ASSUME NEW c \in Caller, StopNothing(c) PROVE RecordingTypeOK'
  BY <1>7 DEF StopNothing, Touch, StopReturn
<1>8. ASSUME NEW c \in Caller, StopSignal(c) PROVE RecordingTypeOK'
  BY <1>8 DEF StopSignal
<1>9. ASSUME NEW c \in Caller, StopJoin(c) PROVE RecordingTypeOK'
  BY <1>9 DEF StopJoin, EraseEntries, StopReturn
<1>10. ASSUME NEW t \in Thread, RecorderThread(t) PROVE RecordingTypeOK'
  BY <1>10 DEF RecorderThread, LookupBegin, LookupEnd, Sample, Wake, callerVars
<1>11. CASE UNCHANGED recordingVars
  BY <1>11 DEF recordingVars
<1> QED BY <1>1, <1>2, <1>3, <1>4, <1>5, <1>6, <1>7, <1>8, <1>9, <1>10, <1>11 DEF RecordingNext, Inside

LEMMA RecordingBegins == RecordingInit => RecorderInv
BY ThreadAssumption DEF RecordingInit, RecorderInv, RecordingTypeOK, CallerPC, RecorderPC, Exclusion, InMutex,
  HandleIsActive, JoinCleared, NoOrphanRecorder, NoTerminate, ActiveIsServed

\* Every variable has its type in every reachable state.
THEOREM RecordingTypeCorrect == RecordingSpec => []RecordingTypeOK
<1>1. RecordingInit => RecordingTypeOK
  BY RecordingBegins DEF RecorderInv
<1> QED BY <1>1, RecordingTypeStep, PTL DEF RecordingSpec

-----------------------------------------------------------------------------
(* The steps of a caller inside the mutex. *)

\* Only one caller is inside.
LEMMA Alone ==
  ASSUME RecordingTypeOK, Exclusion, NEW c \in Caller, pc[c] \in InMutex
  PROVE  \A d \in Caller : d # c => pc[d] \notin InMutex
BY DEF Exclusion

LEMMA EnterMutexStep ==
  ASSUME RecorderInv, RecordingTypeOK', NEW c \in Caller,
         Lock(c) \/ \E a \in ModbusAddr : StartCall(c, a) \/ StopCall(c, a)
  PROVE  RecorderInv'
<1> USE DEF RecorderInv, RecordingTypeOK, CallerPC, InMutex
<1>1. CASE Lock(c)
  <2>1. \A d \in Caller : pc[d] \notin InMutex
    BY <1>1, CallerAssumption DEF Lock, Exclusion
  <2>2. Exclusion'
    BY <1>1, <2>1 DEF Lock, Exclusion
  <2>3. HandleIsActive'
    BY <1>1, <2>1 DEF Lock, HandleIsActive
  <2>4. JoinCleared' /\ NoTerminate'
    BY <1>1, <2>1 DEF Lock, JoinCleared, NoTerminate
  <2>5. NoOrphanRecorder'
    BY <1>1 DEF Lock, NoOrphanRecorder
  <2>6. ActiveIsServed'
    BY <1>1 DEF Lock, ActiveIsServed
  <2> QED BY <2>2, <2>3, <2>4, <2>5, <2>6
<1>2. ASSUME NEW a \in ModbusAddr, StartCall(c, a) \/ StopCall(c, a) PROVE RecorderInv'
  <2>1. Exclusion'
    BY <1>2 DEF StartCall, StopCall, Exclusion
  <2>2. HandleIsActive'
    BY <1>2 DEF StartCall, StopCall, HandleIsActive
  <2>3. JoinCleared' /\ NoTerminate'
    BY <1>2 DEF StartCall, StopCall, JoinCleared, NoTerminate
  <2>4. NoOrphanRecorder'
    BY <1>2 DEF StartCall, StopCall, NoOrphanRecorder
  <2>5. ActiveIsServed'
    BY <1>2 DEF StartCall, StopCall, ActiveIsServed
  <2> QED BY <2>1, <2>2, <2>3, <2>4, <2>5
<1> QED BY <1>1, <1>2

LEMMA RecorderThreadStep ==
  ASSUME RecorderInv, RecordingTypeOK', NEW t \in Thread, RecorderThread(t)
  PROVE  RecorderInv'
<1> USE DEF RecorderInv, RecordingTypeOK, RecorderPC
<1>1. /\ UNCHANGED <<active, handle, raddr, mutex, pc, arg, op>>
      /\ rpc[t] # "none" /\ \A u \in Thread : u # t => rpc'[u] = rpc[u]
  BY DEF RecorderThread, LookupBegin, LookupEnd, Sample, Wake, callerVars
<1>2. Exclusion' /\ HandleIsActive' /\ JoinCleared'
  BY <1>1 DEF Exclusion, HandleIsActive, JoinCleared
<1>3. NoOrphanRecorder'
  BY <1>1 DEF NoOrphanRecorder
<1>4. NoTerminate' /\ ActiveIsServed'
  BY <1>1 DEF NoTerminate, ActiveIsServed
<1> QED BY <1>2, <1>3, <1>4

LEMMA StartRecordingStep ==
  ASSUME RecorderInv, RecordingTypeOK', NEW c \in Caller,
         StartRestart(c) \/ StartCheck(c) \/ StartSpawn(c) \/ StartSpawnFails(c)
  PROVE  RecorderInv'
<1> USE DEF RecorderInv, RecordingTypeOK, CallerPC, InMutex
<1>1. pc[c] \in InMutex /\ \A d \in Caller : d # c => pc[d] \notin InMutex
  <2>1. pc[c] \in InMutex
    BY DEF StartRestart, StartCheck, StartSpawn, StartSpawnFails
  <2> QED BY <2>1, Alone
<1>2. CASE StartRestart(c)
  BY <1>1, <1>2 DEF StartRestart, Exclusion, HandleIsActive, JoinCleared,
    NoOrphanRecorder, NoTerminate, ActiveIsServed
<1>3. CASE StartCheck(c)
  <2>1. active[arg[c]] # "true" /\ handle[arg[c]] = NoThread
    BY <1>1, <1>3 DEF StartCheck, HandleIsActive
  <2>2. \A a \in ModbusAddr : active'[a] = "true" <=> active[a] = "true"
    BY <1>3 DEF StartCheck, Touch
  <2>3. Exclusion' /\ JoinCleared'
    BY <1>1, <1>3 DEF StartCheck, Exclusion, JoinCleared
  <2>4. HandleIsActive' /\ ActiveIsServed'
    BY <1>1, <1>3, <2>1, <2>2 DEF StartCheck, HandleIsActive, ActiveIsServed
  <2>5. NoOrphanRecorder' /\ NoTerminate'
    BY <1>1, <1>3, <2>1 DEF StartCheck, NoOrphanRecorder, NoTerminate
  <2> QED BY <2>3, <2>4, <2>5
<1>4. CASE StartSpawn(c)
  <2>1. PICK t \in Thread : /\ rpc[t] = "none"
                            /\ rpc' = [rpc EXCEPT ![t] = "test"]
                            /\ raddr' = [raddr EXCEPT ![t] = arg[c]]
                            /\ handle' = [handle EXCEPT ![arg[c]] = t]
    BY <1>4 DEF StartSpawn
  <2>2. \A u \in Thread : rpc[u] # "none" => raddr[u] # arg[c]
    BY <1>4, ThreadAssumption DEF StartSpawn, NoOrphanRecorder, NoTerminate
  <2>3. NoOrphanRecorder'
    BY <2>1, <2>2 DEF NoOrphanRecorder
  <2>4. \A d \in Caller : pc'[d] \notin InMutex
    BY <1>1, <1>4 DEF StartSpawn
  <2>5. Exclusion' /\ JoinCleared' /\ NoTerminate'
    BY <2>4 DEF Exclusion, JoinCleared, NoTerminate
  <2>6. HandleIsActive'
    BY <1>1, <1>4, <2>1 DEF StartSpawn, HandleIsActive
  <2>7. ActiveIsServed'
    BY <1>1, <1>4, <2>1 DEF StartSpawn, ActiveIsServed
  <2> QED BY <2>3, <2>5, <2>6, <2>7
<1>5. CASE StartSpawnFails(c)
  <2>1. \A d \in Caller : pc'[d] \notin InMutex
    BY <1>1, <1>5 DEF StartSpawnFails
  <2>2. Exclusion' /\ JoinCleared' /\ NoTerminate' /\ NoOrphanRecorder'
    BY <1>5, <2>1 DEF StartSpawnFails, Exclusion, JoinCleared, NoTerminate, NoOrphanRecorder
  <2>3. HandleIsActive'
    BY <1>1, <1>5 DEF StartSpawnFails, HandleIsActive
  <2>4. ActiveIsServed'
    BY <1>5 DEF StartSpawnFails, ActiveIsServed
  <2> QED BY <2>2, <2>3, <2>4
<1> QED BY <1>2, <1>3, <1>4, <1>5

LEMMA StopRecordingStep ==
  ASSUME RecorderInv, RecordingTypeOK', NEW c \in Caller,
         StopNothing(c) \/ StopSignal(c) \/ StopJoin(c)
  PROVE  RecorderInv'
<1> USE DEF RecorderInv, RecordingTypeOK, CallerPC, InMutex
<1>1. pc[c] \in InMutex /\ \A d \in Caller : d # c => pc[d] \notin InMutex
  <2>1. pc[c] \in InMutex
    BY DEF StopNothing, StopSignal, StopJoin
  <2> QED BY <2>1, Alone
<1>2. CASE StopNothing(c)
  <2>1. \A d \in Caller : pc'[d] \notin InMutex
    BY <1>1, <1>2 DEF StopNothing, StopReturn
  <2>2. active[arg[c]] # "true" /\ \A a \in ModbusAddr : active'[a] = "true" <=> active[a] = "true"
    BY <1>2 DEF StopNothing, Touch
  <2>3. Exclusion' /\ JoinCleared' /\ NoTerminate' /\ NoOrphanRecorder'
    BY <1>2, <2>1 DEF StopNothing, StopReturn, Exclusion, JoinCleared, NoTerminate, NoOrphanRecorder
  <2>4. HandleIsActive'
    BY <1>1, <1>2, <2>2 DEF StopNothing, StopReturn, HandleIsActive
  <2>5. ActiveIsServed'
    BY <1>2, <2>2 DEF StopNothing, StopReturn, ActiveIsServed
  <2> QED BY <2>3, <2>4, <2>5
<1>3. CASE StopSignal(c)
  BY <1>1, <1>3 DEF StopSignal, Exclusion, HandleIsActive, JoinCleared,
    NoOrphanRecorder, NoTerminate, ActiveIsServed
<1>4. CASE StopJoin(c)
  <2>1. \A d \in Caller : pc'[d] \notin InMutex
    BY <1>1, <1>4 DEF StopJoin, StopReturn
  <2>2. Exclusion' /\ JoinCleared' /\ NoTerminate'
    BY <2>1 DEF Exclusion, JoinCleared, NoTerminate
  <2>3. NoOrphanRecorder'
    BY <1>4 DEF StopJoin, EraseEntries, StopReturn, NoOrphanRecorder
  <2>4. HandleIsActive'
    BY <1>1, <1>4, ThreadAssumption DEF StopJoin, EraseEntries, StopReturn, HandleIsActive
  <2>5. ActiveIsServed'
    BY <1>1, <1>4 DEF StopJoin, EraseEntries, StopReturn, ActiveIsServed
  <2> QED BY <2>2, <2>3, <2>4, <2>5
<1> QED BY <1>2, <1>3, <1>4

LEMMA RecordingInductive == RecorderInv /\ [RecordingNext]_recordingVars => RecorderInv'
<1> SUFFICES ASSUME RecorderInv, [RecordingNext]_recordingVars PROVE RecorderInv'
  OBVIOUS
<1>1. RecordingTypeOK'
  BY RecordingTypeStep DEF RecorderInv
<1>2. CASE UNCHANGED recordingVars
  BY <1>2 DEF recordingVars, RecorderInv, RecordingTypeOK, Exclusion, HandleIsActive, JoinCleared,
    NoOrphanRecorder, NoTerminate, ActiveIsServed
<1>3. CASE RecordingNext
  BY <1>1, <1>3, EnterMutexStep, RecorderThreadStep, StartRecordingStep, StopRecordingStep DEF RecordingNext, Inside
<1> QED BY <1>2, <1>3

LEMMA RecordingInvariance == RecordingSpec => []RecorderInv
BY RecordingBegins, RecordingInductive, PTL DEF RecordingSpec

-----------------------------------------------------------------------------
\* No thread of an address is orphaned, and the map entry a recorder tests without
\* the mutex outlives the recorder.
THEOREM RecorderOwned == RecordingSpec => []RecorderIsOwned
<1>1. RecorderInv => EntryOutlivesRecorder
  BY DEF RecorderInv, RecordingTypeOK, HandleIsActive, JoinCleared, NoOrphanRecorder,
    EntryOutlivesRecorder, Live
<1>2. RecorderInv => RecorderIsOwned
  BY <1>1 DEF RecorderInv, RecorderIsOwned
<1> QED BY <1>2, RecordingInvariance, PTL

\* startRecordingRegister never assigns over a joinable std::thread, and a flag left
\* set by a failed start has a thread or a stop on its way.
THEOREM StartOrderly == RecordingSpec => []StartLeavesOrder
<1>1. RecorderInv => StartLeavesOrder
  BY DEF RecorderInv, StartLeavesOrder
<1> QED BY <1>1, RecordingInvariance, PTL

\* When stopRecordingRegister returns, no thread samples its address.
THEOREM StopIsComplete == RecordingSpec => StopLeavesNoRecorder
<1> DEFINE Stops == \A c \in Caller : pc[c] \in {"sp_check", "sp_join"} /\ pc'[c] = "idle"
                      => \A t \in Live' : raddr'[t] # arg[c]
<1>1. RecorderInv /\ [RecordingNext]_recordingVars => [Stops]_recordingVars
  <2> SUFFICES ASSUME RecorderInv, RecordingNext, NEW c \in Caller,
                      pc[c] \in {"sp_check", "sp_join"}, pc'[c] = "idle",
                      NEW t \in Thread, t \in Live'
               PROVE  raddr'[t] # arg[c]
    BY DEF Live
  <2> USE DEF RecorderInv, RecordingTypeOK, CallerPC, InMutex
  <2>1. StopNothing(c) \/ StopJoin(c)
    <3>1. ASSUME NEW d \in Caller, NEW a \in ModbusAddr, StartCall(d, a) \/ StopCall(d, a) PROVE FALSE
      BY <3>1 DEF StartCall, StopCall
    <3>2. ASSUME NEW d \in Caller, Lock(d) PROVE FALSE
      BY <3>2 DEF Lock
    <3>3. ASSUME NEW u \in Thread, RecorderThread(u) PROVE FALSE
      BY <3>3 DEF RecorderThread, LookupBegin, LookupEnd, Sample, Wake, callerVars
    <3>4. ASSUME NEW d \in Caller,
                 StartRestart(d) \/ StartCheck(d) \/ StartSpawn(d) \/ StartSpawnFails(d) \/ StopSignal(d)
          PROVE  FALSE
      BY <3>4 DEF StartRestart, StartCheck, StartSpawn, StartSpawnFails, StopSignal
    <3>5. ASSUME NEW d \in Caller, StopNothing(d) \/ StopJoin(d) PROVE d = c
      BY <3>5 DEF StopNothing, StopJoin, StopReturn
    <3> QED BY <3>1, <3>2, <3>3, <3>4, <3>5 DEF RecordingNext, Inside
  <2>2. \A d \in Caller : d # c => pc[d] \notin InMutex
    BY Alone
  <2>3. CASE StopNothing(c)
    <3>1. handle[arg[c]] \notin Thread
      BY <2>2, <2>3 DEF StopNothing, HandleIsActive
    <3> QED BY <2>3, <3>1 DEF StopNothing, NoOrphanRecorder, Live
  <2>4. CASE StopJoin(c)
    BY <2>4 DEF StopJoin, NoOrphanRecorder, Live
  <2> QED BY <2>1, <2>3, <2>4
<1> QED BY <1>1, RecordingInvariance, PTL DEF RecordingSpec, StopLeavesNoRecorder
=============================================================================
